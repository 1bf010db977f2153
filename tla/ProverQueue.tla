----------------------------- MODULE ProverQueue -----------------------------
(***************************************************************************)
(* The request queues of class Prover in src/src/prover/: submitRequest(), *)
(* proverThread, cleanerThread, and the calls of the aggregator client     *)
(* that read them: GetStatus, GetProof, Cancel and the three Gen...Proof.  *)
(*                                                                         *)
(* One thread serves the aggregator, one computes, one deletes.  They      *)
(* share the queues under Prover::mutex, but proverThread comes back from  *)
(* sem_wait() without it, pops a request all the same, and then unlocks.   *)
(* The mutex is a default one: unlock() by a thread that does not own it   *)
(* frees it for whoever waits, so "held" has no owner here.                *)
(*                                                                         *)
(* A section that changes a container takes two actions, one that reads it *)
(* and one that writes the result back: sections that overlap lose an      *)
(* update, which is what two calls on one std::vector can do.              *)
(***************************************************************************)
EXTENDS Integers, SequencesExt

CONSTANTS Requests,      \* requests, each submitted at most once
          NoRequest,     \* pCurrentRequest = NULL
          CleanerRuns    \* the cleaner wakes up in the time modelled

ASSUME QueueAssumption == NoRequest \notin Requests /\ CleanerRuns \in BOOLEAN

VARIABLES
  held,           \* mutex
  pending,        \* pendingRequests
  current,        \* pCurrentRequest
  completed,      \* completedRequests
  known,          \* keys of requestsMap
  pendingSem,     \* value of pendingRequestSem
  bCompleted, bCancelling,
  prover, popped,         \* where proverThread is, the queue it is popping from
  client, clientSaw,      \* the call being served, the queues it found
  cleaner, cleanerSaw,    \* where cleanerThread is, the queues it found
  \* the aggregator, and history
  toldIdle,               \* its last GetStatus answered IDLE
  answer,                 \* the last answer of GetProof for a request
  submitted, processed,   \* requests in the order they were
  failed                  \* the processed ones whose result is not ZKR_SUCCESS

queues    == <<pending, completed, known>>
flags     == <<bCompleted, bCancelling>>
results   == <<processed, failed>>
proverAll == <<prover, popped, current, results>>
clientAll == <<client, clientSaw, toldIdle, answer, submitted>>
cleanAll  == <<cleaner, cleanerSaw>>
vars == <<held, queues, pendingSem, flags, proverAll, clientAll, cleanAll>>

-----------------------------------------------------------------------------
Calls == {"GenProof", "GetProof", "Cancel", "GetStatus"}
NoCall == [call |-> "none", uuid |-> NoRequest]
Answers == {"none", "RESULT_PENDING", "RESULT_COMPLETED_OK",
            "RESULT_COMPLETED_ERROR", "RESULT_ERROR"}

Queues == [pending |-> pending, completed |-> completed, known |-> known]
NoQueues == [pending |-> <<>>, completed |-> {}, known |-> {}]

Lock == ~held /\ held' = TRUE
Unlock == held' = FALSE

Init ==
  /\ held = FALSE
  /\ pending = <<>> /\ completed = {} /\ known = {}
  /\ current = NoRequest
  /\ pendingSem = 0
  /\ bCompleted = [r \in Requests |-> FALSE]
  /\ bCancelling = [r \in Requests |-> FALSE]
  /\ prover = "top" /\ popped = <<>>
  /\ client = NoCall /\ clientSaw = NoQueues
  /\ cleaner = "sleep" /\ cleanerSaw = NoQueues
  /\ toldIdle = FALSE
  /\ answer = [r \in Requests |-> "none"]
  /\ submitted = <<>> /\ processed = <<>> /\ failed = {}

-----------------------------------------------------------------------------
(* proverThread *)

ProverStep(from, to) == prover = from /\ prover' = to

ProverLocks ==
  /\ ProverStep("top", "look")
  /\ Lock
  /\ UNCHANGED <<queues, pendingSem, flags, popped, current, results,
                 clientAll, cleanAll>>

\* The first check of the queue, under the mutex.
ProverLooks ==
  /\ IF pending = <<>> THEN ProverStep("look", "sem") /\ Unlock
                       ELSE ProverStep("look", "take") /\ UNCHANGED held
  /\ UNCHANGED <<queues, pendingSem, flags, popped, current, results,
                 clientAll, cleanAll>>

ProverWakes ==
  /\ ProverStep("sem", "woken")
  /\ pendingSem > 0
  /\ pendingSem' = pendingSem - 1
  /\ UNCHANGED <<held, queues, flags, popped, current, results, clientAll,
                 cleanAll>>

\* The second check; after sem_wait() it is made without the mutex.
ProverRechecks ==
  /\ IF pending = <<>> THEN ProverStep("woken", "top") /\ Unlock
                       ELSE ProverStep("woken", "take") /\ UNCHANGED held
  /\ UNCHANGED <<queues, pendingSem, flags, popped, current, results,
                 clientAll, cleanAll>>

ProverTakes ==
  /\ ProverStep("take", "erase")
  /\ popped' = pending
  /\ current' = Head(pending)
  /\ UNCHANGED <<held, queues, pendingSem, flags, results, clientAll,
                 cleanAll>>

\* Mutant: the request is left in the queue.
ProverErasesNothing ==
  /\ ProverStep("erase", "process")
  /\ popped' = <<>>
  /\ Unlock
  /\ UNCHANGED <<queues, pendingSem, flags, current, results, clientAll,
                 cleanAll>>

ProverErases ==
  /\ ProverStep("erase", "process")
  /\ pending' = Tail(popped)
  /\ popped' = <<>>
  /\ Unlock
  /\ UNCHANGED <<completed, known, pendingSem, flags, current, results,
                 clientAll, cleanAll>>

\* genBatchProof(), genAggregatedProof() or genFinalProof(), which may set a
\* result that is not ZKR_SUCCESS; then lock().
ProverProcesses ==
  /\ ProverStep("process", "finish")
  /\ Lock
  /\ processed' = Append(processed, current)
  /\ failed' \in {failed, failed \cup {current}}
  /\ UNCHANGED <<queues, pendingSem, flags, popped, current, clientAll,
                 cleanAll>>

\* Mutant: pCurrentRequest is reset before it is moved.
ProverFinishesCleared ==
  /\ ProverStep("finish", "clear")
  /\ current' = NoRequest
  /\ completed' = completed \cup {NoRequest}
  /\ UNCHANGED <<held, pending, known, pendingSem, flags, popped, results,
                 clientAll, cleanAll>>

ProverFinishes ==
  /\ ProverStep("finish", "clear")
  /\ completed' = completed \cup {current}
  /\ UNCHANGED <<held, pending, known, pendingSem, flags, popped, current,
                 results, clientAll, cleanAll>>

ProverClears ==
  /\ ProverStep("clear", "notify")
  /\ current' = NoRequest
  /\ Unlock
  /\ UNCHANGED <<queues, pendingSem, flags, popped, results, clientAll,
                 cleanAll>>

\* notifyCompleted(), outside the mutex.
ProverNotifies ==
  /\ ProverStep("notify", "top")
  /\ bCompleted' = [bCompleted EXCEPT ![Last(processed)] = TRUE]
  /\ UNCHANGED <<held, queues, pendingSem, bCancelling, popped, current,
                 results, clientAll, cleanAll>>

-----------------------------------------------------------------------------
(* aggregatorClientThread: one call at a time. *)

\* What an aggregator may call: a request that passes its checks, or a question
\* about one that was accepted, or about none.
MayCall(call, r) ==
  /\ r = NoRequest <=> call = "GetStatus"
  /\ call = "GenProof" => r \notin ToSet(submitted)
  /\ call \in {"GetProof", "Cancel"} => r \in ToSet(submitted)

ClientLocks(call, r) ==
  /\ client = NoCall
  /\ Lock
  /\ client' = [call |-> call, uuid |-> r]
  /\ clientSaw' = Queues
  /\ UNCHANGED <<queues, pendingSem, flags, proverAll, cleanAll, toldIdle,
                 answer, submitted>>

Serves(call) ==
  /\ client.call = call
  /\ client' = NoCall
  /\ clientSaw' = NoQueues
  /\ Unlock

\* Mutant: the semaphore is not released.
ClientSubmitsQuietly ==
  /\ Serves("GenProof")
  /\ known' = clientSaw.known \cup {client.uuid}
  /\ pending' = Append(clientSaw.pending, client.uuid)
  /\ submitted' = Append(submitted, client.uuid)
  /\ toldIdle' = FALSE
  /\ UNCHANGED <<completed, pendingSem, flags, proverAll, cleanAll, answer>>

ClientSubmits ==
  /\ Serves("GenProof")
  /\ known' = clientSaw.known \cup {client.uuid}
  /\ pending' = Append(clientSaw.pending, client.uuid)
  /\ pendingSem' = pendingSem + 1
  /\ submitted' = Append(submitted, client.uuid)
  /\ toldIdle' = FALSE
  /\ UNCHANGED <<completed, flags, proverAll, cleanAll, answer>>

\* Mutant: the queue of pending requests is not looked at.
IdleWhenNotComputing == current = NoRequest

Idle == current = NoRequest /\ pending = <<>>

ClientGetsStatus ==
  /\ Serves("GetStatus")
  /\ toldIdle' = Idle
  /\ UNCHANGED <<queues, pendingSem, flags, proverAll, cleanAll, answer,
                 submitted>>

Completed(r) ==
  IF r \in failed THEN "RESULT_COMPLETED_ERROR" ELSE "RESULT_COMPLETED_OK"

\* Mutant: a request that left the pending queue is taken for completed.
AnswerWhenPopped(r) ==
  IF r \notin clientSaw.known THEN "RESULT_ERROR"
  ELSE IF r \in ToSet(pending) THEN "RESULT_PENDING" ELSE Completed(r)

\* Mutant: a request that is not completed is not found.
AnswerIfCompleted(r) ==
  IF r \in clientSaw.known /\ bCompleted[r] THEN Completed(r)
                                           ELSE "RESULT_ERROR"

Answer(r) ==
  IF r \notin clientSaw.known THEN "RESULT_ERROR"
  ELSE IF ~bCompleted[r] THEN "RESULT_PENDING" ELSE Completed(r)

ClientGetsProof ==
  /\ Serves("GetProof")
  /\ answer' = [answer EXCEPT ![client.uuid] = Answer(client.uuid)]
  /\ UNCHANGED <<queues, pendingSem, flags, proverAll, cleanAll, toldIdle,
                 submitted>>

\* The flag is set, and no thread ever reads it.
ClientCancels ==
  /\ Serves("Cancel")
  /\ bCancelling' = [bCancelling EXCEPT ![client.uuid] =
       @ \/ (client.uuid \in clientSaw.known /\ ~bCompleted[client.uuid])]
  /\ UNCHANGED <<queues, pendingSem, bCompleted, proverAll, cleanAll, toldIdle,
                 answer, submitted>>

-----------------------------------------------------------------------------
(* cleanerThread *)

CleanerLocks ==
  /\ CleanerRuns
  /\ cleaner = "sleep"
  /\ Lock
  /\ cleaner' = "clean"
  /\ cleanerSaw' = Queues
  /\ UNCHANGED <<queues, pendingSem, flags, proverAll, clientAll>>

\* Deletes the requests that ended more than requestsPersistence ago, which
\* may be any of the completed ones.
CleanerCleans ==
  /\ cleaner = "clean"
  /\ \E old \in SUBSET cleanerSaw.completed :
       IF old = {} THEN UNCHANGED queues
       ELSE /\ completed' = cleanerSaw.completed \ old
            /\ known' = cleanerSaw.known \ old
            /\ UNCHANGED pending
  /\ Unlock
  /\ cleaner' = "sleep"
  /\ cleanerSaw' = NoQueues
  /\ UNCHANGED <<pendingSem, flags, proverAll, clientAll>>

-----------------------------------------------------------------------------
ProverThread ==
  \/ ProverLocks \/ ProverLooks \/ ProverWakes \/ ProverRechecks
  \/ ProverTakes \/ ProverErases \/ ProverProcesses \/ ProverFinishes
  \/ ProverClears \/ ProverNotifies

ClientServes ==
  ClientSubmits \/ ClientGetsStatus \/ ClientGetsProof \/ ClientCancels

Next ==
  \/ ProverThread
  \/ \E call \in Calls, r \in Requests \cup {NoRequest} :
       MayCall(call, r) /\ ClientLocks(call, r)
  \/ ClientServes
  \/ CleanerLocks
  \/ CleanerCleans

Spec == Init /\ [][Next]_vars

-----------------------------------------------------------------------------
(* Properties. *)

QueuesType ==
  [pending : Seq(Requests), completed : SUBSET Requests, known : SUBSET Requests]

\* Every variable has its type.
TypeOK ==
  /\ held \in BOOLEAN
  /\ pending \in Seq(Requests) /\ popped \in Seq(Requests)
  /\ completed \in SUBSET Requests /\ known \in SUBSET Requests
  /\ current \in Requests \cup {NoRequest}
  /\ pendingSem \in Nat
  /\ bCompleted \in [Requests -> BOOLEAN]
  /\ bCancelling \in [Requests -> BOOLEAN]
  /\ prover \in {"top", "look", "sem", "woken", "take", "erase", "process",
                 "finish", "clear", "notify"}
  /\ client \in [call : Calls, uuid : Requests \cup {NoRequest}] \cup {NoCall}
  /\ cleaner \in {"sleep", "clean"}
  /\ {clientSaw, cleanerSaw} \subseteq QueuesType
  /\ toldIdle \in BOOLEAN
  /\ answer \in [Requests -> Answers]
  /\ submitted \in Seq(Requests) /\ processed \in Seq(Requests)
  /\ failed \in SUBSET Requests

\* proverThread never sleeps on the semaphore while a request is pending,
\* although its counter also holds the posts of requests that were popped
\* without waiting, and although the queue is read without the mutex.
NoLostWakeup ==
  prover = "sem" /\ pending # <<>> => pendingSem > 0

\* Requests are processed in the order in which they were submitted, each of
\* them once.
ProcessedInOrder == IsPrefix(processed, submitted)

\* A prover that says it is idle has processed everything submitted to it, even
\* when it says so in the middle of a pop made without the mutex.
IdleMeansDone == toldIdle => ToSet(submitted) \subseteq completed

\* GetProof never denies a request that was accepted, and what it says of a
\* completed one is the result of its computation, success or error.
AnswersAreTrue ==
  \A r \in Requests :
    /\ r \in ToSet(submitted) => answer[r] # "RESULT_ERROR"
    /\ answer[r] = "RESULT_COMPLETED_OK" => r \in ToSet(processed) \ failed
    /\ answer[r] = "RESULT_COMPLETED_ERROR" => r \in ToSet(processed) \cap failed

\* What the comment of Prover::mutex says: it protects the requests queues, so
\* no two threads are in a section that reads or writes them.
Inside ==
  {t \in {"prover", "client", "cleaner"} :
     \/ t = "prover" /\ prover \in {"look", "take", "erase", "finish", "clear"}
     \/ t = "client" /\ client # NoCall
     \/ t = "cleaner" /\ cleaner # "sleep"}

MutexProtectsQueues == Cardinality(Inside) <= 1
===============================================================================
