----------------------- MODULE AggregatorStreamProofs -----------------------
(***************************************************************************)
(* The invariants of AggregatorStream, for any jobs, requests, limits and  *)
(* number of faults and of failed computations.                            *)
(***************************************************************************)
EXTENDS AggregatorStream, ProverQueueProofs, FiniteSetTheorems

-----------------------------------------------------------------------------
(* The thread and the wire.                                                *)

MessageOK(m) ==
  /\ m.call \in StreamCalls
  /\ m.call \in {"GenProof", "GetProof", "Cancel"} => m.job \in Jobs
  /\ m.call \in {"GetProof", "Cancel"} => m.uuid \in Requests

ReplyOK(m) ==
  /\ MessageOK(m)
  /\ m.call = "GenProof" => m.uuid \in Requests
  /\ m.said \in {"RESULT_COMPLETED_OK", "RESULT_COMPLETED_ERROR"} => m.call = "GetProof"
  /\ m.said = "IDLE" => m.call = "GetStatus"

InStream == at \in {"read", "serve", "call", "write"}

\* What the thread holds where it is; the watchdog runs inside the loop only.
ThreadInv ==
  /\ at \in {"connect", "read", "serve", "call", "write", "sleep"}
  /\ bStarted \in BOOLEAN /\ (bStarted <=> InStream) /\ misused = FALSE
  /\ at \in {"serve", "call"} => MessageOK(work)
  /\ at = "write" => ReplyOK(work)
  /\ at \in {"connect", "read", "sleep"} => work = NoMessage
  /\ at = "call" <=> client # NoCall
  /\ at = "call" =>
       /\ client.call = work.call
       /\ client.call \in {"GetProof", "Cancel"} => client.uuid = work.uuid

\* One message at a time, and only through a stream that is up.
WireInv ==
  /\ link \in {"none", "up", "silent", "broken"}
  /\ link = "up" => InStream
  /\ link # "up" => toProver = NoMessage /\ toAggregator = NoMessage /\ idle = FALSE
  /\ toProver = NoMessage \/ MessageOK(toProver)
  /\ toAggregator = NoMessage \/ ReplyOK(toAggregator)
  /\ toProver # NoMessage => work = NoMessage /\ toAggregator = NoMessage
  /\ toAggregator # NoMessage => work = NoMessage
  /\ idle \in BOOLEAN
  /\ asked \in [Jobs -> Requests \cup {NoRequest}]
  /\ got \in [Jobs -> Requests \cup {NoRequest}]
  /\ faults \in Nat

ShapeInv == QueueInv /\ ThreadInv /\ WireInv

LEMMA MessagesAreNotNone ==
  ASSUME NEW m, MessageOK(m)
  PROVE  m # NoMessage
  BY DEF MessageOK, NoMessage, StreamCalls, Calls

LEMMA NewProverKeepsQueue == NewProver => QueueInv' /\ client' = NoCall
<1>1. NewProver => Init'
  BY DEF NewProver, Init
<1>2. Init' => QueueInv'
  BY QueueInit, PTL
<1> QED
  BY <1>1, <1>2 DEF Init

LEMMA ShapeInit == StreamInit => ShapeInv
<1> SUFFICES ASSUME StreamInit PROVE ShapeInv
  OBVIOUS
<1>1. QueueInv
  BY QueueInit DEF StreamInit
<1>2. ThreadInv
  BY DEF StreamInit, Init, ThreadInv, InStream, NoCall
<1>3. WireInv
  BY DEF StreamInit, WireInv, InStream
<1> QED
  BY <1>1, <1>2, <1>3 DEF ShapeInv, WireInv

LEMMA SentMessagesAreOK ==
  ASSUME NEW call \in StreamCalls, NEW j \in Jobs \cup {NoJob}, NEW r \in Requests \cup {NoRequest},
         call \in {"GenProof", "GetProof", "Cancel"} => j \in Jobs,
         call \in {"GetProof", "Cancel"} => r \in Requests
  PROVE  MessageOK(Message(call, j, r))
  BY DEF MessageOK, Message

\* What the aggregator sends, and when.
SentAs(call, j, r) ==
  /\ Sends(call, j, r)
  /\ MessageOK(Message(call, j, r))
  /\ call \in {"GetProof", "Cancel"} => r = asked[j]
  /\ call = "GenProof" => idle /\ Wanted(j) /\ asked[j] = NoRequest
  /\ call # "Cancel" => faults' \in Nat /\ faults' >= faults
  /\ call = "Cancel" => faults' = faults + 1
  /\ UNCHANGED <<jobOf, computed>>

LEMMA SendsCases ==
  ASSUME ShapeInv, Aggregator \/ \E j \in Jobs : Errs(j)
  PROVE  \/ Hears
         \/ \E call \in StreamCalls, j \in Jobs \cup {NoJob}, r \in Requests \cup {NoRequest} :
              SentAs(call, j, r)
<1> {"GetStatus", "GenProof", "GetProof", "Cancel", "Invalid"} \subseteq StreamCalls
  BY DEF StreamCalls, Calls
<1> USE DEF SentAs, history
<1>0. asked \in [Jobs -> Requests \cup {NoRequest}] /\ faults \in Nat
  BY DEF ShapeInv, WireInv
<1>1. CASE Hears BY <1>1
<1>2. CASE AsksStatus
  <2> SentAs("GetStatus", NoJob, NoRequest)
    BY <1>0, <1>2, SentMessagesAreOK DEF AsksStatus
  <2> QED
    OBVIOUS
<1>3. ASSUME NEW j \in Jobs, AsksFor(j) PROVE SentAs("GenProof", j, NoRequest)
  BY <1>0, <1>3, SentMessagesAreOK DEF AsksFor
<1>4. ASSUME NEW j \in Jobs, Polls(j) PROVE SentAs("GetProof", j, asked[j]) /\ asked[j] \in Requests
  <2> asked[j] \in Requests
    BY <1>0, <1>4 DEF Polls
  <2> QED
    BY <1>0, <1>4, SentMessagesAreOK DEF Polls
<1>5. ASSUME NEW j \in Jobs, Errs(j)
      PROVE  \/ SentAs("Cancel", j, asked[j]) /\ asked[j] \in Requests
             \/ SentAs("Invalid", NoJob, NoRequest)
  <2>1. CASE asked[j] # NoRequest /\ Sends("Cancel", j, asked[j])
    <3> asked[j] \in Requests
      BY <1>0, <2>1
    <3> QED
      BY <1>0, <1>5, <2>1, SentMessagesAreOK DEF Errs
  <2>2. CASE Sends("Invalid", NoJob, NoRequest)
    BY <1>0, <1>5, <2>2, SentMessagesAreOK DEF Errs
  <2> QED
    BY <1>5, <2>1, <2>2 DEF Errs
<1> HIDE DEF SentAs
<1> QED
  BY <1>1, <1>2, <1>3, <1>4, <1>5 DEF Aggregator

\* Steps of the thread that touch neither the queues nor the wire's messages,
\* and what a new process starts with.
LEMMA StreamKeepsQueue == ShapeInv /\ StreamNext => QueueInv'
<1> SUFFICES ASSUME ShapeInv, StreamNext PROVE QueueInv'
  OBVIOUS
<1>1. CASE UNCHANGED queueVars
  BY <1>1, StutterKeepsQueue DEF ShapeInv, queueVars
<1>2. CASE ProverRuns
  BY <1>2, ProverKeepsQueue DEF ProverRuns, ShapeInv
<1>3. CASE StreamServes
  BY <1>3, ServingKeepsQueue DEF StreamServes, ShapeInv
<1>4. CASE StreamLocks
  <2>1. PICK r \in Requests \cup {NoRequest} :
          /\ work.call = "GenProof" =>
               FreshRequests # {} /\ r = CHOOSE x \in FreshRequests : TRUE
          /\ work.call # "GenProof" => r = work.uuid
          /\ ClientLocks(work.call, r)
    BY <1>4 DEF StreamLocks
  <2>2. FreshRequests # {} => (CHOOSE x \in FreshRequests : TRUE) \in FreshRequests
    OBVIOUS
  <2>3. MessageOK(work) /\ work.call \in Calls
    BY <1>4 DEF StreamLocks, ShapeInv, ThreadInv
  <2>4. work.call # "GetStatus" => r \in Requests
    BY <2>1, <2>2, <2>3 DEF MessageOK, Calls, FreshRequests
  <2> QED
    BY <2>1, <2>3, <2>4, LockingKeepsQueue DEF ShapeInv
<1>5. CASE ReachesMaxStreams \/ WatchdogExits
  BY <1>5, NewProverKeepsQueue DEF ReachesMaxStreams, WatchdogExits, Exits
<1>6. CASE Connects \/ Reads \/ StreamRejects \/ Writes \/ FindsItBroken \/ WakesUp \/ LinkFails
  BY <1>1, <1>6 DEF Connects, Reads, StreamRejects, Writes, FindsItBroken, WakesUp, LinkFails
<1>7. CASE Aggregator \/ \E j \in Jobs : Errs(j)
  BY <1>1, <1>7, SendsCases DEF Hears, SentAs, Sends
<1> QED
  BY <1>2, <1>3, <1>4, <1>5, <1>6, <1>7 DEF StreamNext, StreamThread

\* proverThread keeps what it shares with the thread of the stream apart.
LEMMA ProverLeavesTheRest ==
  ProverRuns => /\ UNCHANGED <<threadVars, wireVars, aggVars, jobOf, faults>>
                /\ UNCHANGED <<known, clientAll>>
  BY DEF ProverRuns, ProverThread, ProverLocks, ProverLooks, ProverWakes, ProverRechecks,
     ProverTakes, ProverErases, ProverProcesses, ProverFinishes, ProverClears, ProverNotifies,
     queues, clientAll

\* The request a call is made for.
LEMMA LockedRequest ==
  ASSUME ShapeInv, StreamLocks
  PROVE  \E r \in Requests \cup {NoRequest} :
           /\ ClientLocks(work.call, r)
           /\ work.call \in Calls
           /\ work.call = "GenProof" => r \in FreshRequests
           /\ work.call # "GenProof" => r = work.uuid
<1>1. PICK r \in Requests \cup {NoRequest} :
        /\ work.call = "GenProof" =>
             FreshRequests # {} /\ r = CHOOSE x \in FreshRequests : TRUE
        /\ work.call # "GenProof" => r = work.uuid
        /\ ClientLocks(work.call, r)
  BY DEF StreamLocks
<1>2. FreshRequests # {} => (CHOOSE x \in FreshRequests : TRUE) \in FreshRequests
  OBVIOUS
<1>3. work.call \in Calls
  BY DEF StreamLocks
<1> QED
  BY <1>1, <1>2, <1>3

LEMMA WhatIsSaid ==
  ASSUME QueueInv, ClientServes
  PROVE  /\ client.call \in Calls
         /\ Said \in {"RESULT_COMPLETED_OK", "RESULT_COMPLETED_ERROR"} => client.call = "GetProof"
         /\ Said = "IDLE" => client.call = "GetStatus" /\ toldIdle'
         /\ client.call = "GetProof" => Said = Answer(client.uuid)
<1>1. client.call \in Calls
  BY DEF ClientServes, ClientSubmits, ClientGetsStatus, ClientGetsProof, ClientCancels, Serves, Calls
<1>2. client.call = "GetProof" => Said = answer'[client.uuid] /\ answer'[client.uuid] = Answer(client.uuid)
  <2>1. client.call = "GetProof" => Said = answer'[client.uuid]
    BY DEF Said
  <2>2. client.call = "GetProof" => client.uuid \in Requests /\ answer \in [Requests -> Answers]
    BY DEF QueueInv, HandsInv, TypeOK
  <2>3. client.call = "GetProof" => ClientGetsProof
    BY DEF ClientServes, ClientSubmits, ClientGetsStatus, ClientCancels, Serves
  <2> QED
    BY <2>1, <2>2, <2>3 DEF ClientGetsProof
<1>3. client.call = "GetProof" => Said \in Answers
  BY <1>2 DEF Answer, Completed, Answers
<1>4. client.call # "GetProof" =>
        Said \notin {"RESULT_COMPLETED_OK", "RESULT_COMPLETED_ERROR"} /\ (Said = "IDLE" => client.call = "GetStatus" /\ toldIdle')
  BY <1>1 DEF Said, Calls
<1> QED
  BY <1>1, <1>2, <1>3, <1>4 DEF Answers

LEMMA StreamKeepsThread == ShapeInv /\ StreamNext => ThreadInv'
<1> SUFFICES ASSUME ShapeInv, StreamNext PROVE ThreadInv'
  OBVIOUS
<1> USE DEF ThreadInv, InStream
<1>0. ThreadInv /\ WireInv
  BY DEF ShapeInv
<1>1. CASE UNCHANGED <<threadVars, client>>
  BY <1>0, <1>1 DEF threadVars
<1>2. CASE ProverRuns
  BY <1>1, <1>2, ProverLeavesTheRest DEF clientAll
<1>3. CASE StreamServes
  <2>1. /\ at = "call" /\ at' = "write" /\ UNCHANGED <<bStarted, misused>>
        /\ work' = Reply(work, client.uuid, Said)
    BY <1>3 DEF StreamServes
  <2>2. client' = NoCall
    BY <1>3 DEF StreamServes, ClientServes, ClientSubmits, ClientGetsStatus, ClientGetsProof,
       ClientCancels, Serves
  <2>3. MessageOK(work) /\ client.call = work.call /\ client # NoCall
    BY <1>0, <2>1
  <2>4. client.call \in {"GenProof", "GetProof", "Cancel"} => client.uuid \in Requests
    BY DEF ShapeInv, QueueInv, HandsInv
  <2>5. /\ Said \in {"RESULT_COMPLETED_OK", "RESULT_COMPLETED_ERROR"} => client.call = "GetProof"
        /\ Said = "IDLE" => client.call = "GetStatus"
    BY <1>3, WhatIsSaid DEF StreamServes, ShapeInv
  <2>6. ReplyOK(work')
    BY <2>1, <2>3, <2>4, <2>5 DEF ReplyOK, MessageOK, Reply
  <2> QED
    BY <1>0, <2>1, <2>2, <2>6
<1>4. CASE StreamLocks
  <2>1. PICK r \in Requests \cup {NoRequest} :
          /\ ClientLocks(work.call, r)
          /\ work.call \in Calls
          /\ work.call = "GenProof" => r \in FreshRequests
          /\ work.call # "GenProof" => r = work.uuid
    BY <1>4, LockedRequest
  <2>2. client' = [call |-> work.call, uuid |-> r] /\ client = NoCall
    BY <2>1 DEF ClientLocks
  <2>3. client' # NoCall
    BY <2>1, <2>2 DEF NoCall, Calls
  <2> QED
    BY <1>0, <1>4, <2>1, <2>2, <2>3 DEF StreamLocks
<1>5. CASE ReachesMaxStreams \/ WatchdogExits
  BY <1>0, <1>5, NewProverKeepsQueue DEF ReachesMaxStreams, WatchdogExits, Exits
<1>6. CASE Connects
  BY <1>0, <1>6 DEF Connects, WatchdogStart, queueVars, vars, clientAll
<1>7. CASE Reads
  BY <1>0, <1>7 DEF Reads, WireInv, WatchdogRestart, queueVars, vars, clientAll
<1>8. CASE StreamRejects
  <2>1. ReplyOK(work')
    BY <1>0, <1>8 DEF StreamRejects, ReplyOK, MessageOK, Reply
  <2> QED
    BY <1>0, <1>8, <2>1 DEF StreamRejects, queueVars, vars, clientAll
<1>9. CASE Writes
  BY <1>0, <1>9 DEF Writes, WatchdogRestart, queueVars, vars, clientAll
<1>10. CASE FindsItBroken
  BY <1>0, <1>10 DEF FindsItBroken, WatchdogStop, queueVars, vars, clientAll
<1>11. CASE WakesUp
  BY <1>0, <1>11 DEF WakesUp, queueVars, vars, clientAll
<1>12. CASE LinkFails
  BY <1>1, <1>12 DEF LinkFails, queueVars, vars, clientAll
<1>13. CASE Aggregator \/ \E j \in Jobs : Errs(j)
  BY <1>1, <1>13, SendsCases DEF Hears, SentAs, Sends, queueVars, vars, clientAll
<1> QED
  BY <1>2, <1>3, <1>4, <1>5, <1>6, <1>7, <1>8, <1>9, <1>10, <1>11, <1>12, <1>13 DEF StreamNext, StreamThread

LEMMA StreamKeepsWire == ShapeInv /\ StreamNext => WireInv'
<1> SUFFICES ASSUME ShapeInv, StreamNext PROVE WireInv'
  OBVIOUS
<1> USE DEF WireInv, InStream
<1>0. ThreadInv /\ WireInv
  BY DEF ShapeInv
<1>2. CASE ProverRuns
  BY <1>0, <1>2, ProverLeavesTheRest DEF threadVars, wireVars, aggVars, history
<1>3. CASE StreamServes
  <2>1. MessageOK(work) /\ work # NoMessage
    BY <1>0, <1>3, MessagesAreNotNone DEF StreamServes, ThreadInv
  <2> QED
    BY <1>0, <1>3, <2>1 DEF StreamServes, ThreadInv, wireVars, aggVars, history
<1>4. CASE StreamLocks
  BY <1>0, <1>4 DEF StreamLocks, wireVars, aggVars, history
<1>5. CASE ReachesMaxStreams \/ WatchdogExits
  BY <1>0, <1>5 DEF ReachesMaxStreams, WatchdogExits, Exits, history
<1>6. CASE Connects
  BY <1>0, <1>6 DEF Connects, ThreadInv, aggVars, history
<1>7. CASE Reads
  BY <1>0, <1>7 DEF Reads, ThreadInv, aggVars, history
<1>8. CASE StreamRejects
  <2>1. MessageOK(work) /\ work # NoMessage
    BY <1>0, <1>8, MessagesAreNotNone DEF StreamRejects, ThreadInv
  <2> QED
    BY <1>0, <1>8, <2>1 DEF StreamRejects, ThreadInv, wireVars, aggVars, history
<1>9. CASE Writes
  BY <1>0, <1>9, MessagesAreNotNone DEF Writes, ThreadInv, ReplyOK, aggVars, history
<1>10. CASE FindsItBroken \/ WakesUp
  BY <1>0, <1>10 DEF FindsItBroken, WakesUp, ThreadInv, wireVars, aggVars, history
<1>11. CASE LinkFails
  <2>1. faults' \in Nat
    BY <1>0, <1>11 DEF LinkFails
  <2>2. link' \in {"broken", "silent"}
    BY <1>11 DEF LinkFails
  <2> QED
    BY <1>0, <1>11, <2>1, <2>2 DEF LinkFails, threadVars
<1>12. CASE Hears
  <2>1. ReplyOK(toAggregator) /\ link = "up"
    BY <1>0, <1>12 DEF Hears
  <2>2. idle' \in BOOLEAN /\ toAggregator' = NoMessage /\ UNCHANGED <<threadVars, link, toProver, faults>>
    BY <1>12 DEF Hears, history
  <2>3. asked' \in [Jobs -> Requests \cup {NoRequest}]
    BY <1>0, <1>12, <2>1 DEF Hears, ReplyOK, MessageOK
  <2>4. got' \in [Jobs -> Requests \cup {NoRequest}]
    <3>1. toAggregator.said = "RESULT_COMPLETED_OK" => toAggregator.call = "GetProof"
      BY <2>1 DEF ReplyOK
    <3> QED
      BY <1>0, <1>12, <2>1, <3>1 DEF Hears, ReplyOK, MessageOK
  <2> QED
    BY <1>0, <2>1, <2>2, <2>3, <2>4 DEF threadVars
<1>13. ASSUME NEW call \in StreamCalls, NEW j \in Jobs \cup {NoJob},
              NEW r \in Requests \cup {NoRequest}, SentAs(call, j, r)
       PROVE  WireInv'
  <2>1. faults' \in Nat
    BY <1>0, <1>13 DEF SentAs
  <2>2. /\ toProver' = Message(call, j, r) /\ MessageOK(Message(call, j, r))
        /\ link = "up" /\ work = NoMessage /\ toAggregator = NoMessage
        /\ UNCHANGED <<threadVars, link, toAggregator, aggVars>>
    BY <1>13 DEF SentAs, Sends
  <2> QED
    BY <1>0, <2>1, <2>2 DEF threadVars, aggVars
<1> QED
  BY <1>2, <1>3, <1>4, <1>5, <1>6, <1>7, <1>8, <1>9, <1>10, <1>11, <1>12, <1>13, SendsCases
     DEF StreamNext, StreamThread


LEMMA ShapeNext == ShapeInv /\ [StreamNext]_allVars => ShapeInv'
<1>1. ASSUME ShapeInv, UNCHANGED allVars PROVE ShapeInv'
  <2>1. QueueInv'
    BY <1>1, StutterKeepsQueue DEF ShapeInv, allVars, queueVars
  <2>2. ThreadInv'
    BY <1>1 DEF ShapeInv, ThreadInv, InStream, allVars, threadVars, queueVars, vars, clientAll
  <2>3. WireInv'
    BY <1>1 DEF ShapeInv, WireInv, InStream, allVars, threadVars, wireVars, aggVars, history
  <2> QED
    BY <2>1, <2>2, <2>3 DEF ShapeInv
<1> QED
  BY <1>1, StreamKeepsQueue, StreamKeepsThread, StreamKeepsWire DEF ShapeInv

-----------------------------------------------------------------------------
(* One request at a time: what the aggregator heard was true when it was   *)
(* said, and stays true until the request it asks for next comes in.       *)

\* At most one request is not processed yet, and where it is.
OrderInv ==
  /\ prover \in {"top", "look", "sem", "woken", "take", "notify"} => current = NoRequest
  /\ prover = "erase" => popped = <<current>>
  /\ prover \in {"process", "finish", "clear"} => pending = <<>>
  /\ pending # <<>> => pending = <<Head(pending)>>
  /\ submitted = IF prover \in {"erase", "process"} THEN Append(processed, current)
                 ELSE IF pending # <<>> THEN Append(processed, Head(pending)) ELSE processed
  /\ known = ToSet(submitted)
  /\ client # NoCall => clientSaw.known = known
  /\ client.call = "GenProof" => clientSaw.pending = <<>>
  /\ \A r \in ToSet(processed) : r \in completed \/ (prover = "finish" /\ r = current)

QuietInv ==
  /\ toldIdle => Idle
  /\ toProver.call = "GenProof" => toldIdle
  /\ at \in {"serve", "call"} /\ work.call = "GenProof" => toldIdle
  /\ at = "write" /\ work.said = "IDLE" => toldIdle
  /\ toAggregator # NoMessage /\ toAggregator.said = "IDLE" => toldIdle
  /\ idle => \/ toldIdle
             \/ at = "write" /\ work.call = "GenProof"
             \/ toAggregator.call = "GenProof"

LEMMA OneElement == \A x : Tail(<<x>>) = <<>> /\ Append(<<>>, x) = <<x>> /\ Head(<<x>>) = x /\ <<x>> # <<>>
  OBVIOUS

LEMMA SetOfAppend ==
  ASSUME NEW S, NEW s \in Seq(S), NEW x \in S
  PROVE  ToSet(Append(s, x)) = ToSet(s) \cup {x}
<1>1. DOMAIN Append(s, x) = 1 .. Len(s) + 1 /\ DOMAIN s = 1 .. Len(s) /\ Len(s) \in Nat
  OBVIOUS
<1>2. \A i \in 1 .. Len(s) : Append(s, x)[i] = s[i]
  OBVIOUS
<1>3. Append(s, x)[Len(s) + 1] = x
  OBVIOUS
<1>5. ToSet(Append(s, x)) \subseteq ToSet(s) \cup {x}
  <2> SUFFICES ASSUME NEW i \in DOMAIN Append(s, x) PROVE Append(s, x)[i] \in ToSet(s) \cup {x}
    BY DEF ToSet
  <2>1. CASE i = Len(s) + 1
    BY <1>3, <2>1
  <2>2. CASE i # Len(s) + 1
    <3>1. i \in 1 .. Len(s)
      BY <1>1, <2>2
    <3> QED
      BY <1>1, <1>2, <3>1 DEF ToSet
  <2> QED
    BY <2>1, <2>2
<1>6. ToSet(s) \subseteq ToSet(Append(s, x))
  BY <1>1, <1>2 DEF ToSet
<1>7. x \in ToSet(Append(s, x))
  BY <1>1, <1>3 DEF ToSet
<1> QED
  BY <1>5, <1>6, <1>7

LEMMA OrderInit == StreamInit => OrderInv /\ QuietInv
  BY DEF StreamInit, Init, OrderInv, QuietInv, NoCall, NoMessage, ToSet

\* An idle prover stays idle until a request comes in.
LEMMA IdleStays == QueueInv /\ Idle /\ ProverThread => Idle'
  BY QueueAssumption DEF QueueInv, HandsInv, Idle, ProverThread, ProverLocks, ProverLooks, ProverWakes,
     ProverRechecks, ProverTakes, ProverErases, ProverProcesses, ProverFinishes, ProverClears,
     ProverNotifies, ProverStep, queues

LEMMA ProverKeepsOrder == QueueInv /\ OrderInv /\ ProverThread => OrderInv'
<1> SUFFICES ASSUME QueueInv, OrderInv, ProverThread PROVE OrderInv'
  OBVIOUS
<1> USE QueueAssumption DEF OrderInv, ProverStep, queues, results, clientAll
<1>0. TypeOK /\ HandsInv
  BY DEF QueueInv
<1>1. CASE ProverLocks BY <1>1 DEF ProverLocks
<1>2. CASE ProverLooks BY <1>2 DEF ProverLooks
<1>3. CASE ProverWakes BY <1>3 DEF ProverWakes
<1>4. CASE ProverRechecks BY <1>4 DEF ProverRechecks
<1>5. CASE ProverTakes BY <1>0, <1>5 DEF ProverTakes, HandsInv
<1>6. CASE ProverErases
  <2>1. pending' = <<>>
    BY <1>6, OneElement DEF ProverErases
  <2> QED
    BY <1>6, <2>1 DEF ProverErases
<1>7. CASE ProverProcesses
  <2>1. current \in Requests /\ processed \in Seq(Requests) /\ processed' = Append(processed, current)
    BY <1>0, <1>7 DEF ProverProcesses, HandsInv, TypeOK
  <2>2. ToSet(processed') = ToSet(processed) \cup {current}
    BY <2>1, SetOfAppend
  <2>3. /\ prover = "process" /\ prover' = "finish" /\ current' = current
        /\ UNCHANGED <<queues, popped, clientAll>>
    BY <1>7 DEF ProverProcesses
  <2>4. submitted' = processed'
    BY <2>1, <2>3
  <2>5. \A r \in ToSet(processed)' : r \in completed' \/ r = current'
    BY <2>2, <2>3
  <2>6. /\ pending' = <<>> /\ known' = ToSet(submitted)'
        /\ client' # NoCall => clientSaw'.known = known'
        /\ client'.call = "GenProof" => clientSaw'.pending = <<>>
    BY <2>3
  <2> QED
    BY <2>3, <2>4, <2>5, <2>6
<1>8. CASE ProverFinishes BY <1>8 DEF ProverFinishes
<1>9. CASE ProverClears BY <1>9 DEF ProverClears
<1>10. CASE ProverNotifies BY <1>10 DEF ProverNotifies
<1> QED
  BY <1>1, <1>2, <1>3, <1>4, <1>5, <1>6, <1>7, <1>8, <1>9, <1>10 DEF ProverThread

LEMMA ServingKeepsOrder ==
  ASSUME QueueInv, OrderInv, ClientServes, client.call = "GenProof" => Idle
  PROVE  OrderInv'
<1>0. client' = NoCall /\ client'.call = "none" /\ client # NoCall /\ UNCHANGED proverAll
  BY DEF ClientServes, ClientSubmits, ClientGetsStatus, ClientGetsProof, ClientCancels, Serves,
     NoCall
<1>1. CASE ClientSubmits
  <2>1. /\ client.call = "GenProof" /\ client.uuid \in Requests
        /\ submitted \in Seq(Requests)
    BY <1>1 DEF ClientSubmits, Serves, QueueInv, HandsInv, TypeOK
  <2>2. pending = <<>> /\ current = NoRequest
    BY <2>1 DEF Idle
  <2>3. prover \notin {"take", "erase", "process", "finish", "clear"}
    BY <2>2, QueueAssumption DEF QueueInv, HandsInv
  <2>4. submitted = processed
    BY <2>2, <2>3 DEF OrderInv
  <2>5. /\ pending' = <<client.uuid>>
        /\ submitted' = Append(processed, client.uuid)
    <3>1. clientSaw.pending = <<>>
      BY <2>1 DEF OrderInv
    <3>2. /\ pending' = Append(clientSaw.pending, client.uuid)
          /\ submitted' = Append(submitted, client.uuid)
      BY <1>1 DEF ClientSubmits
    <3> QED
      BY <2>4, <3>1, <3>2, OneElement
  <2>6. known' = ToSet(submitted)'
    BY <1>1, <1>0, <2>1, <2>5, <2>4, SetOfAppend DEF ClientSubmits, OrderInv
  <2>7. Head(pending') = client.uuid /\ pending' # <<>>
    BY <2>5, OneElement
  <2>8. UNCHANGED <<completed, processed, prover, current, popped>>
    BY <1>0, <1>1 DEF ClientSubmits, proverAll, results
  <2>9. prover \in {"top", "look", "sem", "woken", "notify"}
    BY <2>3 DEF QueueInv, TypeOK
  <2>10. /\ current' = NoRequest
         /\ \A r \in ToSet(processed)' : r \in completed'
    BY <2>8, <2>9 DEF OrderInv
  <2> QED
    BY <1>0, <2>5, <2>6, <2>7, <2>8, <2>9, <2>10 DEF OrderInv
<1>2. CASE ClientGetsStatus \/ ClientGetsProof \/ ClientCancels
  BY <1>0, <1>2 DEF ClientGetsStatus, ClientGetsProof, ClientCancels, OrderInv, queues, proverAll, results
<1> QED
  BY <1>1, <1>2 DEF ClientServes

LEMMA LockingKeepsOrder ==
  ASSUME QueueInv, OrderInv, NEW call \in Calls, NEW r \in Requests \cup {NoRequest},
         ClientLocks(call, r), call = "GenProof" => Idle
  PROVE  OrderInv'
<1>1. /\ client' = [call |-> call, uuid |-> r] /\ clientSaw' = Queues
      /\ UNCHANGED <<queues, proverAll, submitted>>
  BY DEF ClientLocks
<1>2. clientSaw'.known = known' /\ clientSaw'.pending = pending'
  BY <1>1 DEF Queues, queues
<1>3. client'.call = "GenProof" => pending' = <<>>
  BY <1>1 DEF Idle, queues
<1> QED
  BY <1>1, <1>2, <1>3 DEF OrderInv, queues, proverAll, results

LEMMA StreamKeepsOrder == ShapeInv /\ OrderInv /\ QuietInv /\ StreamNext => OrderInv'
<1> SUFFICES ASSUME ShapeInv, OrderInv, QuietInv, StreamNext PROVE OrderInv'
  OBVIOUS
<1>1. CASE UNCHANGED queueVars
  BY <1>1 DEF OrderInv, queueVars, vars, queues, proverAll, results, clientAll
<1>2. CASE ProverRuns
  BY <1>2, ProverKeepsOrder DEF ProverRuns, ShapeInv
<1>3. CASE StreamServes
  <2>1. at = "call" /\ ClientServes /\ client.call = work.call
    BY <1>3 DEF StreamServes, ShapeInv, ThreadInv
  <2>2. client.call = "GenProof" => Idle
    BY <2>1 DEF QuietInv
  <2> QED
    BY <2>1, <2>2, ServingKeepsOrder DEF ShapeInv
<1>4. CASE StreamLocks
  <2>1. PICK r \in Requests \cup {NoRequest} : ClientLocks(work.call, r) /\ work.call \in Calls
    BY <1>4, LockedRequest
  <2>2. work.call = "GenProof" => Idle
    BY <1>4 DEF StreamLocks, QuietInv
  <2> QED
    BY <2>1, <2>2, LockingKeepsOrder DEF ShapeInv
<1>5. CASE ReachesMaxStreams \/ WatchdogExits
  <2>1. NewProver
    BY <1>5 DEF ReachesMaxStreams, WatchdogExits, Exits
  <2> QED
    BY <2>1 DEF NewProver, OrderInv, NoCall, ToSet
<1>6. CASE Connects \/ Reads \/ StreamRejects \/ Writes \/ FindsItBroken \/ WakesUp \/ LinkFails
  BY <1>1, <1>6 DEF Connects, Reads, StreamRejects, Writes, FindsItBroken, WakesUp, LinkFails
<1>7. CASE Aggregator \/ \E j \in Jobs : Errs(j)
  BY <1>1, <1>7, SendsCases DEF Hears, SentAs, Sends
<1> QED
  BY <1>2, <1>3, <1>4, <1>5, <1>6, <1>7 DEF StreamNext, StreamThread


LEMMA StreamKeepsQuiet == ShapeInv /\ OrderInv /\ QuietInv /\ StreamNext => QuietInv'
<1> SUFFICES ASSUME ShapeInv, OrderInv, QuietInv, StreamNext PROVE QuietInv'
  OBVIOUS
<1> USE DEF QuietInv
<1>0. ThreadInv /\ WireInv /\ QueueInv
  BY DEF ShapeInv
<1> NoMessage.call = "none"
  BY DEF NoMessage
<1> DEFINE SameQueues == UNCHANGED <<pending, current, toldIdle>>
<1> SameQueues => (Idle' <=> Idle)
  BY DEF Idle
<1> UNCHANGED queueVars => SameQueues
  BY DEF queueVars, vars, queues, proverAll, clientAll
<1>1. CASE ProverRuns
  <2>1. Idle => Idle'
    BY <1>0, <1>1, IdleStays DEF ProverRuns
  <2> QED
    BY <1>1, <2>1, ProverLeavesTheRest DEF threadVars, wireVars, aggVars, clientAll
<1>2. CASE StreamServes
  <2>1. /\ at = "call" /\ at' = "write" /\ ClientServes
        /\ work' = Reply(work, client.uuid, Said)
        /\ UNCHANGED <<wireVars, aggVars>>
    BY <1>2 DEF StreamServes
  <2>2. /\ MessageOK(work) /\ client.call = work.call
        /\ toProver = NoMessage /\ toAggregator = NoMessage
    BY <1>0, <2>1, MessagesAreNotNone DEF ThreadInv, WireInv
  <2>3. work'.call = client.call /\ (work'.said = "IDLE" => toldIdle')
    BY <1>0, <2>1, <2>2, WhatIsSaid DEF Reply
  <2>4. idle => toldIdle
    BY <2>1, <2>2
  <2>5. CASE client.call = "GenProof"
    <3>1. toldIdle' = FALSE
      BY <2>1, <2>5 DEF ClientServes, ClientSubmits, ClientGetsStatus, ClientGetsProof,
         ClientCancels, Serves
    <3> QED
      BY <2>1, <2>2, <2>3, <2>5, <3>1 DEF wireVars, aggVars
  <2>6. CASE client.call # "GenProof"
    <3>1. UNCHANGED <<pending, current>> /\ (toldIdle' = toldIdle \/ toldIdle' = Idle)
      BY <2>1, <2>6 DEF ClientServes, ClientSubmits, ClientGetsStatus, ClientGetsProof,
         ClientCancels, Serves, queues, proverAll
    <3>2. Idle' <=> Idle
      BY <3>1 DEF Idle
    <3>3. toldIdle \in BOOLEAN /\ Idle \in BOOLEAN
      BY <1>0 DEF QueueInv, TypeOK, Idle
    <3>4. (toldIdle => toldIdle') /\ (toldIdle' => Idle')
      <4>1. CASE toldIdle' = toldIdle BY <3>2, <4>1
      <4>2. CASE toldIdle' = Idle BY <3>2, <3>3, <4>2
      <4> QED BY <3>1, <4>1, <4>2
    <3> QED
      BY <2>1, <2>2, <2>3, <2>4, <3>4 DEF wireVars, aggVars
  <2> QED
    BY <2>5, <2>6
<1>3. CASE StreamLocks
  <2>1. UNCHANGED <<pending, current, toldIdle>>
    BY <1>0, <1>3, LockedRequest DEF ShapeInv, ClientLocks, queues, proverAll
  <2> QED
    BY <1>3, <2>1 DEF StreamLocks, wireVars, aggVars
<1>4. CASE ReachesMaxStreams \/ WatchdogExits
  BY <1>4 DEF ReachesMaxStreams, WatchdogExits, Exits, NewProver
<1>5. CASE Connects
  BY <1>0, <1>5 DEF Connects, ThreadInv, WireInv, InStream, aggVars
<1>6. CASE Reads
  BY <1>0, <1>6 DEF Reads, ThreadInv, WireInv, aggVars
<1>7. CASE StreamRejects
  <2>1. MessageOK(work) /\ toProver = NoMessage /\ toAggregator = NoMessage
    BY <1>0, <1>7, MessagesAreNotNone DEF StreamRejects, ThreadInv, WireInv
  <2>2. work'.said = "RESULT_ERROR"
    BY <1>7 DEF StreamRejects, Reply
  <2> QED
    BY <1>0, <1>7, <2>1, <2>2 DEF StreamRejects, wireVars, aggVars
<1>8. CASE Writes
  <2>1. toProver = NoMessage /\ toAggregator = NoMessage
    BY <1>0, <1>8, MessagesAreNotNone DEF Writes, ThreadInv, WireInv, ReplyOK
  <2> QED
    BY <1>0, <1>8, <2>1 DEF Writes, WireInv, aggVars
<1>9. CASE FindsItBroken \/ WakesUp
  BY <1>0, <1>9 DEF FindsItBroken, WakesUp, ThreadInv, WireInv, InStream, wireVars, aggVars
<1>10. CASE LinkFails
  BY <1>0, <1>10 DEF LinkFails, threadVars
<1>11. CASE Hears
  <2>1. work = NoMessage /\ toProver = NoMessage
    BY <1>0, <1>11 DEF Hears, WireInv
  <2>2. toAggregator.call = "GenProof" => toAggregator.said # "IDLE"
    BY <1>0, <1>11 DEF Hears, WireInv, ReplyOK
  <2>3. idle' => toldIdle
    BY <1>11, <2>1, <2>2 DEF Hears
  <2> QED
    BY <1>11, <2>1, <2>3 DEF Hears, threadVars
<1>12. ASSUME NEW call \in StreamCalls, NEW j \in Jobs \cup {NoJob},
              NEW r \in Requests \cup {NoRequest}, SentAs(call, j, r)
       PROVE  QuietInv'
  <2>1. /\ work = NoMessage /\ toAggregator = NoMessage
        /\ toProver'.call = "GenProof" => idle
        /\ UNCHANGED <<queueVars, threadVars, toAggregator, aggVars>>
    BY <1>12 DEF SentAs, Sends, Message
  <2> QED
    BY <2>1 DEF threadVars, aggVars
<1> QED
  BY <1>1, <1>2, <1>3, <1>4, <1>5, <1>6, <1>7, <1>8, <1>9, <1>10, <1>11, <1>12, SendsCases
     DEF StreamNext, StreamThread


LEMMA OrderNext ==
  ShapeInv /\ OrderInv /\ QuietInv /\ [StreamNext]_allVars => OrderInv' /\ QuietInv'
<1>1. ASSUME OrderInv, QuietInv, UNCHANGED allVars PROVE OrderInv' /\ QuietInv'
  BY <1>1 DEF OrderInv, QuietInv, Idle, allVars, queueVars, vars, queues, proverAll, results, clientAll,
     threadVars, wireVars, aggVars
<1> QED
  BY <1>1, StreamKeepsOrder, StreamKeepsQuiet

-----------------------------------------------------------------------------
(* What the messages say of the requests.                                  *)

MessageTrue(m) ==
  /\ m.call \in {"GetProof", "Cancel"} => jobOf[m.uuid] = m.job /\ m.uuid = asked[m.job]
  /\ m.call = "GenProof" => asked[m.job] = NoRequest

ReplyTrue(m) ==
  /\ MessageTrue(m)
  /\ m.call = "GenProof" => jobOf[m.uuid] = m.job /\ m.uuid \in known
  /\ m.said = "RESULT_COMPLETED_OK" => m.uuid \in everProcessed \ everFailed
  /\ m.said = "RESULT_COMPLETED_ERROR" => m.uuid \in everFailed
  /\ m.call = "GetProof" /\ m.said = "RESULT_ERROR" => m.uuid \notin known

MessagesInv ==
  /\ MessageTrue(toProver)
  /\ at \in {"serve", "call"} => MessageTrue(work)
  /\ at = "write" => ReplyTrue(work)
  /\ toAggregator # NoMessage => ReplyTrue(toAggregator)

\* A request belongs to the job of the first message that asked for it.
JobsInv ==
  /\ jobOf \in [Requests -> Jobs \cup {NoJob}]
  /\ \A j \in Jobs : asked[j] # NoRequest => jobOf[asked[j]] = j
  /\ client.call = "GenProof" => jobOf[client.uuid] = NoJob
  /\ \A r \in known : jobOf[r] # NoJob
  /\ \A r \in Requests : answer[r] # "none" => jobOf[r] # NoJob

\* A request is computed once, by one process, and fails or not.
ComputedInv ==
  /\ ToSet(processed) \subseteq everProcessed
  /\ failed \subseteq everFailed /\ everFailed \subseteq everProcessed
  /\ ToSet(processed) \cap everFailed \subseteq failed
  /\ \A r \in everProcessed : r \in Requests /\ jobOf[r] # NoJob
  /\ prover \in {"erase", "process"} => current \notin everProcessed
  /\ pending # <<>> => Head(pending) \notin everProcessed

ResultsInv ==
  /\ \A r \in Requests : bCompleted[r] => r \in ToSet(processed)
  /\ \A r \in Requests : answer[r] = "RESULT_ERROR" => r \notin known
  /\ \A r \in Requests :
       answer[r] = "RESULT_COMPLETED_OK" => r \in ToSet(processed) \ failed
  /\ \A r \in Requests :
       answer[r] = "RESULT_COMPLETED_ERROR" => r \in ToSet(processed) \cap failed
  /\ ProofsAreOfTheirJobs

TruthInv == MessagesInv /\ JobsInv /\ ComputedInv /\ ResultsInv

LEMMA NoMessageIsTrue == ASSUME NEW m, m = NoMessage PROVE MessageTrue(m)
  BY DEF MessageTrue, NoMessage

LEMMA TruthInit == StreamInit => TruthInv
<1> SUFFICES ASSUME StreamInit PROVE TruthInv
  OBVIOUS
<1>1. MessagesInv
  BY DEF StreamInit, MessagesInv, MessageTrue, NoMessage
<1>2. JobsInv
  BY DEF StreamInit, Init, JobsInv, NoCall
<1>3. ResultsInv
  BY DEF StreamInit, Init, ResultsInv, ProofsAreOfTheirJobs, ToSet
<1>4. ComputedInv
  BY DEF StreamInit, Init, ComputedInv, ToSet
<1> QED
  BY <1>1, <1>2, <1>3, <1>4 DEF TruthInv

\* Messages that only move stay true.
LEMMA MovesKeepTruth ==
  ASSUME TruthInv, UNCHANGED queueVars, UNCHANGED <<aggVars, history>>, MessagesInv'
  PROVE  TruthInv'
<1>1. UNCHANGED <<pending, known, prover, current, processed, failed, bCompleted, client, answer>>
  BY DEF queueVars, vars, queues, proverAll, results, clientAll, flags
<1>2. UNCHANGED <<asked, got, jobOf, everProcessed, everFailed>>
  BY DEF aggVars, history, computed
<1> QED
  BY <1>1, <1>2 DEF TruthInv, JobsInv, ComputedInv, ResultsInv, ProofsAreOfTheirJobs

\* A step of proverThread computes nothing, or the request in hand, which no
\* process has computed before.
ComputesCurrent ==
  /\ ProverProcesses
  /\ current \in Requests /\ current \notin everProcessed /\ current \notin everFailed
  /\ jobOf[current] # NoJob /\ jobOf' = jobOf
  /\ ToSet(processed') = ToSet(processed) \cup {current}
  /\ everProcessed' = everProcessed \cup {current}
  /\ \/ failed' = failed /\ everFailed' = everFailed
     \/ failed' = failed \cup {current} /\ everFailed' = everFailed \cup {current}

LEMMA WhatIsComputed ==
  ASSUME ShapeInv, OrderInv, TruthInv, ProverRuns
  PROVE  ComputesCurrent \/ UNCHANGED <<processed, failed, everProcessed, everFailed>>
<1>1. /\ everProcessed' = everProcessed \cup ToSet(processed')
      /\ everFailed' = everFailed \cup failed'
      /\ jobOf' = jobOf
  BY DEF ProverRuns
<1>2. /\ ToSet(processed) \subseteq everProcessed /\ failed \subseteq everFailed
      /\ everFailed \subseteq everProcessed
  BY DEF TruthInv, ComputedInv
<1>3. ProverProcesses \/ UNCHANGED results
  BY DEF ProverRuns, ProverThread, ProverLocks, ProverLooks, ProverWakes, ProverRechecks,
     ProverTakes, ProverErases, ProverFinishes, ProverClears, ProverNotifies
<1>4. CASE UNCHANGED results
  BY <1>1, <1>2, <1>4 DEF results
<1>5. CASE ProverProcesses
  <2>1. /\ prover = "process" /\ processed' = Append(processed, current)
        /\ failed' = failed \/ failed' = failed \cup {current}
    BY <1>5 DEF ProverProcesses, ProverStep
  <2>2. /\ current \in Requests /\ processed \in Seq(Requests)
    BY <2>1 DEF ShapeInv, QueueInv, HandsInv, TypeOK
  <2>3. ToSet(processed') = ToSet(processed) \cup {current}
    BY <2>1, <2>2, SetOfAppend
  <2>4. current \notin everProcessed
    BY <2>1 DEF TruthInv, ComputedInv
  <2>5. current \in known
    <3>1. submitted = Append(processed, current) /\ known = ToSet(submitted)
      BY <2>1 DEF OrderInv
    <3> QED
      BY <2>1, <2>3, <3>1
  <2>6. jobOf[current] # NoJob
    BY <2>5 DEF TruthInv, JobsInv
  <2>7. everProcessed' = everProcessed \cup {current}
    BY <1>1, <1>2, <2>3
  <2>8. \/ failed' = failed /\ everFailed' = everFailed
        \/ failed' = failed \cup {current} /\ everFailed' = everFailed \cup {current}
    BY <1>1, <1>2, <2>1
  <2>9. current \notin everFailed
    BY <1>2, <2>4
  <2> QED
    BY <1>1, <1>5, <2>2, <2>3, <2>4, <2>6, <2>7, <2>8, <2>9 DEF ComputesCurrent
<1> QED
  BY <1>3, <1>4, <1>5

\* What was said of a request stays true: it is computed only once.
LEMMA TruthOfComputed ==
  ASSUME TruthInv, ComputesCurrent \/ UNCHANGED <<processed, failed, everProcessed, everFailed>>
  PROVE  /\ ToSet(processed) \subseteq ToSet(processed')
         /\ everProcessed \subseteq everProcessed' /\ everFailed \subseteq everFailed'
         /\ failed \subseteq failed'
         /\ everProcessed \ everFailed \subseteq everProcessed' \ everFailed'
         /\ ToSet(processed) \ failed \subseteq ToSet(processed') \ failed'
  BY DEF ComputesCurrent, TruthInv, ComputedInv

LEMMA ProverKeepsComputed ==
  ASSUME ShapeInv, OrderInv, TruthInv, ProverRuns
  PROVE  ComputedInv'
<1>1. ComputesCurrent \/ UNCHANGED <<processed, failed, everProcessed, everFailed>>
  BY WhatIsComputed
<1>2. jobOf' = jobOf
  BY DEF ProverRuns
<1>3. /\ ToSet(processed') \subseteq everProcessed'
      /\ failed' \subseteq everFailed' /\ everFailed' \subseteq everProcessed'
      /\ ToSet(processed') \cap everFailed' \subseteq failed'
      /\ \A r \in everProcessed' : r \in Requests /\ jobOf'[r] # NoJob
  BY <1>1, <1>2 DEF ComputesCurrent, TruthInv, ComputedInv
<1>4. CASE ProverTakes
  <2>1. /\ prover = "take" /\ prover' = "erase" /\ current' = Head(pending) /\ pending' = pending
        /\ everProcessed' = everProcessed
    <3>1. ~ProverProcesses
      BY <1>4 DEF ProverTakes, ProverProcesses, ProverStep
    <3> QED
      BY <1>1, <1>4, <3>1 DEF ProverTakes, ProverStep, queues, ComputesCurrent
  <2>2. pending # <<>>
    BY <2>1 DEF ShapeInv, QueueInv, HandsInv
  <2>3. Head(pending) \notin everProcessed
    BY <2>2 DEF TruthInv, ComputedInv
  <2> QED
    BY <1>3, <2>1, <2>3 DEF ComputedInv
<1>5. CASE ProverErases
  <2>1. /\ prover = "erase" /\ prover' = "process" /\ current' = current /\ pending' = Tail(popped)
    BY <1>5 DEF ProverErases, ProverStep
  <2>2. everProcessed' = everProcessed
    BY <1>1, <2>1 DEF ComputesCurrent, ProverProcesses, ProverStep
  <2>3. pending' = <<>>
    BY <2>1, OneElement DEF OrderInv
  <2> QED
    BY <1>3, <2>1, <2>2, <2>3 DEF TruthInv, ComputedInv
<1>6. CASE ProverProcesses
  <2>1. /\ prover = "process" /\ prover' = "finish" /\ pending' = pending
    BY <1>6 DEF ProverProcesses, ProverStep, queues
  <2>2. pending = <<>>
    BY <2>1 DEF OrderInv
  <2> QED
    BY <1>3, <2>1, <2>2 DEF ComputedInv
<1>7. CASE ProverLocks \/ ProverLooks \/ ProverWakes \/ ProverRechecks \/ ProverFinishes
           \/ ProverClears \/ ProverNotifies
  <2>1. prover' \notin {"erase", "process"} /\ pending' = pending /\ ~ProverProcesses
    BY <1>7 DEF ProverLocks, ProverLooks, ProverWakes, ProverRechecks, ProverFinishes, ProverClears,
       ProverNotifies, ProverProcesses, ProverStep, queues
  <2>2. everProcessed' = everProcessed
    BY <1>1, <2>1 DEF ComputesCurrent
  <2> QED
    BY <1>3, <2>1, <2>2 DEF TruthInv, ComputedInv
<1> QED
  BY <1>4, <1>5, <1>6, <1>7 DEF ProverRuns, ProverThread

LEMMA ProverKeepsTruth ==
  ASSUME ShapeInv, OrderInv, TruthInv, ProverRuns
  PROVE  TruthInv'
<1>1. UNCHANGED <<at, work, toProver, toAggregator, asked, got, jobOf, known, client, answer>>
  BY ProverLeavesTheRest DEF threadVars, wireVars, aggVars, clientAll
<1>2. /\ ToSet(processed) \subseteq ToSet(processed')
      /\ everProcessed \subseteq everProcessed' /\ everFailed \subseteq everFailed'
      /\ failed \subseteq failed'
      /\ everProcessed \ everFailed \subseteq everProcessed' \ everFailed'
      /\ ToSet(processed) \ failed \subseteq ToSet(processed') \ failed'
  BY WhatIsComputed, TruthOfComputed
<1>3. MessagesInv'
  <2>2. /\ at \in {"serve", "call"} => MessageTrue(work)
        /\ at = "write" => ReplyTrue(work)
        /\ toAggregator # NoMessage => ReplyTrue(toAggregator)
        /\ MessageTrue(toProver)
    BY DEF TruthInv, MessagesInv
  <2>3. ReplyTrue(work) => ReplyTrue(work)'
    BY <1>1, <1>2 DEF ReplyTrue, MessageTrue
  <2>4. ReplyTrue(toAggregator) => ReplyTrue(toAggregator)'
    BY <1>1, <1>2 DEF ReplyTrue, MessageTrue
  <2>5. (MessageTrue(work) => MessageTrue(work)') /\ (MessageTrue(toProver) => MessageTrue(toProver)')
    BY <1>1 DEF MessageTrue
  <2> QED
    BY <1>1, <2>2, <2>3, <2>4, <2>5 DEF MessagesInv
<1>4. JobsInv'
  BY <1>1 DEF TruthInv, JobsInv
<1>5. \A r \in Requests : bCompleted'[r] => r \in ToSet(processed')
  <2>1. CASE ProverNotifies
    <3>1. processed \in Seq(Requests) /\ processed # <<>> /\ bCompleted \in [Requests -> BOOLEAN]
      BY <2>1 DEF ProverNotifies, ProverStep, ShapeInv, QueueInv, HandsInv, TypeOK
    <3>2. Last(processed) \in ToSet(processed)
      BY <3>1 DEF Last, ToSet
    <3>3. \A r \in Requests : bCompleted'[r] => bCompleted[r] \/ r = Last(processed)
      BY <2>1, <3>1 DEF ProverNotifies
    <3> QED
      BY <1>2, <3>2, <3>3 DEF TruthInv, ResultsInv
  <2>2. CASE bCompleted' = bCompleted
    BY <1>2, <2>2 DEF TruthInv, ResultsInv
  <2>3. ProverNotifies \/ bCompleted' = bCompleted
    BY DEF ProverRuns, ProverThread, ProverLocks, ProverLooks, ProverWakes, ProverRechecks,
       ProverTakes, ProverErases, ProverProcesses, ProverFinishes, ProverClears, flags
  <2> QED
    BY <2>1, <2>2, <2>3
<1>6. ResultsInv'
  <2>1. /\ \A r \in Requests : answer'[r] = "RESULT_ERROR" => r \notin known'
        /\ \A r \in Requests :
             answer'[r] = "RESULT_COMPLETED_OK" => r \in ToSet(processed') \ failed'
        /\ \A r \in Requests :
             answer'[r] = "RESULT_COMPLETED_ERROR" => r \in ToSet(processed') \cap failed'
    BY <1>1, <1>2 DEF TruthInv, ResultsInv
  <2>2. ProofsAreOfTheirJobs'
    BY <1>1, <1>2 DEF TruthInv, ResultsInv, ProofsAreOfTheirJobs
  <2> QED
    BY <1>5, <2>1, <2>2 DEF ResultsInv
<1>7. ComputedInv'
  BY ProverKeepsComputed
<1> QED
  BY <1>3, <1>4, <1>6, <1>7 DEF TruthInv

LEMMA ServingKeepsTruth ==
  ASSUME ShapeInv, OrderInv, TruthInv, StreamServes
  PROVE  TruthInv'
<1>1. /\ at = "call" /\ at' = "write" /\ ClientServes
      /\ jobOf' = IF client.call = "GenProof"
                  THEN [jobOf EXCEPT ![client.uuid] = work.job] ELSE jobOf
      /\ work' = Reply(work, client.uuid, Said)
      /\ UNCHANGED <<wireVars, aggVars, computed, faults>>
  BY DEF StreamServes
<1>2. /\ MessageOK(work) /\ client.call = work.call /\ client # NoCall
      /\ client.call \in {"GetProof", "Cancel"} => client.uuid = work.uuid
      /\ toProver = NoMessage /\ toAggregator = NoMessage
      /\ asked \in [Jobs -> Requests \cup {NoRequest}] /\ got \in [Jobs -> Requests \cup {NoRequest}]
  BY <1>1, MessagesAreNotNone DEF ShapeInv, ThreadInv, WireInv
<1>3. /\ client.call \in {"GenProof", "GetProof", "Cancel"} => client.uuid \in Requests
      /\ answer \in [Requests -> Answers]
      /\ bCompleted \in [Requests -> BOOLEAN]
      /\ known \subseteq Requests
  BY DEF ShapeInv, QueueInv, HandsInv, TypeOK
<1>4. clientSaw.known = known
  BY <1>2 DEF OrderInv
<1>5. toProver' = NoMessage /\ toAggregator' = NoMessage
  BY <1>1, <1>2 DEF wireVars
<1>6. /\ work'.call = client.call /\ work'.job = work.job
      /\ work'.uuid = client.uuid /\ work'.said = Said
  BY <1>1, <1>2 DEF Reply
<1>7. client' = NoCall /\ client'.call = "none" /\ UNCHANGED proverAll
  BY <1>1 DEF ClientServes, ClientSubmits, ClientGetsStatus, ClientGetsProof, ClientCancels, Serves,
     NoCall
<1> UNCHANGED <<processed, failed, everProcessed, everFailed, prover, current>>
  BY <1>1, <1>7 DEF proverAll, results, computed
<1>8. UNCHANGED bCompleted
  BY <1>1 DEF ClientServes, ClientSubmits, ClientGetsStatus, ClientGetsProof, ClientCancels, flags
<1>9. CASE client.call = "GenProof"
  <2>1. /\ known' = known \cup {client.uuid} /\ answer' = answer
    BY <1>1, <1>4, <1>9 DEF ClientServes, ClientSubmits, ClientGetsStatus, ClientGetsProof,
       ClientCancels, Serves
  <2>2. jobOf[client.uuid] = NoJob /\ work.job \in Jobs /\ jobOf \in [Requests -> Jobs \cup {NoJob}]
    BY <1>2, <1>9 DEF TruthInv, JobsInv, MessageOK
  <2>3. jobOf' = [jobOf EXCEPT ![client.uuid] = work.job] /\ work.job # NoJob
    BY <1>1, <1>9, <2>2, StreamAssumption
  <2>4. jobOf'[client.uuid] = work.job /\ jobOf' \in [Requests -> Jobs \cup {NoJob}]
    BY <1>3, <1>9, <2>2, <2>3
  <2>5. \A r \in Requests : jobOf[r] # NoJob => jobOf'[r] = jobOf[r]
    BY <1>3, <1>9, <2>2, <2>3
  <2>6. Said \notin {"RESULT_COMPLETED_OK", "RESULT_COMPLETED_ERROR"}
    BY <1>1, <1>9, WhatIsSaid DEF ShapeInv
  <2>7. MessagesInv'
    <3>1. asked[work.job] = NoRequest /\ asked' = asked
      BY <1>1, <1>2, <1>9 DEF TruthInv, MessagesInv, MessageTrue, aggVars
    <3>2. ReplyTrue(work)'
      BY <1>1, <1>6, <1>9, <2>1, <2>4, <2>6, <3>1 DEF MessageTrue, ReplyTrue
    <3> QED
      BY <1>1, <1>5, <3>2, NoMessageIsTrue DEF MessagesInv, MessageTrue, ReplyTrue, NoMessage
  <2>8. JobsInv'
    <3>1. \A j \in Jobs : asked'[j] # NoRequest => jobOf'[asked'[j]] = j
      BY <1>1, <1>2, <2>5, StreamAssumption DEF TruthInv, JobsInv, aggVars
    <3>2. \A r \in known' : jobOf'[r] # NoJob
      BY <1>3, <2>1, <2>3, <2>4, <2>5 DEF TruthInv, JobsInv
    <3>3. \A r \in Requests : answer'[r] # "none" => jobOf'[r] # NoJob
      BY <2>1, <2>5 DEF TruthInv, JobsInv
    <3> QED
      BY <1>7, <2>4, <3>1, <3>2, <3>3 DEF JobsInv
  <2>9. ResultsInv'
    <3>1. \A r \in Requests : answer'[r] = "RESULT_ERROR" => r \notin known'
      BY <2>1, <2>2 DEF TruthInv, JobsInv, ResultsInv
    <3>2. ProofsAreOfTheirJobs'
      BY <1>1, <1>2, <2>5, StreamAssumption DEF TruthInv, ResultsInv, ProofsAreOfTheirJobs, aggVars
    <3> QED
      BY <1>8, <2>1, <3>1, <3>2 DEF TruthInv, ResultsInv
  <2>10. ComputedInv'
    <3>1. \A r \in everProcessed' : r \in Requests /\ jobOf'[r] # NoJob
      BY <2>5 DEF TruthInv, ComputedInv
    <3>2. client.uuid \notin everProcessed
      BY <2>2 DEF TruthInv, ComputedInv
    <3>3. pending' = <<client.uuid>>
      <4>1. pending' = Append(clientSaw.pending, client.uuid) /\ clientSaw.pending = <<>>
        BY <1>1, <1>9 DEF ClientServes, ClientSubmits, ClientGetsStatus, ClientGetsProof,
           ClientCancels, Serves, OrderInv
      <4> QED
        BY <4>1, OneElement
    <3>4. Head(pending') \notin everProcessed'
      BY <3>2, <3>3, OneElement
    <3> QED
      BY <3>1, <3>4 DEF TruthInv, ComputedInv
  <2> QED
    BY <2>7, <2>8, <2>9, <2>10 DEF TruthInv
<1>10. CASE client.call = "GetProof"
  <2>1. /\ answer' = [answer EXCEPT ![client.uuid] = Answer(client.uuid)] /\ known' = known
        /\ jobOf' = jobOf
    BY <1>1, <1>10 DEF ClientServes, ClientSubmits, ClientGetsStatus, ClientGetsProof,
       ClientCancels, Serves, queues
  <2>2. Said = Answer(client.uuid) /\ client.uuid \in Requests
    BY <1>1, <1>3, <1>10, WhatIsSaid DEF ShapeInv
  <2>3. MessageTrue(work) /\ client.uuid = work.uuid /\ work.call = "GetProof" /\ work.job \in Jobs
    BY <1>1, <1>2, <1>10 DEF TruthInv, MessagesInv, MessageOK
  <2>4. jobOf[client.uuid] = work.job /\ client.uuid = asked[work.job] /\ work.job # NoJob
    BY <2>3, StreamAssumption DEF MessageTrue
  <2>5. /\ Answer(client.uuid) = "RESULT_ERROR" => client.uuid \notin known
        /\ Answer(client.uuid) = "RESULT_COMPLETED_OK" =>
             client.uuid \in ToSet(processed) \ failed
        /\ Answer(client.uuid) = "RESULT_COMPLETED_ERROR" =>
             client.uuid \in ToSet(processed) \cap failed
    BY <1>4, <2>2 DEF Answer, Completed, TruthInv, ResultsInv
  <2>6. /\ ToSet(processed) \ failed \subseteq everProcessed \ everFailed
        /\ failed \subseteq everFailed
    BY DEF TruthInv, ComputedInv
  <2>7. ReplyTrue(work)'
    BY <1>1, <1>6, <1>10, <2>1, <2>2, <2>4, <2>5, <2>6 DEF ReplyTrue, MessageTrue, aggVars
  <2>8. MessagesInv'
    BY <1>1, <1>5, <2>7, NoMessageIsTrue DEF MessagesInv, MessageTrue, NoMessage
  <2>9. JobsInv'
    BY <1>1, <1>3, <1>7, <2>1, <2>2, <2>4 DEF TruthInv, JobsInv, aggVars
  <2>10. ResultsInv'
    BY <1>1, <1>3, <1>8, <2>1, <2>2, <2>5 DEF TruthInv, ResultsInv, ProofsAreOfTheirJobs, aggVars
  <2>11. ComputedInv'
    <3>1. pending' = pending
      BY <1>1, <1>10 DEF ClientServes, ClientSubmits, ClientGetsStatus, ClientGetsProof,
         ClientCancels, Serves, queues
    <3> QED
      BY <2>1, <3>1 DEF TruthInv, ComputedInv
  <2> QED
    BY <2>8, <2>9, <2>10, <2>11 DEF TruthInv
<1>11. CASE client.call \notin {"GenProof", "GetProof"}
  <2>1. answer' = answer /\ known' = known /\ jobOf' = jobOf /\ pending' = pending
    BY <1>1, <1>11 DEF ClientServes, ClientSubmits, ClientGetsStatus, ClientGetsProof, ClientCancels,
       Serves, queues
  <2>2. Said \notin {"RESULT_COMPLETED_OK", "RESULT_COMPLETED_ERROR"}
    BY <1>1, <1>11, WhatIsSaid DEF ShapeInv
  <2>3. MessageTrue(work)
    BY <1>1 DEF TruthInv, MessagesInv
  <2>4. ReplyTrue(work)'
    BY <1>1, <1>2, <1>6, <1>11, <2>1, <2>2, <2>3 DEF ReplyTrue, MessageTrue, aggVars
  <2>5. MessagesInv'
    BY <1>1, <1>5, <2>4, NoMessageIsTrue DEF MessagesInv, MessageTrue, NoMessage
  <2>6. JobsInv' /\ ComputedInv' /\ ResultsInv'
    BY <1>1, <1>7, <1>8, <2>1
       DEF TruthInv, JobsInv, ComputedInv, ResultsInv, ProofsAreOfTheirJobs, aggVars
  <2> QED
    BY <2>5, <2>6 DEF TruthInv
<1> QED
  BY <1>9, <1>10, <1>11


LEMMA LockingKeepsTruth ==
  ASSUME ShapeInv, TruthInv, StreamLocks
  PROVE  TruthInv'
<1>1. PICK r \in Requests \cup {NoRequest} :
        /\ ClientLocks(work.call, r)
        /\ work.call \in Calls
        /\ work.call = "GenProof" => r \in FreshRequests
        /\ work.call # "GenProof" => r = work.uuid
  BY LockedRequest
<1>2. /\ client'.call = work.call /\ client'.uuid = r
      /\ UNCHANGED <<queues, flags, proverAll, answer>>
  BY <1>1 DEF ClientLocks
<1>3. /\ at = "serve" /\ at' = "call"
      /\ UNCHANGED <<work, wireVars, aggVars, history>>
  BY DEF StreamLocks
<1>4. MessagesInv'
  BY <1>2, <1>3 DEF TruthInv, MessagesInv, MessageTrue, ReplyTrue, wireVars, aggVars, history, computed,
     queues
<1>5. JobsInv'
  BY <1>1, <1>2, <1>3 DEF TruthInv, JobsInv, FreshRequests, aggVars, history, queues
<1>6. ResultsInv'
  BY <1>2, <1>3 DEF TruthInv, ResultsInv, ProofsAreOfTheirJobs, aggVars, history, computed, queues, flags,
     proverAll, results
<1>7. ComputedInv'
  BY <1>2, <1>3 DEF TruthInv, ComputedInv, history, computed, queues, proverAll, results
<1> QED
  BY <1>4, <1>5, <1>6, <1>7 DEF TruthInv

LEMMA ExitingKeepsTruth ==
  ASSUME TruthInv, Exits
  PROVE  TruthInv'
<1>1. /\ known' = {} /\ processed' = <<>> /\ failed' = {} /\ pending' = <<>> /\ prover' = "top"
      /\ bCompleted' = [r \in Requests |-> FALSE] /\ answer' = [r \in Requests |-> "none"]
      /\ client' = NoCall
  BY DEF Exits, NewProver
<1>2. /\ at' = "connect" /\ toProver' = NoMessage /\ toAggregator' = NoMessage
      /\ UNCHANGED <<asked, got, history>>
  BY DEF Exits
<1>3. MessagesInv'
  BY <1>2, NoMessageIsTrue DEF MessagesInv, MessageTrue, NoMessage
<1>4. JobsInv'
  BY <1>1, <1>2 DEF TruthInv, JobsInv, history, NoCall
<1>5. ToSet(processed') = {}
  BY <1>1 DEF ToSet
<1>6. ResultsInv'
  BY <1>1, <1>2, <1>5 DEF TruthInv, ResultsInv, ProofsAreOfTheirJobs, history, computed
<1>7. ComputedInv'
  BY <1>1, <1>2, <1>5 DEF TruthInv, ComputedInv, history, computed
<1> QED
  BY <1>3, <1>4, <1>6, <1>7 DEF TruthInv

LEMMA HearingKeepsTruth ==
  ASSUME ShapeInv, TruthInv, Hears
  PROVE  TruthInv'
<1> DEFINE m == toAggregator
           forgets == \/ /\ m.call = "GetProof"
                         /\ m.said \in {"RESULT_ERROR", "RESULT_COMPLETED_ERROR"}
                      \/ m.call = "Cancel" /\ m.said = "RESULT_OK"
<1>1. /\ m # NoMessage
      /\ asked' = CASE m.call = "GenProof" -> [asked EXCEPT ![m.job] = m.uuid]
                    [] forgets -> [asked EXCEPT ![m.job] = NoRequest]
                    [] OTHER -> asked
      /\ got' = IF m.said = "RESULT_COMPLETED_OK" THEN [got EXCEPT ![m.job] = m.uuid] ELSE got
      /\ toAggregator' = NoMessage
      /\ UNCHANGED <<queueVars, threadVars, toProver, history>>
  BY DEF Hears
<1>2. ReplyOK(m) /\ ReplyTrue(m) /\ toProver = NoMessage /\ work = NoMessage
  BY <1>1 DEF ShapeInv, WireInv, TruthInv, MessagesInv
<1>3. /\ asked \in [Jobs -> Requests \cup {NoRequest}] /\ got \in [Jobs -> Requests \cup {NoRequest}]
      /\ m.call \in {"GenProof", "GetProof", "Cancel"} => m.job \in Jobs
      /\ m.call \in {"GenProof", "GetProof", "Cancel"} => m.uuid \in Requests
  BY <1>2 DEF ShapeInv, WireInv, ReplyOK, MessageOK
<1>4. m.call \in {"GenProof", "GetProof"} => jobOf[m.uuid] = m.job
  BY <1>2 DEF ReplyTrue, MessageTrue
<1>5. \A j \in Jobs : asked'[j] # NoRequest => jobOf[asked'[j]] = j
  <2>1. CASE m.call = "GenProof"
    BY <1>1, <1>3, <1>4, <2>1 DEF TruthInv, JobsInv
  <2>2. CASE m.call # "GenProof" /\ forgets
    <3>1. asked' = [asked EXCEPT ![m.job] = NoRequest]
      BY <1>1, <2>2
    <3> QED
      BY <1>3, <2>2, <3>1 DEF TruthInv, JobsInv
  <2>3. CASE m.call # "GenProof" /\ ~forgets
    <3>1. asked' = asked
      BY <1>1, <2>3
    <3> QED
      BY <3>1 DEF TruthInv, JobsInv
  <2> QED
    BY <2>1, <2>2, <2>3
<1>6. ProofsAreOfTheirJobs'
  <2>1. CASE m.said = "RESULT_COMPLETED_OK"
    <3>1. /\ m.job \in Jobs /\ m.uuid \in Requests
          /\ jobOf[m.uuid] = m.job /\ m.uuid \in everProcessed \ everFailed
      BY <1>2, <1>3, <1>4, <2>1 DEF ReplyOK, ReplyTrue
    <3>2. got' = [got EXCEPT ![m.job] = m.uuid]
      BY <1>1, <2>1
    <3> QED
      BY <1>1, <1>3, <3>1, <3>2 DEF TruthInv, ResultsInv, ProofsAreOfTheirJobs, history, computed
  <2>2. CASE m.said # "RESULT_COMPLETED_OK"
    BY <1>1, <2>2 DEF TruthInv, ResultsInv, ProofsAreOfTheirJobs, history, computed
  <2> QED
    BY <2>1, <2>2
<1> HIDE DEF m, forgets
<1>7. MessagesInv'
  <2>1. toProver' = NoMessage /\ work' = NoMessage /\ toAggregator' = NoMessage /\ at' = at
    BY <1>1, <1>2 DEF threadVars
  <2>2. at \notin {"serve", "call", "write"}
    BY <1>2, MessagesAreNotNone DEF ShapeInv, ThreadInv, ReplyOK
  <2> QED
    BY <2>1, <2>2, NoMessageIsTrue DEF MessagesInv, MessageTrue, NoMessage
<1>8. JobsInv'
  BY <1>1, <1>5 DEF TruthInv, JobsInv, queueVars, vars, queues, clientAll, history
<1>9. ResultsInv'
  BY <1>1, <1>6 DEF TruthInv, ResultsInv, queueVars, vars, queues, clientAll, proverAll, results, flags
<1>10. ComputedInv'
  BY <1>1 DEF TruthInv, ComputedInv, queueVars, vars, queues, proverAll, results, history, computed
<1> QED
  BY <1>7, <1>8, <1>9, <1>10 DEF TruthInv

LEMMA TruthNext == ShapeInv /\ OrderInv /\ TruthInv /\ [StreamNext]_allVars => TruthInv'
<1> SUFFICES ASSUME ShapeInv, OrderInv, TruthInv, [StreamNext]_allVars PROVE TruthInv'
  OBVIOUS
<1>0. ThreadInv /\ WireInv /\ MessagesInv
  BY DEF ShapeInv, TruthInv
<1>1. CASE Connects \/ WakesUp
  <2>1. /\ at' \notin {"serve", "call", "write"}
        /\ UNCHANGED <<queueVars, toProver, toAggregator, aggVars, history>>
    BY <1>1 DEF Connects, WakesUp, wireVars
  <2>2. MessagesInv'
    BY <1>0, <2>1 DEF MessagesInv, MessageTrue, ReplyTrue, queueVars, vars, queues, aggVars,
       history, computed
  <2> QED
    BY <2>1, <2>2, MovesKeepTruth
<1>2. CASE FindsItBroken
  <2>1. /\ at' = "sleep"
        /\ UNCHANGED <<queueVars, toProver, toAggregator, aggVars, history>>
    BY <1>2 DEF FindsItBroken, wireVars
  <2>2. MessagesInv'
    BY <1>0, <2>1 DEF MessagesInv, MessageTrue, ReplyTrue, queueVars, vars, queues, aggVars,
       history, computed
  <2> QED
    BY <2>1, <2>2, MovesKeepTruth
<1>3. CASE Reads
  <2>1. /\ at' = "serve" /\ work' = toProver /\ toProver' = NoMessage
        /\ UNCHANGED <<queueVars, toAggregator, aggVars, history>>
    BY <1>3 DEF Reads
  <2>2. toAggregator' = NoMessage
    BY <1>0, <1>3, <2>1 DEF Reads, WireInv
  <2>3. MessagesInv'
    BY <1>0, <2>1, <2>2, NoMessageIsTrue DEF MessagesInv, MessageTrue, NoMessage, aggVars, history
  <2> QED
    BY <2>1, <2>3, MovesKeepTruth
<1>4. CASE StreamRejects
  <2>1. /\ at' = "write" /\ work' = Reply(work, NoRequest, "RESULT_ERROR") /\ work.call = "Invalid"
        /\ UNCHANGED <<queueVars, toProver, toAggregator, aggVars, history>>
    BY <1>4 DEF StreamRejects, wireVars
  <2>2. ReplyTrue(work)'
    BY <2>1 DEF ReplyTrue, MessageTrue, Reply
  <2>3. MessagesInv'
    BY <1>0, <2>1, <2>2 DEF MessagesInv, MessageTrue, ReplyTrue, queueVars, vars, queues, aggVars,
       history, computed
  <2> QED
    BY <2>1, <2>3, MovesKeepTruth
<1>5. CASE Writes
  <2>1. /\ at = "write" /\ at' = "read" /\ (toAggregator' = work \/ toAggregator' = NoMessage)
        /\ UNCHANGED <<queueVars, toProver, aggVars, history>>
    BY <1>5 DEF Writes
  <2>2. MessagesInv'
    BY <1>0, <2>1 DEF MessagesInv, MessageTrue, ReplyTrue, queueVars, vars, queues, aggVars,
       history, computed
  <2> QED
    BY <2>1, <2>2, MovesKeepTruth
<1>6. CASE LinkFails
  <2>1. /\ toProver' = NoMessage /\ toAggregator' = NoMessage
        /\ UNCHANGED <<queueVars, at, work, asked, got, jobOf, computed>>
    BY <1>6 DEF LinkFails, threadVars
  <2>2. MessagesInv'
    BY <1>0, <2>1, NoMessageIsTrue DEF MessagesInv, MessageTrue, ReplyTrue, queueVars, vars, queues, NoMessage,
       computed
  <2>3. JobsInv' /\ ComputedInv' /\ ResultsInv'
    BY <2>1 DEF TruthInv, JobsInv, ComputedInv, ResultsInv, ProofsAreOfTheirJobs, queueVars, vars, queues,
       proverAll, results, clientAll, flags, computed
  <2> QED
    BY <2>2, <2>3 DEF TruthInv
<1>7. ASSUME NEW call \in StreamCalls, NEW j \in Jobs \cup {NoJob},
             NEW r \in Requests \cup {NoRequest}, SentAs(call, j, r)
      PROVE  TruthInv'
  <2>1. /\ toProver' = Message(call, j, r) /\ toAggregator = NoMessage /\ work = NoMessage
        /\ call \in {"GetProof", "Cancel"} => r = asked[j] /\ r \in Requests /\ j \in Jobs
        /\ call = "GenProof" => asked[j] = NoRequest
        /\ UNCHANGED <<queueVars, at, work, toAggregator, asked, got, jobOf, computed>>
    BY <1>7 DEF SentAs, Sends, MessageOK, Message, threadVars, aggVars
  <2>2. MessageTrue(toProver)'
    BY <2>1, QueueAssumption DEF MessageTrue, Message, TruthInv, JobsInv
  <2>3. MessagesInv'
    BY <1>0, <2>1, <2>2 DEF MessagesInv, MessageTrue, ReplyTrue, queueVars, vars, queues, NoMessage,
       computed
  <2>4. JobsInv' /\ ComputedInv' /\ ResultsInv'
    BY <2>1 DEF TruthInv, JobsInv, ComputedInv, ResultsInv, ProofsAreOfTheirJobs, queueVars, vars, queues,
       proverAll, results, clientAll, flags, computed
  <2> QED
    BY <2>3, <2>4 DEF TruthInv
<1>8. CASE UNCHANGED allVars
  <2>1. MessagesInv'
    BY <1>0, <1>8 DEF MessagesInv, MessageTrue, ReplyTrue, allVars, queueVars, vars, queues, threadVars,
       wireVars, aggVars, history, computed
  <2> QED
    BY <1>8, <2>1, MovesKeepTruth DEF allVars
<1>9. CASE ReachesMaxStreams \/ WatchdogExits
  BY <1>9, ExitingKeepsTruth DEF ReachesMaxStreams, WatchdogExits
<1> QED
  BY <1>1, <1>2, <1>3, <1>4, <1>5, <1>6, <1>7, <1>8, <1>9, SendsCases, ProverKeepsTruth,
     ServingKeepsTruth, LockingKeepsTruth, HearingKeepsTruth DEF StreamNext, StreamThread


-----------------------------------------------------------------------------
(* How often a job is submitted.  A job that is being asked for, or whose  *)
(* identifier is one that the running prover knows and that did not fail,  *)
(* is tied to one submission; every other submission failed or has a fault *)
(* of its own.                                                             *)

Submitted(j) == RequestsFor(j) \ everFailed

Making(j) ==
  \/ toProver.call = "GenProof" /\ toProver.job = j
  \/ at \in {"serve", "call"} /\ work.call = "GenProof" /\ work.job = j

Made(j) ==
  \/ /\ at = "write" /\ work.call = "GenProof" /\ work.job = j
     /\ work.uuid \notin everFailed
  \/ /\ toAggregator.call = "GenProof" /\ toAggregator.job = j
     /\ toAggregator.uuid \notin everFailed

Cancelling(j) ==
  \/ toProver.call = "Cancel" /\ toProver.job = j
  \/ at \in {"serve", "call", "write"} /\ work.call = "Cancel" /\ work.job = j
  \/ toAggregator.call = "Cancel" /\ toAggregator.job = j

Tied(j) ==
  \/ got[j] # NoRequest
  \/ link = "up" /\ (Making(j) \/ Made(j) \/ (asked[j] \in known \ everFailed /\ ~Cancelling(j)))

One(p) == IF p THEN 1 ELSE 0

Counted(j) ==
  /\ IsFiniteSet(Submitted(j))
  /\ Cardinality(Submitted(j)) + One(Making(j)) <= faults + One(Tied(j))

CountInv == IsFiniteSet(everFailed) /\ \A j \in Jobs : Counted(j)

LEMMA CountInit == StreamInit => CountInv
<1>0. StreamInit => IsFiniteSet(everFailed)
  BY FS_EmptySet DEF StreamInit
<1> SUFFICES ASSUME StreamInit, NEW j \in Jobs PROVE Counted(j)
  BY <1>0 DEF CountInv
<1>1. Submitted(j) = {} /\ ~Making(j) /\ faults = 0
  BY StreamAssumption DEF StreamInit, Submitted, RequestsFor, Making, NoMessage
<1>2. IsFiniteSet(Submitted(j)) /\ Cardinality(Submitted(j)) = 0
  BY <1>1, FS_EmptySet
<1> QED
  BY <1>1, <1>2 DEF Counted, One

\* No new submission, and what is lost of the ties a fault makes up for.
LEMMA CountStays ==
  ASSUME CountInv, NEW j \in Jobs, UNCHANGED <<jobOf, everFailed>>, faults \in Nat, faults' \in Nat,
         \/ faults' >= faults /\ (Making(j)' => Making(j)) /\ (Tied(j) => Tied(j)')
         \/ faults' >= faults + 1 /\ (Making(j)' => Making(j))
  PROVE  Counted(j)'
<1>1. IsFiniteSet(Submitted(j)) /\ Cardinality(Submitted(j)) + One(Making(j)) <= faults + One(Tied(j))
  BY DEF CountInv, Counted
<1>2. Submitted(j)' = Submitted(j)
  BY DEF Submitted, RequestsFor
<1>3. Cardinality(Submitted(j)) \in Nat
  BY <1>1, FS_CardinalityType
<1>4. Cardinality(Submitted(j)) + One(Making(j)') <= faults' + One(Tied(j)')
  <2>1. /\ One(Making(j)') \in {0, 1} /\ One(Making(j)) \in {0, 1}
        /\ One(Tied(j)') \in {0, 1} /\ One(Tied(j)) \in {0, 1}
        /\ One(Making(j)') <= One(Making(j)) \/ ~(Making(j)' => Making(j))
        /\ One(Tied(j)) <= One(Tied(j)') \/ ~(Tied(j) => Tied(j)')
    BY DEF One
  <2> DEFINE c == Cardinality(Submitted(j)) m == One(Making(j)) n == One(Making(j)')
             t == One(Tied(j)) u == One(Tied(j)')
  <2> HIDE DEF c, m, n, t, u
  <2>2. /\ c \in Nat /\ {m, n, t, u} \subseteq {0, 1} /\ c + m <= faults + t
        /\ (faults' >= faults /\ n <= m /\ t <= u) \/ (faults' >= faults + 1 /\ n <= m)
    BY <1>1, <1>3, <2>1 DEF c, m, n, t, u
  <2>3. c + n <= faults' + u
    BY <2>2
  <2> QED
    BY <2>3 DEF c, n, u
<1>5. One(Making(j))' = One(Making(j)') /\ One(Tied(j))' = One(Tied(j)')
  BY DEF One
<1> QED
  BY <1>1, <1>2, <1>4, <1>5 DEF Counted

LEMMA CountUnmoved ==
  ASSUME CountInv, NEW j \in Jobs, faults \in Nat,
         UNCHANGED <<known, aggVars, toProver, toAggregator, at, work, link, jobOf, everFailed, faults>>
  PROVE  Counted(j)'
<1>1. (Making(j)' => Making(j)) /\ (Tied(j) => Tied(j)')
  BY DEF Making, Made, Tied, Cancelling, aggVars
<1> QED
  BY <1>1, CountStays

\* A computation that fails takes one submission out of the count, and at most
\* the tie to it.
LEMMA FailingKeepsCount ==
  ASSUME ShapeInv, TruthInv, CountInv, NEW j \in Jobs, faults \in Nat,
         current \in Requests, current \notin everFailed,
         everFailed' = everFailed \cup {current},
         UNCHANGED <<known, asked, got, toProver, toAggregator, at, work, link, jobOf, faults>>
  PROVE  Counted(j)'
<1>1. IsFiniteSet(Submitted(j)) /\ Cardinality(Submitted(j)) + One(Making(j)) <= faults + One(Tied(j))
  BY DEF CountInv, Counted
<1>2. /\ Submitted(j)' = Submitted(j) \ {current}
      /\ current \in Submitted(j) <=> jobOf[current] = j
  BY DEF Submitted, RequestsFor
<1>3. Making(j)' <=> Making(j)
  BY DEF Making
<1>4. Cancelling(j)' <=> Cancelling(j)
  BY DEF Cancelling
<1>5. One(Making(j)') = One(Making(j)) /\ One(Making(j)) \in {0, 1}
  BY <1>3 DEF One
<1>6. One(Tied(j)') \in {0, 1} /\ One(Tied(j)) \in {0, 1}
  BY DEF One
<1>7. Cardinality(Submitted(j)) \in Nat
  BY <1>1, FS_CardinalityType
<1>8. One(Making(j))' = One(Making(j)') /\ One(Tied(j))' = One(Tied(j)')
  BY DEF One
<1>9. CASE jobOf[current] = j
  <2>1. IsFiniteSet(Submitted(j)') /\ Cardinality(Submitted(j)') = Cardinality(Submitted(j)) - 1
    BY <1>1, <1>2, <1>9, FS_RemoveElement
  <2>2. Cardinality(Submitted(j)') + One(Making(j)') <= faults + One(Tied(j)')
    BY <1>1, <1>5, <1>6, <1>7, <2>1
  <2> QED
    BY <1>8, <2>1, <2>2 DEF Counted
<1>10. CASE jobOf[current] # j
  <2>1. Made(j) => Made(j)'
    <3>1. at = "write" /\ work.call = "GenProof" /\ work.job = j => work.uuid # current
      BY <1>10 DEF TruthInv, MessagesInv, ReplyTrue
    <3>2. toAggregator.call = "GenProof" /\ toAggregator.job = j => toAggregator.uuid # current
      BY <1>10 DEF TruthInv, MessagesInv, ReplyTrue, NoMessage
    <3> QED
      BY <3>1, <3>2 DEF Made
  <2>2. asked[j] # current
    BY <1>10, QueueAssumption DEF TruthInv, JobsInv
  <2>3. Tied(j) => Tied(j)'
    BY <1>3, <1>4, <2>1, <2>2 DEF Tied
  <2>4. One(Tied(j)) <= One(Tied(j)')
    BY <2>3 DEF One
  <2>5. Submitted(j)' = Submitted(j)
    BY <1>2, <1>10
  <2>6. Cardinality(Submitted(j)) + One(Making(j)') <= faults + One(Tied(j)')
    BY <1>1, <1>5, <1>6, <1>7, <2>4
  <2> QED
    BY <1>1, <1>8, <2>5, <2>6 DEF Counted
<1> QED
  BY <1>9, <1>10

LEMMA ProvingKeepsCount ==
  ASSUME ShapeInv, OrderInv, TruthInv, CountInv, ProverRuns, NEW j \in Jobs
  PROVE  Counted(j)'
<1>1. /\ faults \in Nat
      /\ UNCHANGED <<known, asked, got, idle, toProver, toAggregator, at, work, link, jobOf, faults>>
  BY ProverLeavesTheRest DEF ShapeInv, WireInv, threadVars, wireVars, aggVars
<1>2. ComputesCurrent \/ UNCHANGED <<processed, failed, everProcessed, everFailed>>
  BY WhatIsComputed
<1>3. CASE everFailed' = everFailed
  BY <1>1, <1>3, CountUnmoved DEF aggVars
<1>4. CASE everFailed' # everFailed
  <2>1. /\ current \in Requests /\ current \notin everFailed
        /\ everFailed' = everFailed \cup {current}
    BY <1>2, <1>4 DEF ComputesCurrent
  <2> QED
    BY <1>1, <2>1, FailingKeepsCount
<1> QED
  BY <1>3, <1>4

LEMMA OneMore ==
  ASSUME NEW S, IsFiniteSet(S), NEW x, x \notin S
  PROVE  /\ IsFiniteSet(S \cup {x}) /\ Cardinality(S) \in Nat
         /\ Cardinality(S \cup {x}) = Cardinality(S) + 1
  BY FS_AddElement, FS_CardinalityType

LEMMA ServingKeepsCount ==
  ASSUME ShapeInv, OrderInv, TruthInv, CountInv, StreamServes, NEW j \in Jobs
  PROVE  Counted(j)'
<1>1. /\ at = "call" /\ at' = "write" /\ ClientServes
      /\ jobOf' = IF client.call = "GenProof"
                  THEN [jobOf EXCEPT ![client.uuid] = work.job] ELSE jobOf
      /\ work' = Reply(work, client.uuid, Said)
      /\ UNCHANGED <<wireVars, aggVars, computed, faults>>
  BY DEF StreamServes
<1>2. /\ MessageOK(work) /\ client.call = work.call /\ client # NoCall
      /\ toProver = NoMessage /\ toAggregator = NoMessage
      /\ faults \in Nat
  BY <1>1, MessagesAreNotNone DEF ShapeInv, ThreadInv, WireInv
<1>3. clientSaw.known = known /\ (client.call = "GenProof" => client.uuid \in Requests)
  BY <1>2 DEF OrderInv, ShapeInv, QueueInv, HandsInv
<1>4. /\ work'.call = work.call /\ work'.job = work.job /\ work'.uuid = client.uuid
      /\ everFailed' = everFailed
  BY <1>1, <1>2 DEF Reply, computed
<1>5. toProver' = NoMessage /\ toAggregator' = NoMessage /\ NoMessage.call = "none" /\ link' = link
  BY <1>1, <1>2 DEF wireVars, NoMessage
<1>6. known \subseteq known' /\ asked' = asked /\ got' = got
  BY <1>1, <1>3 DEF ClientServes, ClientSubmits, ClientGetsStatus, ClientGetsProof,
     ClientCancels, aggVars, queues
<1> client.call = "GenProof" => client.uuid \notin everFailed
  BY DEF TruthInv, JobsInv, ComputedInv
<1>7. /\ Made(j)' <=> Making(j)
      /\ Cancelling(j)' <=> Cancelling(j)
      /\ ~Making(j)' /\ ~Made(j)
  BY <1>1, <1>2, <1>4, <1>5 DEF Made, Making, Cancelling
<1>8. Tied(j) => Tied(j)'
  BY <1>4, <1>5, <1>6, <1>7 DEF Tied
<1>9. CASE client.call = "GenProof" /\ work.job = j
  <2>1. /\ jobOf \in [Requests -> Jobs \cup {NoJob}] /\ jobOf[client.uuid] = NoJob
        /\ jobOf' = [jobOf EXCEPT ![client.uuid] = j]
    BY <1>1, <1>9 DEF TruthInv, JobsInv
  <2>2. /\ Submitted(j)' = Submitted(j) \cup {client.uuid} /\ client.uuid \notin Submitted(j)
    BY <1>3, <1>4, <1>9, <2>1, StreamAssumption DEF Submitted, RequestsFor
  <2>3. IsFiniteSet(Submitted(j)) /\ Cardinality(Submitted(j)) + One(Making(j)) <= faults + One(Tied(j))
    BY DEF CountInv, Counted
  <2>4. /\ IsFiniteSet(Submitted(j)') /\ Cardinality(Submitted(j)') = Cardinality(Submitted(j)) + 1
        /\ Cardinality(Submitted(j)) \in Nat
    BY <2>2, <2>3, OneMore
  <2>5. Making(j)
    BY <1>1, <1>2, <1>9 DEF Making
  <2>6. One(Making(j)) = 1 /\ One(Making(j))' = 0 /\ One(Tied(j)) <= One(Tied(j))'
    BY <1>7, <1>8, <2>5 DEF One
  <2>7. One(Tied(j)) \in {0, 1} /\ One(Tied(j))' \in {0, 1} /\ faults' = faults
    BY <1>1 DEF One
  <2>8. Cardinality(Submitted(j)') + One(Making(j))' <= faults' + One(Tied(j))'
    BY <1>2, <2>3, <2>4, <2>6, <2>7
  <2> QED
    BY <2>4, <2>8 DEF Counted
<1>10. CASE ~(client.call = "GenProof" /\ work.job = j)
  <2>1. Submitted(j)' = Submitted(j)
    <3>1. CASE client.call = "GenProof"
      <4>1. /\ jobOf \in [Requests -> Jobs \cup {NoJob}] /\ jobOf[client.uuid] = NoJob
            /\ jobOf' = [jobOf EXCEPT ![client.uuid] = work.job]
        BY <1>1, <3>1 DEF TruthInv, JobsInv
      <4> QED
        BY <1>3, <1>4, <1>10, <3>1, <4>1, StreamAssumption DEF Submitted, RequestsFor
    <3>2. CASE client.call # "GenProof"
      BY <1>1, <1>4, <3>2 DEF Submitted, RequestsFor
    <3> QED
      BY <3>1, <3>2
  <2>2. IsFiniteSet(Submitted(j)) /\ Cardinality(Submitted(j)) + One(Making(j)) <= faults + One(Tied(j))
    BY DEF CountInv, Counted
  <2>3. Cardinality(Submitted(j)) \in Nat
    BY <2>2, FS_CardinalityType
  <2>4. /\ One(Making(j)) \in {0, 1} /\ One(Making(j))' = 0 /\ One(Tied(j)) <= One(Tied(j))'
        /\ One(Tied(j)) \in {0, 1} /\ One(Tied(j))' \in {0, 1} /\ faults' = faults
    BY <1>1, <1>7, <1>8 DEF One
  <2>5. Cardinality(Submitted(j)) + One(Making(j))' <= faults' + One(Tied(j))'
    BY <1>2, <2>2, <2>3, <2>4
  <2> QED
    BY <2>1, <2>2, <2>5 DEF Counted
<1> QED
  BY <1>9, <1>10


LEMMA HearingKeepsCount ==
  ASSUME ShapeInv, TruthInv, CountInv, Hears, NEW j \in Jobs
  PROVE  Counted(j)'
<1> DEFINE m == toAggregator
           forgets == \/ /\ m.call = "GetProof"
                         /\ m.said \in {"RESULT_ERROR", "RESULT_COMPLETED_ERROR"}
                      \/ m.call = "Cancel" /\ m.said = "RESULT_OK"
<1>1. /\ m # NoMessage
      /\ asked' = CASE m.call = "GenProof" -> [asked EXCEPT ![m.job] = m.uuid]
                    [] forgets -> [asked EXCEPT ![m.job] = NoRequest]
                    [] OTHER -> asked
      /\ got' = IF m.said = "RESULT_COMPLETED_OK" THEN [got EXCEPT ![m.job] = m.uuid] ELSE got
      /\ toAggregator' = NoMessage
      /\ UNCHANGED <<queueVars, threadVars, link, toProver, history>>
  BY DEF Hears
<1>2. /\ ReplyOK(m) /\ ReplyTrue(m) /\ toProver = NoMessage /\ work = NoMessage /\ link = "up"
      /\ asked \in [Jobs -> Requests \cup {NoRequest}] /\ got \in [Jobs -> Requests \cup {NoRequest}]
      /\ faults \in Nat
  BY <1>1 DEF ShapeInv, WireInv, TruthInv, MessagesInv
<1>3. /\ m.call \in {"GenProof", "GetProof", "Cancel"} => m.job \in Jobs
      /\ m.call \in {"GetProof", "Cancel"} => m.uuid = asked[m.job]
      /\ m.call = "GenProof" => m.uuid \in known /\ asked[m.job] = NoRequest
      /\ m.call = "GetProof" /\ m.said \in {"RESULT_ERROR", "RESULT_COMPLETED_ERROR"} =>
           m.uuid \notin known \ everFailed
  BY <1>2 DEF ReplyOK, MessageOK, ReplyTrue, MessageTrue
<1>4. NoMessage.call = "none"
  BY DEF NoMessage
<1>5. /\ ~Making(j) /\ ~Making(j)' /\ ~Made(j)' /\ ~Cancelling(j)'
      /\ Made(j) <=> m.call = "GenProof" /\ m.job = j /\ m.uuid \notin everFailed
      /\ Cancelling(j) <=> m.call = "Cancel" /\ m.job = j
  BY <1>1, <1>2, <1>4 DEF Making, Made, Cancelling, threadVars
<1>6. link' = "up" /\ known' = known /\ jobOf' = jobOf /\ faults' = faults /\ everFailed' = everFailed
  BY <1>1, <1>2 DEF queueVars, vars, queues, history, computed
<1>7. got[j] # NoRequest => got'[j] # NoRequest
  <2>1. m.said = "RESULT_COMPLETED_OK" => m.call = "GetProof" /\ m.uuid \in Requests /\ m.job \in Jobs
    BY <1>2 DEF ReplyOK, MessageOK
  <2> QED
    BY <1>1, <1>2, <2>1, QueueAssumption
<1>8. Made(j) => asked'[j] \in known \ everFailed
  BY <1>1, <1>2, <1>3, <1>5
<1>9. asked[j] \in known \ everFailed /\ ~Cancelling(j) => asked'[j] \in known \ everFailed
  <2> SUFFICES ASSUME asked[j] \in known \ everFailed, ~Cancelling(j)
               PROVE  asked'[j] \in known \ everFailed
    OBVIOUS
  <2>1. CASE m.call = "GenProof"
    <3>1. asked[m.job] \notin known
      BY <1>3, <2>1, QueueAssumption DEF ShapeInv, QueueInv, TypeOK
    <3>2. m.job # j
      BY <3>1
    <3>3. asked' = [asked EXCEPT ![m.job] = m.uuid]
      BY <1>1, <2>1
    <3> QED
      BY <1>2, <3>2, <3>3
  <2>2. CASE m.call # "GenProof" /\ forgets
    <3>1. asked' = [asked EXCEPT ![m.job] = NoRequest]
      BY <1>1, <2>2
    <3>2. m.job # j
      BY <1>3, <1>5, <2>2
    <3> QED
      BY <1>2, <3>1, <3>2
  <2>3. CASE m.call # "GenProof" /\ ~forgets
    <3>1. asked' = asked
      BY <1>1, <2>3
    <3> QED
      BY <3>1
  <2> QED
    BY <2>1, <2>2, <2>3
<1> HIDE DEF m, forgets
<1>10. Tied(j) => Tied(j)'
  BY <1>5, <1>6, <1>7, <1>8, <1>9 DEF Tied
<1> QED
  BY <1>2, <1>5, <1>6, <1>10, CountStays

LEMMA SendingKeepsCount ==
  ASSUME ShapeInv, CountInv, NEW call \in StreamCalls, NEW i \in Jobs \cup {NoJob},
         NEW r \in Requests \cup {NoRequest}, SentAs(call, i, r), NEW j \in Jobs
  PROVE  Counted(j)'
<1>1. /\ toProver = NoMessage /\ work = NoMessage /\ toAggregator = NoMessage /\ link = "up"
      /\ toProver' = Message(call, i, r)
      /\ UNCHANGED <<queueVars, at, work, link, toAggregator, asked, got, jobOf, everFailed>>
  BY DEF SentAs, Sends, threadVars, aggVars, computed
<1>2. /\ call = "GenProof" => got[i] = NoRequest /\ asked[i] = NoRequest
      /\ call # "Cancel" => faults' \in Nat /\ faults' >= faults
      /\ call = "Cancel" => faults' = faults + 1
  BY DEF SentAs, Wanted
<1>3. faults \in Nat /\ known \subseteq Requests
  BY DEF ShapeInv, WireInv, QueueInv, TypeOK
<1>4. NoMessage.call = "none" /\ toProver'.call = call /\ toProver'.job = i
  BY <1>1 DEF NoMessage, Message
<1>5. ~Making(j) /\ ~Made(j) /\ ~Cancelling(j)
  BY <1>1, <1>4 DEF Making, Made, Cancelling
<1>6. /\ Making(j)' <=> call = "GenProof" /\ i = j
      /\ Cancelling(j)' <=> call = "Cancel" /\ i = j
  BY <1>1, <1>4 DEF Making, Cancelling
<1>7. known' = known
  BY <1>1 DEF queueVars, vars, queues
<1>8. CASE call = "GenProof" /\ i = j
  <2>1. ~Tied(j)
    BY <1>2, <1>3, <1>5, <1>8, QueueAssumption DEF Tied
  <2>2. Making(j)' /\ Tied(j)'
    BY <1>1, <1>6, <1>8 DEF Tied
  <2>3. IsFiniteSet(Submitted(j)) /\ Cardinality(Submitted(j)) + One(Making(j)) <= faults + One(Tied(j))
    BY DEF CountInv, Counted
  <2>4. One(Making(j)) = 0 /\ One(Tied(j)) = 0 /\ One(Making(j))' = 1 /\ One(Tied(j))' = 1
    BY <1>5, <2>1, <2>2 DEF One
  <2>5. Submitted(j)' = Submitted(j) /\ Cardinality(Submitted(j)) \in Nat
    BY <1>1, <2>3, FS_CardinalityType DEF Submitted, RequestsFor
  <2>6. Cardinality(Submitted(j)) + One(Making(j))' <= faults' + One(Tied(j))'
    BY <1>2, <1>3, <1>8, <2>3, <2>4, <2>5
  <2> QED
    BY <2>3, <2>5, <2>6 DEF Counted
<1>9. CASE call = "Cancel"
  BY <1>1, <1>2, <1>3, <1>6, <1>9, CountStays
<1>10. CASE call # "Cancel" /\ ~(call = "GenProof" /\ i = j)
  <2>1. Tied(j) => Tied(j)'
    BY <1>1, <1>5, <1>6, <1>7, <1>10 DEF Tied
  <2> QED
    BY <1>1, <1>2, <1>3, <1>6, <1>10, <2>1, CountStays
<1> QED
  BY <1>8, <1>9, <1>10

LEMMA CountNext ==
  ShapeInv /\ OrderInv /\ TruthInv /\ CountInv /\ [StreamNext]_allVars => CountInv'
<1> SUFFICES ASSUME ShapeInv, OrderInv, TruthInv, CountInv, [StreamNext]_allVars
             PROVE  IsFiniteSet(everFailed') /\ \A j \in Jobs : Counted(j)'
  BY DEF CountInv
<1>f. IsFiniteSet(everFailed')
  <2>1. everFailed' = everFailed \/ ProverRuns
    <3>1. CASE UNCHANGED allVars
      BY <3>1 DEF allVars, history, computed
    <3>2. CASE StreamThread \/ StreamLocks \/ LinkFails \/ Hears
      BY <3>2 DEF StreamThread, Connects, ReachesMaxStreams, Reads, StreamServes, StreamRejects, Writes,
         FindsItBroken, WakesUp, WatchdogExits, Exits, StreamLocks, LinkFails, Hears, history, computed
    <3>3. CASE Aggregator \/ \E j \in Jobs : Errs(j)
      BY <3>2, <3>3, SendsCases DEF SentAs, computed
    <3> QED
      BY <3>1, <3>2, <3>3 DEF StreamNext
  <2>2. IsFiniteSet(everFailed)
    BY DEF CountInv
  <2>3. CASE ProverRuns
    <3>1. ComputesCurrent \/ UNCHANGED <<processed, failed, everProcessed, everFailed>>
      BY <2>3, WhatIsComputed
    <3>2. everFailed' = everFailed \/ everFailed' = everFailed \cup {current}
      BY <3>1 DEF ComputesCurrent
    <3> QED
      BY <2>2, <3>2, FS_AddElement
  <2> QED
    BY <2>1, <2>2, <2>3
<1> SUFFICES ASSUME NEW j \in Jobs PROVE Counted(j)'
  BY <1>f
<1>0. ThreadInv /\ WireInv /\ faults \in Nat
  BY DEF ShapeInv, WireInv
<1> NoMessage.call = "none"
  BY DEF NoMessage
<1>1. CASE ProverRuns
  BY <1>1, ProvingKeepsCount
<1>2. CASE UNCHANGED allVars
  BY <1>0, <1>2, CountUnmoved DEF allVars, queueVars, vars, queues, threadVars, wireVars, history,
     computed
<1>3. CASE Connects \/ WakesUp \/ FindsItBroken
  <2>1. /\ link # "up" \/ link' = link
        /\ at' \notin {"serve", "call", "write"} /\ toProver = NoMessage /\ toAggregator = NoMessage
        /\ UNCHANGED <<known, toProver, toAggregator, aggVars, jobOf, everFailed, faults>>
    BY <1>0, <1>3 DEF Connects, WakesUp, FindsItBroken, ThreadInv, WireInv, InStream, queueVars, vars,
       queues, wireVars, history, computed
  <2>2. link # "up"
    BY <1>0, <1>3 DEF Connects, WakesUp, FindsItBroken, ThreadInv, WireInv, InStream
  <2>3. ~Making(j)'
    BY <2>1 DEF Making
  <2>4. Tied(j) => Tied(j)'
    BY <2>1, <2>2 DEF Tied, aggVars
  <2> QED
    BY <1>0, <2>1, <2>3, <2>4, CountStays
<1>4. CASE ReachesMaxStreams \/ WatchdogExits
  <2>1. link # "up"
    BY <1>0, <1>4 DEF ReachesMaxStreams, WatchdogExits, ThreadInv, WireInv, InStream
  <2>2. /\ at' = "connect" /\ toProver' = NoMessage /\ toAggregator' = NoMessage
        /\ UNCHANGED <<asked, got, jobOf, everFailed, faults>>
    BY <1>4 DEF ReachesMaxStreams, WatchdogExits, Exits, history, computed
  <2>3. ~Making(j)' /\ (Tied(j) => Tied(j)')
    BY <2>1, <2>2 DEF Making, Tied
  <2> QED
    BY <1>0, <2>2, <2>3, CountStays
<1>5. CASE Reads
  <2>1. /\ at = "read" /\ at' = "serve" /\ work' = toProver /\ toProver' = NoMessage
        /\ UNCHANGED <<known, link, toAggregator, aggVars, jobOf, everFailed, faults>>
    BY <1>5 DEF Reads, queueVars, vars, queues, history, computed
  <2>2. (Making(j)' <=> Making(j)) /\ (Made(j)' <=> Made(j)) /\ (Cancelling(j)' <=> Cancelling(j))
    BY <2>1 DEF Making, Made, Cancelling
  <2>3. Tied(j) => Tied(j)'
    BY <2>1, <2>2 DEF Tied, aggVars
  <2> QED
    BY <1>0, <2>1, <2>2, <2>3, CountStays
<1>6. CASE StreamLocks
  <2>1. /\ at = "serve" /\ at' = "call"
        /\ UNCHANGED <<work, link, toProver, toAggregator, aggVars, jobOf, everFailed, faults>>
    BY <1>6 DEF StreamLocks, wireVars, history, computed
  <2>2. known' = known
    BY <1>6, LockedRequest DEF ClientLocks, queues
  <2>3. (Making(j)' <=> Making(j)) /\ (Made(j)' <=> Made(j)) /\ (Cancelling(j)' <=> Cancelling(j))
    BY <2>1 DEF Making, Made, Cancelling
  <2>4. Tied(j) => Tied(j)'
    BY <2>1, <2>2, <2>3 DEF Tied, aggVars
  <2> QED
    BY <1>0, <2>1, <2>3, <2>4, CountStays
<1>7. CASE StreamRejects
  <2>1. /\ at = "serve" /\ at' = "write" /\ work.call = "Invalid" /\ work'.call = "Invalid"
        /\ UNCHANGED <<known, link, toProver, toAggregator, aggVars, jobOf, everFailed, faults>>
    BY <1>7 DEF StreamRejects, Reply, queueVars, vars, queues, wireVars, history, computed
  <2>2. (Making(j)' <=> Making(j)) /\ (Made(j)' <=> Made(j)) /\ (Cancelling(j)' <=> Cancelling(j))
    BY <2>1 DEF Making, Made, Cancelling
  <2>3. Tied(j) => Tied(j)'
    BY <2>1, <2>2 DEF Tied, aggVars
  <2> QED
    BY <1>0, <2>1, <2>2, <2>3, CountStays
<1>8. CASE Writes
  <2>1. /\ at = "write" /\ at' = "read" /\ toAggregator' = IF link = "up" THEN work ELSE NoMessage
        /\ UNCHANGED <<known, link, toProver, aggVars, jobOf, everFailed, faults>>
    BY <1>8 DEF Writes, queueVars, vars, queues, history, computed
  <2>2. toProver = NoMessage /\ toAggregator = NoMessage
    BY <1>0, <2>1, MessagesAreNotNone DEF ThreadInv, WireInv, ReplyOK
  <2>3. ~Making(j)'
    BY <2>1, <2>2 DEF Making
  <2>4. link = "up" => (Made(j)' <=> Made(j)) /\ (Cancelling(j)' <=> Cancelling(j)) /\ ~Making(j)
    BY <2>1, <2>2 DEF Making, Made, Cancelling
  <2>5. Tied(j) => Tied(j)'
    BY <2>1, <2>4 DEF Tied, aggVars
  <2> QED
    BY <1>0, <2>1, <2>3, <2>5, CountStays
<1>9. CASE LinkFails
  <2>1. /\ faults' = faults + 1 /\ toProver' = NoMessage
        /\ UNCHANGED <<at, work, jobOf, everFailed>>
    BY <1>9 DEF LinkFails, threadVars, computed
  <2>2. Making(j)' => Making(j)
    BY <2>1 DEF Making
  <2> QED
    BY <1>0, <2>1, <2>2, CountStays
<1> QED
  BY <1>1, <1>2, <1>3, <1>4, <1>5, <1>6, <1>7, <1>8, <1>9, SendsCases, ServingKeepsCount,
     HearingKeepsCount, SendingKeepsCount DEF StreamNext, StreamThread

-----------------------------------------------------------------------------
(* The theorems.                                                           *)

StreamInv == ShapeInv /\ OrderInv /\ QuietInv /\ TruthInv /\ CountInv

THEOREM StreamInvariant == StreamSpec => []StreamInv
<1>1. StreamInit => StreamInv
  BY ShapeInit, OrderInit, TruthInit, CountInit DEF StreamInv
<1>2. StreamInv /\ [StreamNext]_allVars => StreamInv'
  BY ShapeNext, OrderNext, TruthNext, CountNext DEF StreamInv
<1> QED
  BY <1>1, <1>2, PTL DEF StreamSpec

\* Requests are processed in the order of their submission, each of them once,
\* although proverThread pops them without the mutex: an aggregator that waits
\* for IDLE never has two of them in the queue.
THEOREM OrderIsKept == StreamSpec => []ProcessedInOrder
<1>1. StreamInv => ProcessedInOrder
  <2> SUFFICES ASSUME StreamInv PROVE ProcessedInOrder
    OBVIOUS
  <2>1. processed \in Seq(Requests)
    BY DEF StreamInv, ShapeInv, QueueInv, TypeOK
  <2>2. submitted = processed \/ \E r \in Requests : submitted = Append(processed, r)
    <3>1. pending # <<>> => Head(pending) \in Requests
      BY DEF StreamInv, ShapeInv, QueueInv, TypeOK
    <3> QED
      BY <3>1 DEF StreamInv, OrderInv, ShapeInv, QueueInv, HandsInv
  <2>3. CASE submitted = processed
    BY <2>1, <2>3 DEF ProcessedInOrder, IsPrefix
  <2>4. ASSUME NEW r \in Requests, submitted = Append(processed, r) PROVE ProcessedInOrder
    BY <2>1, <2>4 DEF ProcessedInOrder, IsPrefix
  <2> QED
    BY <2>2, <2>3, <2>4
<1> QED
  BY <1>1, StreamInvariant, PTL

\* A GetStatus that answers IDLE is right, in whatever step of the pop it comes.
THEOREM IdleIsTrue == StreamSpec => []IdleMeansDone
<1>1. StreamInv => IdleMeansDone
  <2> SUFFICES ASSUME StreamInv, toldIdle PROVE ToSet(submitted) \subseteq completed
    BY DEF IdleMeansDone
  <2>1. pending = <<>> /\ current = NoRequest
    BY DEF StreamInv, QuietInv, Idle
  <2>2. prover \notin {"erase", "process", "finish"}
    BY <2>1, QueueAssumption DEF StreamInv, ShapeInv, QueueInv, HandsInv
  <2>3. submitted = processed
    BY <2>1, <2>2 DEF StreamInv, OrderInv
  <2> QED
    BY <2>2, <2>3 DEF StreamInv, OrderInv
<1> QED
  BY <1>1, StreamInvariant, PTL

\* GetProof denies no request of this process, and answers OK or ERROR only for
\* what was processed, as its computation ended.
THEOREM AnswersAreRight == StreamSpec => []AnswersAreTrue
<1>1. StreamInv => AnswersAreTrue
  BY DEF StreamInv, OrderInv, TruthInv, ResultsInv, AnswersAreTrue
<1> QED
  BY <1>1, StreamInvariant, PTL

\* A proof is delivered for the job it was computed for, across streams and
\* processes.
THEOREM ProofsAreRight == StreamSpec => []ProofsAreOfTheirJobs
<1>1. StreamInv => ProofsAreOfTheirJobs
  BY DEF StreamInv, TruthInv, ResultsInv
<1> QED
  BY <1>1, StreamInvariant, PTL

\* A job costs one submission and at most one more for each fault and for each
\* of its computations that failed.
THEOREM WorkIsRepeatedForFaultsOnly == StreamSpec => []WorkIsRepeatedOnlyAfterFaults
<1>1. StreamInv => WorkIsRepeatedOnlyAfterFaults
  <2> SUFFICES ASSUME StreamInv, NEW j \in Jobs
               PROVE  Cardinality(RequestsFor(j))
                        <= 1 + faults + Cardinality(RequestsFor(j) \cap everFailed)
    BY DEF WorkIsRepeatedOnlyAfterFaults
  <2>1. /\ IsFiniteSet(Submitted(j)) /\ faults \in Nat
        /\ Cardinality(Submitted(j)) + One(Making(j)) <= faults + One(Tied(j))
    BY DEF StreamInv, CountInv, Counted, ShapeInv, WireInv
  <2>2. Cardinality(Submitted(j)) \in Nat
    BY <2>1, FS_CardinalityType
  <2>3. One(Making(j)) \in {0, 1} /\ One(Tied(j)) \in {0, 1}
    BY DEF One
  <2>4. Cardinality(Submitted(j)) <= 1 + faults
    BY <2>1, <2>2, <2>3
  <2> DEFINE Lost == RequestsFor(j) \cap everFailed
  <2>5. IsFiniteSet(Lost)
    BY FS_Subset DEF StreamInv, CountInv
  <2>6. RequestsFor(j) = Submitted(j) \cup Lost /\ Submitted(j) \cap Lost = {}
    BY DEF Submitted
  <2>7. Cardinality(Lost) \in Nat
    BY <2>5, FS_CardinalityType
  <2>8. Cardinality(RequestsFor(j)) = Cardinality(Submitted(j)) + Cardinality(Lost)
    <3>1. Cardinality(Submitted(j) \cup Lost)
            = Cardinality(Submitted(j)) + Cardinality(Lost) - Cardinality(Submitted(j) \cap Lost)
      BY <2>1, <2>5, FS_Union
    <3>2. Cardinality(Submitted(j) \cap Lost) = 0
      BY <2>6, FS_EmptySet
    <3> HIDE DEF Lost
    <3> QED
      BY <2>2, <2>6, <2>7, <3>1, <3>2
  <2> HIDE DEF Lost
  <2>9. Cardinality(RequestsFor(j)) <= 1 + faults + Cardinality(Lost)
    BY <2>1, <2>2, <2>4, <2>7, <2>8
  <2> QED
    BY <2>9 DEF Lost
<1> QED
  BY <1>1, StreamInvariant, PTL

\* The loop calls the watchdog in turn, whatever way it is left.
THEOREM WatchdogIsInTurn == StreamSpec => []WatchdogIsUsedInTurn
<1>1. StreamInv => WatchdogIsUsedInTurn
  BY DEF StreamInv, ShapeInv, ThreadInv, WatchdogIsUsedInTurn
<1> QED
  BY <1>1, StreamInvariant, PTL

=============================================================================
