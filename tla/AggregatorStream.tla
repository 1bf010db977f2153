-------------------------- MODULE AggregatorStream --------------------------
(***************************************************************************)
(* aggregatorClientThread and its watchdog, composed with the queues of    *)
(* the prover (ProverQueue) and with an aggregator at the other end of the *)
(* stream.                                                                 *)
(*                                                                         *)
(* The thread opens a stream, and then reads a message, serves it and      *)
(* writes the answer, until a read or a write fails; it then sleeps and    *)
(* opens another stream.  The prover knows nothing of streams: it goes on  *)
(* with what was submitted through a stream that is gone.  A stream may    *)
(* also go silent, so that Read() never returns: only the watchdog ends    *)
(* that, and it ends the process, queues included.  Nothing is persisted.  *)
(*                                                                         *)
(* The aggregator is external: it sends one message at a time, gives a job *)
(* only to a prover that told it in this stream to be idle, polls GetProof *)
(* with the identifier it was given, and asks again for a job whose        *)
(* identifier is unknown.  A process that exits is started again.          *)
(***************************************************************************)
EXTENDS ProverQueue

CONSTANTS Jobs,        \* what the aggregator may want a proof of
          NoJob,
          StreamLimits,  \* values of aggregatorClientMaxStreams, 0 for no limit
          Workloads    \* the jobs the aggregator wants, with the bound on what
                       \* goes wrong: faults from outside and failed computations

ASSUME StreamAssumption ==
  /\ NoJob \notin Jobs
  /\ StreamLimits \subseteq Nat
  /\ Workloads \subseteq [jobs : SUBSET Jobs, troubles : Nat]

VARIABLES
  at,             \* where aggregatorClientThread is
  work,           \* the message it serves, then the answer it writes
  bStarted,       \* of the watchdog
  misused,        \* the watchdog was called out of turn, which ends the process
  maxStreams,     \* config.aggregatorClientMaxStreams
  workload,       \* the one of Workloads
  numberOfStreams,
  link,           \* the stream: none, up, silent or broken
  toProver, toAggregator,   \* the message on its way in each direction
  idle,           \* the aggregator heard IDLE in this stream
  asked,          \* the identifier it polls for a job
  got,            \* the request whose proof it received for a job
  \* history
  jobOf,          \* the job a request was submitted for
  everProcessed,  \* the requests processed, by any process
  everFailed,     \* the requests whose computation failed, in any process
  faults          \* what went wrong from outside

queueVars  == vars
fixed      == <<maxStreams, workload>>
streamVars == <<numberOfStreams, fixed>>
threadVars == <<at, work, bStarted, misused, streamVars>>
wireVars   == <<link, toProver, toAggregator>>
aggVars    == <<idle, asked, got>>
computed   == <<everProcessed, everFailed>>
history    == <<jobOf, computed, faults>>
allVars    == <<queueVars, threadVars, wireVars, aggVars, history>>

-----------------------------------------------------------------------------
NoMessage == [call |-> "none"]

\* "Invalid" is a request that fails its checks, or a message of unknown type.
StreamCalls == Calls \cup {"Invalid"}
Message(call, j, r) == [call |-> call, job |-> j, uuid |-> r]
Reply(m, r, said) == [call |-> m.call, job |-> m.job, uuid |-> r, said |-> said]

StreamInit ==
  /\ Init
  /\ at = "connect" /\ work = NoMessage
  /\ bStarted = FALSE /\ misused = FALSE
  /\ maxStreams \in StreamLimits
  /\ workload \in Workloads
  /\ numberOfStreams = 0
  /\ link = "none" /\ toProver = NoMessage /\ toAggregator = NoMessage
  /\ idle = FALSE
  /\ asked = [j \in Jobs |-> NoRequest]
  /\ got = [j \in Jobs |-> NoRequest]
  /\ jobOf = [r \in Requests |-> NoJob]
  /\ everProcessed = {} /\ everFailed = {}
  /\ faults = 0

\* What Init says of the prover, of the process that comes next.
NewProver ==
  /\ held' = FALSE
  /\ pending' = <<>> /\ completed' = {} /\ known' = {} /\ current' = NoRequest
  /\ pendingSem' = 0
  /\ bCompleted' = [r \in Requests |-> FALSE]
  /\ bCancelling' = [r \in Requests |-> FALSE]
  /\ prover' = "top" /\ popped' = <<>>
  /\ client' = NoCall /\ clientSaw' = NoQueues
  /\ cleaner' = "sleep" /\ cleanerSaw' = NoQueues
  /\ toldIdle' = FALSE
  /\ answer' = [r \in Requests |-> "none"]
  /\ submitted' = <<>> /\ processed' = <<>> /\ failed' = {}

\* exitProcess() or exit(0), and a new process.
Exits ==
  /\ NewProver
  /\ at' = "connect" /\ work' = NoMessage
  /\ bStarted' = FALSE /\ numberOfStreams' = 0
  /\ link' = "none" /\ toProver' = NoMessage /\ toAggregator' = NoMessage
  /\ idle' = FALSE
  /\ UNCHANGED <<fixed, asked, got, history>>

-----------------------------------------------------------------------------
(* Watchdog.  restart() and stop() end the process when it is not started, *)
(* start() when it is.                                                     *)

WatchdogStart == bStarted' = TRUE /\ misused' = (misused \/ bStarted)
WatchdogRestart == misused' = (misused \/ ~bStarted) /\ UNCHANGED bStarted
WatchdogStop == bStarted' = FALSE /\ misused' = (misused \/ ~bStarted)

\* Nothing was read for aggregatorClientWatchdogTimeout.  An answer is written
\* long before that, so that a silent stream is always waited for in Read().
WatchdogExits ==
  /\ bStarted /\ at = "read" /\ link = "silent"
  /\ Exits
  /\ UNCHANGED misused

-----------------------------------------------------------------------------
(* aggregatorClientThread *)

Connects ==
  /\ at = "connect"
  /\ maxStreams = 0 \/ numberOfStreams < maxStreams
  /\ numberOfStreams' = numberOfStreams + 1
  /\ link' = "up"
  /\ WatchdogStart
  /\ at' = "read"
  /\ UNCHANGED <<queueVars, work, fixed, toProver, toAggregator, aggVars,
                 history>>

\* The limit ends the process even when a proof is being computed.
ReachesMaxStreams ==
  /\ at = "connect"
  /\ maxStreams > 0 /\ numberOfStreams >= maxStreams
  /\ Exits
  /\ UNCHANGED misused

Reads ==
  /\ at = "read"
  /\ link = "up" /\ toProver # NoMessage
  /\ WatchdogRestart
  /\ work' = toProver /\ toProver' = NoMessage
  /\ at' = "serve"
  /\ UNCHANGED <<queueVars, streamVars, link, toAggregator, aggVars, history>>

\* Mutant: identifiers are counted by the process.
FreshInProcess == Requests \ ToSet(submitted)

\* The identifier of a new request is one that no process ever used.
FreshRequests == {r \in Requests : jobOf[r] = NoJob}

StreamLocks ==
  /\ at = "serve"
  /\ work.call \in Calls
  /\ \E r \in Requests \cup {NoRequest} :
       /\ IF work.call = "GenProof"
          THEN FreshRequests # {} /\ r = CHOOSE x \in FreshRequests : TRUE
          ELSE r = work.uuid
       /\ ClientLocks(work.call, r)
  /\ at' = "call"
  /\ UNCHANGED <<work, bStarted, misused, streamVars, wireVars, aggVars,
                 history>>

Said ==
  CASE client.call = "GenProof"  -> "RESULT_OK"
    [] client.call = "GetStatus" -> IF toldIdle' THEN "IDLE" ELSE "COMPUTING"
    [] client.call = "GetProof"  -> answer'[client.uuid]
    [] client.call = "Cancel"    ->
         IF client.uuid \in clientSaw.known /\ ~bCompleted[client.uuid]
         THEN "RESULT_OK" ELSE "RESULT_ERROR"

\* The call ends, and its result is put into the message that will be written.
StreamServes ==
  /\ at = "call"
  /\ ClientServes
  /\ jobOf' = IF client.call = "GenProof"
              THEN [jobOf EXCEPT ![client.uuid] = work.job] ELSE jobOf
  /\ work' = Reply(work, client.uuid, Said)
  /\ at' = "write"
  /\ UNCHANGED <<bStarted, misused, streamVars, wireVars, aggVars,
                 computed, faults>>

\* The checks fail before the prover is locked.
StreamRejects ==
  /\ at = "serve"
  /\ work.call = "Invalid"
  /\ work' = Reply(work, NoRequest, "RESULT_ERROR")
  /\ at' = "write"
  /\ UNCHANGED <<queueVars, bStarted, misused, streamVars, wireVars,
                 aggVars, history>>

\* Write() to a silent stream succeeds, and nobody gets the message.
Writes ==
  /\ at = "write"
  /\ link \in {"up", "silent"}
  /\ WatchdogRestart
  /\ toAggregator' = IF link = "up" THEN work ELSE NoMessage
  /\ work' = NoMessage
  /\ at' = "read"
  /\ UNCHANGED <<queueVars, streamVars, link, toProver, aggVars, history>>

\* Mutant: the loop is left without stopping the watchdog.
LeavesWatchdogRunning ==
  /\ at \in {"read", "write"}
  /\ link = "broken"
  /\ WatchdogRestart
  /\ work' = NoMessage
  /\ at' = "sleep"
  /\ UNCHANGED <<queueVars, streamVars, wireVars, aggVars, history>>

\* Read() or Write() fails.
FindsItBroken ==
  /\ at \in {"read", "write"}
  /\ link = "broken"
  /\ WatchdogStop
  /\ work' = NoMessage
  /\ at' = "sleep"
  /\ UNCHANGED <<queueVars, streamVars, wireVars, aggVars, history>>

WakesUp ==
  /\ at = "sleep"
  /\ at' = "connect"
  /\ UNCHANGED <<queueVars, work, bStarted, misused, streamVars, wireVars,
                 aggVars, history>>

-----------------------------------------------------------------------------
(* The network and the aggregator. *)

Troubles == faults + Cardinality(everFailed)

\* The stream breaks, or goes silent, and what is on its way is lost.
LinkFails ==
  /\ link = "up"
  /\ Troubles < workload.troubles /\ faults' = faults + 1
  /\ link' \in {"broken", "silent"}
  /\ toProver' = NoMessage /\ toAggregator' = NoMessage
  /\ idle' = FALSE
  /\ UNCHANGED <<queueVars, threadVars, asked, got, jobOf, computed>>

Sends(call, j, r) ==
  /\ link = "up"
  /\ toProver = NoMessage /\ work = NoMessage /\ toAggregator = NoMessage
  /\ toProver' = Message(call, j, r)
  /\ UNCHANGED <<queueVars, threadVars, link, toAggregator, aggVars>>

Wanted(j) == j \in workload.jobs /\ got[j] = NoRequest

\* When it has a job to give, or nothing else to do.
AsksStatus ==
  /\ \/ ~idle /\ \E j \in Jobs : Wanted(j) /\ asked[j] = NoRequest
     \/ \A j \in Jobs : ~Wanted(j)
  /\ Sends("GetStatus", NoJob, NoRequest)
  /\ UNCHANGED history

AsksFor(j) ==
  /\ idle /\ Wanted(j) /\ asked[j] = NoRequest
  /\ Sends("GenProof", j, NoRequest)
  /\ UNCHANGED history

Polls(j) ==
  /\ Wanted(j) /\ asked[j] # NoRequest
  /\ Sends("GetProof", j, asked[j])
  /\ UNCHANGED history

\* The aggregator may change its mind, or make a mistake.
Errs(j) ==
  /\ Troubles < workload.troubles /\ faults' = faults + 1
  /\ \/ asked[j] # NoRequest /\ Sends("Cancel", j, asked[j])
     \/ Sends("Invalid", NoJob, NoRequest)
  /\ UNCHANGED <<jobOf, computed>>

\* A job whose request is unknown, was cancelled or ended with an error is given
\* again.
Hears ==
  /\ toAggregator # NoMessage
  /\ LET m == toAggregator
         forgets == \/ /\ m.call = "GetProof"
                       /\ m.said \in {"RESULT_ERROR", "RESULT_COMPLETED_ERROR"}
                    \/ m.call = "Cancel" /\ m.said = "RESULT_OK"
     IN /\ idle' = (m.said = "IDLE" \/ (idle /\ m.call # "GenProof"))
        /\ asked' = CASE m.call = "GenProof" -> [asked EXCEPT ![m.job] = m.uuid]
                      [] forgets -> [asked EXCEPT ![m.job] = NoRequest]
                      [] OTHER -> asked
        /\ got' = IF m.said = "RESULT_COMPLETED_OK"
                  THEN [got EXCEPT ![m.job] = m.uuid] ELSE got
  /\ toAggregator' = NoMessage
  /\ UNCHANGED <<queueVars, threadVars, link, toProver, history>>

\* The prover thread.
ProverRuns ==
  /\ ProverThread
  /\ everProcessed' = everProcessed \cup ToSet(processed')
  /\ everFailed' = everFailed \cup failed'
  /\ failed' # failed => Troubles < workload.troubles
  /\ UNCHANGED <<threadVars, wireVars, aggVars, jobOf, faults>>

StreamThread ==
  \/ Connects \/ ReachesMaxStreams \/ Reads \/ StreamServes \/ StreamRejects
  \/ Writes \/ FindsItBroken \/ WakesUp \/ WatchdogExits

Aggregator == AsksStatus \/ (\E j \in Jobs : AsksFor(j) \/ Polls(j)) \/ Hears

StreamNext ==
  \/ StreamThread \/ StreamLocks
  \/ ProverRuns
  \/ Aggregator
  \/ LinkFails
  \/ \E j \in Jobs : Errs(j)

\* The threads run, the mutex is not refused for ever, a message that is not
\* lost arrives, and the aggregator keeps asking for what it wants.
StreamFairness ==
  /\ WF_allVars(ProverRuns)
  /\ SF_allVars(ProverLocks /\ ProverRuns)
  /\ SF_allVars(ProverProcesses /\ ProverRuns)
  /\ WF_allVars(StreamThread)
  /\ SF_allVars(StreamLocks)
  /\ WF_allVars(Aggregator)

StreamSpec == StreamInit /\ [][StreamNext]_allVars /\ StreamFairness

-----------------------------------------------------------------------------
(* Properties. *)

\* A proof that reaches the aggregator is the proof of the job it asked for, and
\* was computed without an error by a process that is still running or by an
\* earlier one.
ProofsAreOfTheirJobs ==
  \A j \in Jobs :
    got[j] # NoRequest => /\ jobOf[got[j]] = j
                          /\ got[j] \in everProcessed \ everFailed

RequestsFor(j) == {r \in Requests : jobOf[r] = j}

\* A job is submitted again only after something went wrong outside or its
\* computation failed: no other answer of the prover makes an aggregator that
\* follows it ask twice for the same proof.
WorkIsRepeatedOnlyAfterFaults ==
  \A j \in Jobs :
    Cardinality(RequestsFor(j))
      <= 1 + faults + Cardinality(RequestsFor(j) \cap everFailed)

\* The loop never calls the watchdog out of turn, which would end the process:
\* one start() for each stream and one stop() for each way out of its loop.
WatchdogIsUsedInTurn == ~misused

\* Whatever becomes of the streams, every job is proved and its proof delivered
\* in the end, as long as its computation does not fail for ever: a broken stream
\* is opened again, a silent one is ended by the watchdog, and what failed or what
\* a process took with it is submitted again.
EveryJobIsProved == <>(\A j \in workload.jobs : got[j] # NoRequest)
=============================================================================
