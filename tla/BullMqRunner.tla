----------------------------- MODULE BullMqRunner -----------------------------
(***************************************************************************)
(* The FULL-mode job runner (apps/worker/src/runner/bullmq.ts), one action *)
(* per synchronous stretch: calls of start() and stop() may overlap each   *)
(* other and calls of schedule(), process() and enqueue().                 *)
(*                                                                         *)
(* Of BullMQ itself a Queue and a Worker are an id that is open until its  *)
(* close() resolves; what they do with jobs is left out.                   *)
(***************************************************************************)
EXTENDS Naturals, Sequences, FiniteSets

CONSTANTS
    QueueNames,
    MaxStarts, MaxStops,     \* bound: calls of start() and of stop()
    MaxSchedules,            \* bound: calls of schedule()
    MaxDirect,               \* bound: calls of process() and enqueue()
    MaxRedisFaults           \* bound: upserts and close() that reject

ASSUME BullMqAssumption ==
    /\ MaxStarts \in Nat /\ MaxStops \in Nat
    /\ MaxSchedules \in Nat /\ MaxDirect \in Nat /\ MaxRedisFaults \in Nat

VARIABLES
    scheduledRegistrations,  \* names, in the order of schedule()
    processHandlers,         \* names given to process()
    started,
    queues, workers,         \* the two Maps: sets of [name, id], a name once
    openQueues, openWorkers, \* those whose close() has not resolved
    schedulers,              \* Redis: names with a job scheduler
    starts,                  \* the calls made: [at, k], k the registration it is at
    stops,                   \* the calls made: [at, closing]
    wired,                   \* history: a start() resolved, no stop() half done or since
    strayed,                 \* history: something was opened that a stop() under way
                             \* would not see
    runnerBounds             \* [direct, faults]

mapVars == <<queues, workers, openQueues, openWorkers>>
callVars == <<starts, stops>>
runnerVars ==
    <<scheduledRegistrations, processHandlers, started, mapVars, schedulers, callVars, wired,
      strayed, runnerBounds>>

BullMqInit ==
    /\ scheduledRegistrations = <<>> /\ processHandlers = {}
    /\ started = FALSE
    /\ queues = {} /\ workers = {} /\ openQueues = {} /\ openWorkers = {}
    /\ schedulers = {}
    /\ starts = <<>> /\ stops = <<>>
    /\ wired = FALSE /\ strayed = FALSE
    /\ runnerBounds = [direct |-> 0, faults |-> 0]

Stopping(phases) == \E c \in DOMAIN stops : stops[c].at \in phases

Names(S) == {x.name : x \in S}

Used ==
    {x.id : x \in (UNION {queues, workers, openQueues, openWorkers})
                    \cup (UNION {stops[c].closing : c \in DOMAIN stops})}
NewId == CHOOSE i \in 1..Cardinality(Used) + 1 : i \notin Used

\* Faulty variant: a worker is made whether there is one or not.
EveryName(served) == served

Unserved(served) == served \ Names(workers)

\* The queues of names asked for and the workers of names wired: only what
\* the maps lack is made, and what is made while a stop() has already taken
\* its list is not on it.
Make(queued, served) ==
    LET newQueues == {[name |-> n, id |-> NewId] : n \in queued \ Names(queues)}
        newWorkers == {[name |-> n, id |-> NewId] : n \in Unserved(served)}
    IN  /\ queues' = queues \cup newQueues /\ openQueues' = openQueues \cup newQueues
        /\ workers' = workers \cup newWorkers /\ openWorkers' = openWorkers \cup newWorkers
        /\ strayed' = (\/ strayed
                       \/ (newQueues # {} /\ Stopping({"queues"}))
                       \/ (newWorkers # {} /\ Stopping({"workers", "queues"})))

RedisFault == runnerBounds.faults < MaxRedisFaults

-----------------------------------------------------------------------------
\* schedule() throws once the runner is started.
Schedule(n) ==
    /\ ~started /\ Len(scheduledRegistrations) < MaxSchedules
    /\ scheduledRegistrations' = Append(scheduledRegistrations, n)
    /\ UNCHANGED <<processHandlers, started, mapVars, schedulers, callVars, wired, strayed,
                   runnerBounds>>

DirectCall ==
    /\ runnerBounds.direct < MaxDirect
    /\ runnerBounds' = [runnerBounds EXCEPT !.direct = @ + 1]

\* A worker that is there keeps its handler.
Process(n) ==
    /\ DirectCall
    /\ processHandlers' = processHandlers \cup {n}
    /\ IF started THEN Make({}, {n}) ELSE UNCHANGED <<mapVars, strayed>>
    /\ UNCHANGED <<scheduledRegistrations, started, schedulers, callVars, wired>>

\* enqueue() throws before the runner is started.
Enqueue(n) ==
    /\ started /\ DirectCall
    /\ Make({n}, {})
    /\ UNCHANGED <<scheduledRegistrations, processHandlers, started, schedulers, callVars,
                   wired>>

-----------------------------------------------------------------------------
(* start().                                                                *)

\* The check of started comes before the import is awaited.
Start ==
    /\ Len(starts) < MaxStarts
    /\ starts' = Append(starts, [at |-> IF started THEN "resolved" ELSE "import", k |-> 0])
    /\ UNCHANGED <<scheduledRegistrations, processHandlers, started, mapVars, schedulers, stops,
                   wired, strayed, runnerBounds>>

\* On to registration k, its queue made and its upsert awaited, with the
\* names in served wired before; past the last, the handlers that are left.
GoOn(c, k, served) ==
    /\ IF k <= Len(scheduledRegistrations)
       THEN /\ Make({scheduledRegistrations[k]}, served)
            /\ starts' = [starts EXCEPT ![c] = [at |-> "upsert", k |-> k]]
            /\ UNCHANGED wired
       ELSE /\ Make({}, served \cup processHandlers)
            /\ starts' = [starts EXCEPT ![c] = [at |-> "resolved", k |-> k]]
            /\ wired' = ~Stopping({"workers", "queues", "rejected"})

Imported(c) ==
    /\ starts[c].at = "import"
    /\ started' = TRUE
    /\ GoOn(c, 1, {})
    /\ UNCHANGED <<scheduledRegistrations, processHandlers, schedulers, stops, runnerBounds>>

UpsertReturns(c) ==
    /\ starts[c].at = "upsert"
    /\ LET n == scheduledRegistrations[starts[c].k] IN
       schedulers' = schedulers \cup {n} /\ GoOn(c, starts[c].k + 1, {n})
    /\ UNCHANGED <<scheduledRegistrations, processHandlers, started, stops, runnerBounds>>

\* Redis answers with an error: start() rejects, started as it is.
UpsertRejects(c) ==
    /\ starts[c].at = "upsert" /\ RedisFault
    /\ runnerBounds' = [runnerBounds EXCEPT !.faults = @ + 1]
    /\ starts' = [starts EXCEPT ![c].at = "rejected"]
    /\ UNCHANGED <<scheduledRegistrations, processHandlers, started, mapVars, schedulers, stops,
                   wired, strayed>>

-----------------------------------------------------------------------------
(* stop().                                                                 *)

Stop ==
    /\ Len(stops) < MaxStops
    /\ stops' = Append(stops, IF started THEN [at |-> "workers", closing |-> workers]
                              ELSE [at |-> "resolved", closing |-> {}])
    /\ wired' = (wired /\ ~started)
    /\ UNCHANGED <<scheduledRegistrations, processHandlers, started, mapVars, schedulers, starts,
                   strayed, runnerBounds>>

\* Every worker on the list is closed; then the list of queues is taken.
WorkersClosed(c) ==
    /\ stops[c].at = "workers"
    /\ openWorkers' = openWorkers \ stops[c].closing
    /\ stops' = [stops EXCEPT ![c] = [at |-> "queues", closing |-> queues]]
    /\ UNCHANGED <<scheduledRegistrations, processHandlers, started, queues, workers, openQueues,
                   schedulers, starts, wired, strayed, runnerBounds>>

\* Both maps are emptied, whatever came into them since the lists were taken.
QueuesClosed(c) ==
    /\ stops[c].at = "queues"
    /\ openQueues' = openQueues \ stops[c].closing
    /\ queues' = {} /\ workers' = {}
    /\ started' = FALSE
    /\ stops' = [stops EXCEPT ![c] = [at |-> "resolved", closing |-> {}]]
    /\ strayed' = (strayed \/ \E s \in DOMAIN starts : starts[s].at = "upsert")
    /\ UNCHANGED <<scheduledRegistrations, processHandlers, openWorkers, schedulers, starts,
                   wired, runnerBounds>>

\* A close() rejects: the others go on closing, the maps stay as they are.
CloseRejects(c) ==
    /\ stops[c].at \in {"workers", "queues"} /\ RedisFault
    /\ runnerBounds' = [runnerBounds EXCEPT !.faults = @ + 1]
    /\ \E closed \in SUBSET stops[c].closing :
           IF stops[c].at = "workers"
           THEN openWorkers' = openWorkers \ closed /\ UNCHANGED openQueues
           ELSE openQueues' = openQueues \ closed /\ UNCHANGED openWorkers
    /\ stops' = [stops EXCEPT ![c] = [at |-> "rejected", closing |-> {}]]
    /\ UNCHANGED <<scheduledRegistrations, processHandlers, started, queues, workers, schedulers,
                   starts, wired, strayed>>

BullMqNext ==
    \/ \E n \in QueueNames : Schedule(n) \/ Process(n) \/ Enqueue(n)
    \/ Start \/ \E c \in DOMAIN starts : Imported(c) \/ UpsertReturns(c) \/ UpsertRejects(c)
    \/ Stop \/ \E c \in DOMAIN stops : WorkersClosed(c) \/ QueuesClosed(c) \/ CloseRejects(c)

BullMqSpec == BullMqInit /\ [][BullMqNext]_runnerVars

-----------------------------------------------------------------------------
OncePerName(S) == \A x, y \in S : x.name = y.name => x = y

\* Unless a stop() overlapped with something that opens them, a name never
\* has two open queues or two workers that take its jobs, ...
NoSecondWorker == OncePerName(openQueues) /\ OncePerName(openWorkers)

\* ... nothing is open of a runner that is not started, ...
StoppedIsClosed == ~started => openQueues = {} /\ openWorkers = {}

\* ... and a start() that resolved has given every registration and handler
\* a worker, and every registration its scheduler, two starts at once included.
StartWires ==
    wired =>
        /\ {scheduledRegistrations[k] : k \in DOMAIN scheduledRegistrations} \cup processHandlers
               \subseteq Names(workers \cap openWorkers)
        /\ \A k \in DOMAIN scheduledRegistrations : scheduledRegistrations[k] \in schedulers

\* One worker per name while the runner is started and none when it is not.
OneWorkerPerName == ~strayed => NoSecondWorker /\ StoppedIsClosed /\ StartWires
=============================================================================
