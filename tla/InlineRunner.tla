---------------------------- MODULE InlineRunner ----------------------------
(***************************************************************************)
(* The LITE-mode job runner of the worker (apps/worker/src/runner/         *)
(* inline.ts), at the granularity of JavaScript tasks and microtasks: one  *)
(* action is one synchronous stretch of code, so everything between two    *)
(* awaits happens in one step and anything may happen between two steps.   *)
(*                                                                         *)
(* Two mechanisms share one runner: interval timers with a per-name        *)
(* overlap guard (schedule), and one serial FIFO over all queue names      *)
(* (enqueue, process, the drain loop).  stop() waits for both.             *)
(***************************************************************************)
EXTENDS Naturals, Sequences

CONSTANTS Names,       \* names given to schedule()
          QueueNames,  \* names given to enqueue() and process()
          MaxJobs,     \* bound: how many times enqueue() is called
          NoItem       \* no job is being handled

ASSUME RunnerAssumption == /\ MaxJobs \in Nat
                           /\ NoItem \notin [id : 1..MaxJobs, name : QueueNames]

VARIABLES
  scheduled,     \* keys of the scheduled Map
  timers,        \* names whose entry.timer is set
  running,       \* entry.running: the overlap guard's flag
  invocations,   \* how many calls of entry.fn have not settled
  handlers,      \* keys of the handlers Map
  fifo,          \* QueueItem[]
  draining,      \* this.draining
  drainer,       \* where the drain loop is: off, examine, handling, returned
  current,       \* the item whose handler the loop awaits
  nextJobId,     \* jobIdCounter
  started,
  stopped,
  stopper,       \* where stop() is: none, awaitJobs, awaitDrain, resolved
  awaited,       \* names whose inFlight promise stop() still awaits
  awaitedDrain,  \* the drainComplete promise stop() read has not settled
  begun,         \* history: items whose handler was called, in order
  missedKick,    \* history: a kick came while the loop had returned
  revived        \* history: after stop() looked, a call set work going again

timerVars == <<scheduled, timers, running, invocations>>
queueVars == <<handlers, fifo, draining, drainer, current, nextJobId, begun, missedKick>>
stopVars  == <<stopped, stopper, awaited, awaitedDrain>>
vars == <<timerVars, queueVars, stopVars, started, revived>>

Item == [id : 1..MaxJobs, name : QueueNames]

Init == /\ scheduled = {} /\ timers = {}
        /\ running = [n \in Names |-> FALSE]
        /\ invocations = [n \in Names |-> 0]
        /\ handlers = {} /\ fifo = <<>>
        /\ draining = FALSE /\ drainer = "off" /\ current = NoItem
        /\ nextJobId = 0
        /\ started = FALSE /\ stopped = FALSE
        /\ stopper = "none" /\ awaited = {} /\ awaitedDrain = FALSE
        /\ begun = <<>> /\ missedKick = FALSE /\ revived = FALSE

-----------------------------------------------------------------------------
(* The scheduled half.                                                     *)

\* schedule() of a name already present throws, so it changes nothing.
Schedule(n) ==
  /\ n \notin scheduled
  /\ scheduled' = scheduled \union {n}
  /\ timers' = IF started /\ ~stopped THEN timers \union {n} ELSE timers
  /\ UNCHANGED <<running, invocations, queueVars, stopVars, started, revived>>

\* start() looks at started only: after stop() it sets the timers all the same.
Start ==
  /\ ~started
  /\ started' = TRUE
  /\ timers' = scheduled
  /\ revived' = (revived \/ stopped)
  /\ UNCHANGED <<scheduled, running, invocations, queueVars, stopVars>>

\* Faulty variant: the overlap guard is forgotten.
TickUnguarded(n) ==
  /\ n \in timers
  /\ invocations[n] < 3
  /\ running' = [running EXCEPT ![n] = TRUE]
  /\ invocations' = [invocations EXCEPT ![n] = @ + 1]
  /\ UNCHANGED <<scheduled, timers, queueVars, stopVars, started, revived>>

\* The setInterval callback.  While the flag is up the tick is skipped.
Tick(n) ==
  /\ n \in timers
  /\ ~running[n]
  /\ running' = [running EXCEPT ![n] = TRUE]
  /\ invocations' = [invocations EXCEPT ![n] = @ + 1]
  /\ UNCHANGED <<scheduled, timers, queueVars, stopVars, started, revived>>

\* Faulty variant: the flag comes down in .then, so a rejection leaves it up.
SettleOnSuccessOnly(n) ==
  /\ invocations[n] > 0
  /\ invocations' = [invocations EXCEPT ![n] = @ - 1]
  /\ \/ running' = [running EXCEPT ![n] = FALSE] /\ awaited' = awaited \ {n}
     \/ UNCHANGED <<running, awaited>>
  /\ UNCHANGED <<scheduled, timers, queueVars, stopped, stopper, awaitedDrain,
                 started, revived>>

\* entry.fn() settles, fulfilled or rejected: .catch, then .finally.
SettleInvocation(n) ==
  /\ invocations[n] > 0
  /\ invocations' = [invocations EXCEPT ![n] = @ - 1]
  /\ running' = [running EXCEPT ![n] = FALSE]
  /\ awaited' = awaited \ {n}
  /\ UNCHANGED <<scheduled, timers, queueVars, stopped, stopper, awaitedDrain,
                 started, revived>>

-----------------------------------------------------------------------------
(* The queue half.                                                         *)

HeadIsRunnable(q, hs) == q # <<>> /\ Head(q).name \in hs

\* One turn of drainLoop over queue q and handlers hs: it takes the head when
\* there is one and its name has a handler, and otherwise returns.
LoopTurn(q, hs) ==
  \/ /\ HeadIsRunnable(q, hs)
     /\ fifo' = Tail(q)
     /\ current' = Head(q)
     /\ begun' = Append(begun, Head(q))
     /\ drainer' = "handling"
  \/ /\ ~HeadIsRunnable(q, hs)
     /\ fifo' = q
     /\ drainer' = "returned"
     /\ UNCHANGED <<current, begun>>

\* Faulty variant: every kick runs a loop of its own.
KickDrainUnguarded(q, hs) ==
  /\ draining' = TRUE
  /\ UNCHANGED <<missedKick, revived>>
  /\ LoopTurn(q, hs)

\* kickDrain(), on the caller's stack, once q and hs are in place.  A kick while
\* draining is TRUE does nothing, even when the loop has already returned and only
\* the .finally that lowers the flag is outstanding.
KickDrain(q, hs) ==
  \/ /\ draining
     /\ fifo' = q
     /\ missedKick' = (missedKick \/ drainer = "returned")
     /\ UNCHANGED <<draining, drainer, current, begun, revived>>
  \/ /\ ~draining
     /\ draining' = TRUE
     /\ missedKick' = FALSE
     /\ revived' = (revived \/ stopper \in {"awaitDrain", "resolved"})
     /\ LoopTurn(q, hs)

Enqueue(name) ==
  /\ nextJobId < MaxJobs
  /\ nextJobId' = nextJobId + 1
  /\ KickDrain(Append(fifo, [id |-> nextJobId + 1, name |-> name]), handlers)
  /\ UNCHANGED <<timerVars, handlers, stopVars, started>>

\* Faulty variant: registering a handler does not kick the drain.
ProcessWithoutKick(name) ==
  /\ handlers' = handlers \union {name}
  /\ UNCHANGED <<timerVars, fifo, draining, drainer, current, nextJobId, begun,
                 missedKick, stopVars, started, revived>>

Process(name) ==
  /\ handlers' = handlers \union {name}
  /\ KickDrain(fifo, handlers \union {name})
  /\ UNCHANGED <<timerVars, nextJobId, stopVars, started>>

\* The awaited handler settles; a rejection is caught and logged.
SettleHandler ==
  /\ drainer = "handling"
  /\ drainer' = "examine"
  /\ current' = NoItem
  /\ UNCHANGED <<timerVars, handlers, fifo, draining, nextJobId, begun, missedKick,
                 stopVars, started, revived>>

\* Faulty variant: one job per kick, the loop returns after its first await.
ResumeLoopOnce ==
  /\ drainer = "examine"
  /\ drainer' = "returned"
  /\ UNCHANGED <<timerVars, handlers, fifo, draining, current, nextJobId, begun,
                 missedKick, stopVars, started, revived>>

\* The loop resumes after its await and takes another turn.
ResumeLoop ==
  /\ drainer = "examine"
  /\ LoopTurn(fifo, handlers)
  /\ UNCHANGED <<timerVars, handlers, draining, nextJobId, missedKick, stopVars,
                 started, revived>>

\* drainLoop().finally(...): a microtask after the loop has returned.
DrainFinally ==
  /\ drainer = "returned"
  /\ drainer' = "off"
  /\ draining' = FALSE
  /\ awaitedDrain' = FALSE
  /\ UNCHANGED <<timerVars, handlers, fifo, current, nextJobId, begun, missedKick,
                 stopped, stopper, awaited, started, revived>>

-----------------------------------------------------------------------------
(* stop(), called once: the worker's shutdown is guarded by shuttingDown.  *)

Stop ==
  /\ stopper = "none"
  /\ stopped' = TRUE
  /\ timers' = {}
  /\ awaited' = {n \in Names : running[n]}
  /\ stopper' = "awaitJobs"
  /\ UNCHANGED <<scheduled, running, invocations, queueVars, awaitedDrain, started,
                 revived>>

\* Faulty variant: stop() waits for the scheduled jobs and not for the drain.
StopIgnoresDrain ==
  /\ stopper = "awaitJobs"
  /\ awaited = {}
  /\ awaitedDrain' = FALSE
  /\ stopper' = "awaitDrain"
  /\ UNCHANGED <<timerVars, queueVars, stopped, awaited, started, revived>>

\* Promise.all over the inFlight promises has settled; drainComplete is read now.
StopReadsDrain ==
  /\ stopper = "awaitJobs"
  /\ awaited = {}
  /\ awaitedDrain' = draining
  /\ stopper' = "awaitDrain"
  /\ UNCHANGED <<timerVars, queueVars, stopped, awaited, started, revived>>

StopResolves ==
  /\ stopper = "awaitDrain"
  /\ ~awaitedDrain
  /\ stopper' = "resolved"
  /\ UNCHANGED <<timerVars, queueVars, stopped, awaited, awaitedDrain, started, revived>>

-----------------------------------------------------------------------------
Next == \/ \E n \in Names : Schedule(n) \/ Tick(n) \/ SettleInvocation(n)
        \/ \E name \in QueueNames : Enqueue(name) \/ Process(name)
        \/ Start
        \/ SettleHandler \/ ResumeLoop \/ DrainFinally
        \/ Stop \/ StopReadsDrain \/ StopResolves

\* The event loop runs every pending continuation, and every job and handler of the
\* worker does a bounded amount of I/O and settles.  Callers owe nothing.
Fairness == /\ \A n \in Names : WF_vars(SettleInvocation(n))
            /\ WF_vars(SettleHandler) /\ WF_vars(ResumeLoop) /\ WF_vars(DrainFinally)
            /\ WF_vars(StopReadsDrain) /\ WF_vars(StopResolves)

Spec == Init /\ [][Next]_vars

FairSpec == Spec /\ Fairness

-----------------------------------------------------------------------------
(* Properties.                                                             *)

TypeOK ==
  /\ scheduled \subseteq Names /\ timers \subseteq scheduled
  /\ running \in [Names -> BOOLEAN] /\ invocations \in [Names -> Nat]
  /\ handlers \subseteq QueueNames
  /\ fifo \in Seq(Item) /\ begun \in Seq(Item)
  /\ draining \in BOOLEAN /\ drainer \in {"off", "examine", "handling", "returned"}
  /\ current \in Item \union {NoItem}
  /\ nextJobId \in 0..MaxJobs
  /\ started \in BOOLEAN /\ stopped \in BOOLEAN
  /\ stopper \in {"none", "awaitJobs", "awaitDrain", "resolved"}
  /\ awaited \subseteq Names /\ awaitedDrain \in BOOLEAN
  /\ missedKick \in BOOLEAN /\ revived \in BOOLEAN

\* A scheduled job never runs two overlapping copies of itself, whatever the timer
\* and the job's duration do (the overlap guard, inline.ts:6-10).
OneInvocationPerName == \A n \in Names : invocations[n] <= 1

\* The FIFO half is a serial queue: jobs are begun in the order of their enqueue,
\* none twice, and never two at a time, with one drain loop shared by all names.
Queue == INSTANCE JobQueue WITH Items <- Item, queue <- fifo, active <- current

ImplementsJobQueue == Queue!Spec

\* Once stop() has resolved no scheduled job and no queued job is in progress and no
\* timer is set, unless a later call started work again (inline.ts:22-24).
StopQuiesces ==
  stopper = "resolved" /\ ~revived =>
     /\ timers = {}
     /\ \A n \in Names : invocations[n] = 0
     /\ drainer = "off"

Runnable(i) == i <= Len(fifo) /\ \A k \in 1..i : fifo[k].name \in handlers

\* The drain never goes to sleep on a job it could run: an idle runner whose head has
\* a handler has ignored a kick that came while its loop had already returned.
SleepsOnlyOnMissedKick == ~draining /\ HeadIsRunnable(fifo, handlers) => missedKick

HasBegun(id) == \E k \in 1..Len(begun) : begun[k].id = id
Waiting(id)  == \E i \in 1..Len(fifo) : fifo[i].id = id /\ Runnable(i)

\* A queued job whose name, and every name ahead of it, has a handler is eventually
\* handled, unless a kick is ignored in that window.
ServedUnlessKickMissed ==
  \A id \in 1..MaxJobs : Waiting(id) ~> (HasBegun(id) \/ missedKick)

\* stop() always resolves.
StopReturns == (stopper = "awaitJobs") ~> (stopper = "resolved")

\* As inline.ts:15-20 has it: a job waits until a handler is registered and the next
\* drain runs, triggered by enqueue() and by process(), and is never dropped.
NoJobIsStranded == \A id \in 1..MaxJobs : Waiting(id) ~> HasBegun(id)
=============================================================================
