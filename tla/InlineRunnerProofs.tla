------------------------- MODULE InlineRunnerProofs -------------------------
(* Proofs about the inline runner, for any sets of names and any number of  *)
(* enqueues.                                                                *)
EXTENDS InlineRunner, SequenceTheorems, TLAPS

-----------------------------------------------------------------------------
(* The two operators of the drain loop.                                    *)

\* A turn of the loop keeps the queue well typed; it begins the head or returns.
LEMMA LoopTurnType ==
  ASSUME NEW q \in Seq(Item), NEW hs, begun \in Seq(Item),
         current \in Item \union {NoItem}, LoopTurn(q, hs)
  PROVE  /\ fifo' \in Seq(Item) /\ begun' \in Seq(Item)
         /\ current' \in Item \union {NoItem}
         /\ drainer' \in {"handling", "returned"}
<1>1. CASE HeadIsRunnable(q, hs)
  <2>1. q # <<>>
    BY <1>1 DEF HeadIsRunnable
  <2>2. Head(q) \in Item /\ Tail(q) \in Seq(Item)
    BY <2>1, HeadTailProperties
  <2>3. Append(begun, Head(q)) \in Seq(Item)
    BY <2>2, AppendProperties
  <2> QED
    BY <1>1, <2>2, <2>3 DEF LoopTurn
<1>2. CASE ~HeadIsRunnable(q, hs)
  BY <1>2 DEF LoopTurn
<1> QED
  BY <1>1, <1>2

\* A kick keeps the queue well typed, whether it is ignored or starts the loop.
LEMMA KickDrainType ==
  ASSUME TypeOK, NEW q \in Seq(Item), NEW hs, KickDrain(q, hs)
  PROVE  /\ fifo' \in Seq(Item) /\ begun' \in Seq(Item)
         /\ current' \in Item \union {NoItem}
         /\ drainer' \in {"off", "examine", "handling", "returned"}
         /\ draining' \in BOOLEAN /\ missedKick' \in BOOLEAN /\ revived' \in BOOLEAN
<1> USE DEF TypeOK
<1>1. CASE draining
  BY <1>1 DEF KickDrain
<1>2. CASE ~draining
  BY <1>2, LoopTurnType DEF KickDrain
<1> QED
  BY <1>1, <1>2

\* Enqueue appends an item of the right type.
LEMMA NewItem ==
  ASSUME TypeOK, nextJobId < MaxJobs, NEW name \in QueueNames
  PROVE  /\ nextJobId + 1 \in 1..MaxJobs
         /\ [id |-> nextJobId + 1, name |-> name] \in Item
         /\ Append(fifo, [id |-> nextJobId + 1, name |-> name]) \in Seq(Item)
<1>1. nextJobId + 1 \in 1..MaxJobs
  BY RunnerAssumption DEF TypeOK
<1>2. [id |-> nextJobId + 1, name |-> name] \in Item
  BY <1>1 DEF Item
<1> QED
  BY <1>1, <1>2, AppendProperties DEF TypeOK

-----------------------------------------------------------------------------
\* Every variable keeps its type in every reachable state, for any constants.
THEOREM TypeCorrect == Spec => []TypeOK
<1>1. Init => TypeOK
  <2>1. <<>> \in Seq(Item)
    BY EmptySeq
  <2>2. 0 \in 0..MaxJobs
    BY RunnerAssumption
  <2>3. ASSUME Init
        PROVE  /\ fifo \in Seq(Item) /\ begun \in Seq(Item) /\ nextJobId \in 0..MaxJobs
    BY <2>1, <2>2, <2>3 DEF Init
  <2>4. ASSUME Init
        PROVE  /\ running \in [Names -> BOOLEAN] /\ invocations \in [Names -> Nat]
    BY <2>4 DEF Init
  <2> QED
    BY <2>3, <2>4 DEF Init, TypeOK
<1>2. TypeOK /\ [Next]_vars => TypeOK'
  <2> SUFFICES ASSUME TypeOK, [Next]_vars
               PROVE  TypeOK'
    OBVIOUS
  <2> USE DEF timerVars, queueVars, stopVars
  <2>1. ASSUME NEW n \in Names, Schedule(n) PROVE TypeOK'
    BY <2>1 DEF TypeOK, Schedule
  <2>2. ASSUME NEW n \in Names, Tick(n) PROVE TypeOK'
    BY <2>2 DEF TypeOK, Tick
  <2>3. ASSUME NEW n \in Names, SettleInvocation(n) PROVE TypeOK'
    BY <2>3 DEF TypeOK, SettleInvocation
  <2>4. ASSUME NEW name \in QueueNames, Enqueue(name) PROVE TypeOK'
    <3>1. nextJobId' \in 0..MaxJobs
      BY <2>4, NewItem DEF Enqueue, TypeOK
    <3>2. KickDrain(Append(fifo, [id |-> nextJobId + 1, name |-> name]), handlers)
      BY <2>4 DEF Enqueue
    <3>3. Append(fifo, [id |-> nextJobId + 1, name |-> name]) \in Seq(Item)
      BY <2>4, NewItem DEF Enqueue
    <3> HIDE DEF queueVars
    <3>4. UNCHANGED <<timerVars, handlers, stopVars, started>>
      BY <2>4 DEF Enqueue
    <3> QED
      BY <3>1, <3>2, <3>3, <3>4, KickDrainType DEF TypeOK
  <2>5. ASSUME NEW name \in QueueNames, Process(name) PROVE TypeOK'
    <3>1. KickDrain(fifo, handlers \union {name})
      BY <2>5 DEF Process
    <3>2. UNCHANGED <<timerVars, nextJobId, stopVars, started>>
      BY <2>5 DEF Process
    <3>3. handlers' \subseteq QueueNames
      BY <2>5 DEF Process, TypeOK
    <3> QED
      BY <3>1, <3>2, <3>3, KickDrainType DEF TypeOK
  <2>6. CASE Start
    BY <2>6 DEF TypeOK, Start
  <2>7. CASE SettleHandler
    BY <2>7 DEF TypeOK, SettleHandler
  <2>8. CASE ResumeLoop
    <3>1. LoopTurn(fifo, handlers)
      BY <2>8 DEF ResumeLoop
    <3>2. UNCHANGED <<timerVars, handlers, draining, nextJobId, missedKick, stopVars,
                      started, revived>>
      BY <2>8 DEF ResumeLoop
    <3> QED
      BY <3>1, <3>2, LoopTurnType DEF TypeOK
  <2>9. CASE DrainFinally
    BY <2>9 DEF TypeOK, DrainFinally
  <2>10. CASE Stop
    BY <2>10 DEF TypeOK, Stop
  <2>11. CASE StopReadsDrain
    BY <2>11 DEF TypeOK, StopReadsDrain
  <2>12. CASE StopResolves
    BY <2>12 DEF TypeOK, StopResolves
  <2>13. CASE UNCHANGED vars
    BY <2>13 DEF TypeOK, vars
  <2> QED
    BY <2>1, <2>2, <2>3, <2>4, <2>5, <2>6, <2>7, <2>8, <2>9, <2>10, <2>11, <2>12,
       <2>13 DEF Next
<1> QED
  BY <1>1, <1>2, PTL DEF Spec
-----------------------------------------------------------------------------
(* The overlap guard.  entry.running says exactly whether a call of entry.fn *)
(* is outstanding, so a tick that finds the flag down starts the only copy.  *)

FlagIsHonest == \A n \in Names : /\ running[n] => invocations[n] = 1
                                 /\ ~running[n] => invocations[n] = 0

\* The flag and the number of outstanding calls agree in every reachable state.
THEOREM HonestFlag == Spec => []FlagIsHonest
<1>1. Init => FlagIsHonest
  BY DEF Init, FlagIsHonest
<1>2. TypeOK /\ FlagIsHonest /\ [Next]_vars => FlagIsHonest'
  <2> SUFFICES ASSUME TypeOK, FlagIsHonest, [Next]_vars
               PROVE  FlagIsHonest'
    OBVIOUS
  <2> USE DEF TypeOK, FlagIsHonest
  <2>1. ASSUME NEW n \in Names, Tick(n) PROVE FlagIsHonest'
    BY <2>1 DEF Tick
  <2>2. ASSUME NEW n \in Names, SettleInvocation(n) PROVE FlagIsHonest'
    BY <2>2 DEF SettleInvocation
  <2>3. CASE UNCHANGED <<running, invocations>>
    BY <2>3
  <2> QED
    BY <2>1, <2>2, <2>3 DEF Next, vars, timerVars, Schedule, Start, Enqueue, Process,
       SettleHandler, ResumeLoop, DrainFinally, Stop, StopReadsDrain, StopResolves
<1> QED
  BY <1>1, <1>2, TypeCorrect, PTL DEF Spec

\* No scheduled job ever runs two overlapping copies of itself, for any set of names.
THEOREM OverlapGuard == Spec => []OneInvocationPerName
<1>1. FlagIsHonest => OneInvocationPerName
  <2> SUFFICES ASSUME FlagIsHonest, NEW n \in Names
               PROVE  invocations[n] <= 1
    BY DEF OneInvocationPerName
  <2>1. invocations[n] = 0 \/ invocations[n] = 1
    BY Zenon DEF FlagIsHonest
  <2> QED
    BY <2>1
<1> QED
  BY <1>1, HonestFlag, PTL

-----------------------------------------------------------------------------
(* One drain loop.  The flag and the loop's own state agree, which is what   *)
(* lets kickDrain use the flag as a lock; and every id handed out is at most  *)
(* the counter, which is what makes a new item fresh.                        *)

OneLoop == /\ draining <=> drainer # "off"
           /\ current = NoItem <=> drainer # "handling"

IdsBelowCounter == /\ \A k \in 1..Len(fifo) : fifo[k].id <= nextJobId
                   /\ \A k \in 1..Len(begun) : begun[k].id <= nextJobId

LoopInv == TypeOK /\ OneLoop /\ IdsBelowCounter

\* A turn of the loop moves the head of q to begun, or moves nothing.
LEMMA LoopTurnMoves ==
  ASSUME NEW q \in Seq(Item), NEW hs, begun \in Seq(Item), LoopTurn(q, hs)
  PROVE  \/ /\ q # <<>> /\ Head(q) \in Item
            /\ fifo' = Tail(q) /\ current' = Head(q) /\ drainer' = "handling"
            /\ begun' = Append(begun, Head(q))
         \/ /\ fifo' = q /\ begun' = begun /\ current' = current
            /\ drainer' = "returned"
  BY HeadTailProperties DEF LoopTurn, HeadIsRunnable

\* A turn of the loop keeps every id below any bound that held before it.
LEMMA LoopTurnIds ==
  ASSUME NEW q \in Seq(Item), NEW hs, begun \in Seq(Item), LoopTurn(q, hs),
         NEW b \in Nat, \A k \in 1..Len(q) : q[k].id <= b,
         \A k \in 1..Len(begun) : begun[k].id <= b
  PROVE  /\ \A k \in 1..Len(fifo') : fifo'[k].id <= b
         /\ \A k \in 1..Len(begun') : begun'[k].id <= b
<1>1. CASE q # <<>> /\ fifo' = Tail(q) /\ begun' = Append(begun, Head(q))
  <2>1. /\ Head(q) = q[1] /\ 1 \in 1..Len(q) /\ Head(q) \in Item
    BY <1>1, HeadTailProperties, LenProperties
  <2>2. Len(fifo') = Len(q) - 1 /\ \A k \in 1..Len(fifo') : fifo'[k] = q[k+1]
    BY <1>1, HeadTailProperties
  <2>3. Len(q) \in Nat /\ Len(begun) \in Nat
    BY LenProperties
  <2>4. /\ Len(begun') = Len(begun) + 1
        /\ \A k \in 1..Len(begun) : begun'[k] = begun[k]
        /\ begun'[Len(begun) + 1] = Head(q)
    BY <1>1, <2>1, AppendProperties
  <2>5. ASSUME NEW k \in 1..Len(fifo') PROVE fifo'[k].id <= b
    BY <2>2, <2>3
  <2>6. ASSUME NEW k \in 1..Len(begun') PROVE begun'[k].id <= b
    BY <2>1, <2>3, <2>4
  <2> QED
    BY <2>5, <2>6
<1>2. CASE fifo' = q /\ begun' = begun
  BY <1>2
<1> QED
  BY <1>1, <1>2, LoopTurnMoves

\* A kick keeps the loop's flag and state in agreement, and the ids bounded.
LEMMA KickDrainInv ==
  ASSUME TypeOK, OneLoop, NEW q \in Seq(Item), NEW hs, KickDrain(q, hs),
         NEW b \in Nat, \A k \in 1..Len(q) : q[k].id <= b,
         \A k \in 1..Len(begun) : begun[k].id <= b
  PROVE  /\ draining' <=> drainer' # "off"
         /\ current' = NoItem <=> drainer' # "handling"
         /\ \A k \in 1..Len(fifo') : fifo'[k].id <= b
         /\ \A k \in 1..Len(begun') : begun'[k].id <= b
<1> USE DEF TypeOK, OneLoop
<1>1. CASE draining /\ UNCHANGED <<draining, drainer, current, begun>> /\ fifo' = q
  BY <1>1
<1>2. CASE ~draining /\ draining' /\ LoopTurn(q, hs)
  <2>1. /\ \A k \in 1..Len(fifo') : fifo'[k].id <= b
        /\ \A k \in 1..Len(begun') : begun'[k].id <= b
    BY <1>2, LoopTurnIds
  <2>2. NoItem \notin Item
    BY RunnerAssumption DEF Item
  <2>3. /\ drainer' # "off"
        /\ current' = NoItem <=> drainer' # "handling"
    BY <1>2, <2>2, LoopTurnMoves
  <2> QED
    BY <1>2, <2>1, <2>3
<1> QED
  BY <1>1, <1>2 DEF KickDrain

\* There is at most one drain loop, and current is set exactly while it handles a job.
THEOREM OneDrainLoop == Spec => []LoopInv
<1>1. Init => OneLoop /\ IdsBelowCounter
  BY DEF Init, OneLoop, IdsBelowCounter
<1>2. LoopInv /\ [Next]_vars => (OneLoop /\ IdsBelowCounter)'
  <2> SUFFICES ASSUME LoopInv, [Next]_vars
               PROVE  OneLoop' /\ IdsBelowCounter'
    OBVIOUS
  <2> USE DEF LoopInv, OneLoop, IdsBelowCounter
  <2>a. nextJobId \in Nat
    BY RunnerAssumption DEF TypeOK
  <2>1. ASSUME NEW name \in QueueNames, Enqueue(name)
        PROVE  OneLoop' /\ IdsBelowCounter'
    <3> DEFINE item == [id |-> nextJobId + 1, name |-> name]
               q == Append(fifo, item)
    <3>1. KickDrain(q, handlers) /\ nextJobId' = nextJobId + 1
      BY <2>1 DEF Enqueue
    <3>2. item \in Item /\ q \in Seq(Item)
      BY <2>1, NewItem DEF Enqueue
    <3>3. Len(q) = Len(fifo) + 1 /\ Len(fifo) \in Nat
          /\ (\A k \in 1..Len(fifo) : q[k] = fifo[k]) /\ q[Len(fifo) + 1] = item
      BY <3>2, AppendProperties, LenProperties DEF TypeOK
    <3>4. \A k \in 1..Len(fifo) : fifo[k].id <= nextJobId + 1
      <4>1. ASSUME NEW k \in 1..Len(fifo) PROVE fifo[k].id <= nextJobId + 1
        <5>1. fifo[k] \in Item
          BY ElementOfSeq DEF TypeOK
        <5>2. fifo[k].id \in Nat
          BY <5>1, RunnerAssumption DEF Item
        <5> QED
          BY <2>a, <5>2
      <4> QED
        BY <4>1
    <3>5. \A k \in 1..Len(begun) : begun[k].id <= nextJobId + 1
      <4>1. ASSUME NEW k \in 1..Len(begun) PROVE begun[k].id <= nextJobId + 1
        <5>1. begun[k] \in Item
          BY ElementOfSeq DEF TypeOK
        <5>2. begun[k].id \in Nat
          BY <5>1, RunnerAssumption DEF Item
        <5> QED
          BY <2>a, <5>2
      <4> QED
        BY <4>1
    <3>6. \A k \in 1..Len(q) : q[k].id <= nextJobId + 1
      BY <2>a, <3>3, <3>4
    <3>7. nextJobId + 1 \in Nat
      BY <2>a
    <3> HIDE DEF q, item
    <3> QED
      BY <3>1, <3>2, <3>5, <3>6, <3>7, KickDrainInv
  <2>2. ASSUME NEW name \in QueueNames, Process(name)
        PROVE  OneLoop' /\ IdsBelowCounter'
    <3>1. KickDrain(fifo, handlers \union {name}) /\ nextJobId' = nextJobId
      BY <2>2 DEF Process
    <3> QED
      BY <2>a, <3>1, KickDrainInv DEF TypeOK
  <2>3. CASE SettleHandler
    BY <2>3 DEF SettleHandler, TypeOK
  <2>4. CASE ResumeLoop
    <3>1. LoopTurn(fifo, handlers) /\ UNCHANGED <<draining, nextJobId>>
          /\ drainer = "examine"
      BY <2>4 DEF ResumeLoop
    <3>2. NoItem \notin Item
      BY RunnerAssumption DEF Item
    <3>3. OneLoop'
      BY <3>1, <3>2, LoopTurnMoves DEF TypeOK
    <3>4. IdsBelowCounter'
      BY <2>a, <3>1, LoopTurnIds DEF TypeOK
    <3> QED
      BY <3>3, <3>4
  <2>5. CASE DrainFinally
    BY <2>5 DEF DrainFinally, TypeOK
  <2>6. CASE UNCHANGED queueVars
    BY <2>6 DEF queueVars
  <2> QED
    BY <2>1, <2>2, <2>3, <2>4, <2>5, <2>6 DEF Next, vars, Schedule, Start, Tick,
       SettleInvocation, Stop, StopReadsDrain, StopResolves
<1> QED
  BY <1>1, <1>2, TypeCorrect, PTL DEF Spec, LoopInv

-----------------------------------------------------------------------------
(* The runner implements the serial queue.  fifo, current and begun are the  *)
(* abstract queue, active and begun; LoopInv supplies the two facts a step    *)
(* needs: nothing is active when a turn begins, and a new id is fresh.        *)

\* A turn taken while nothing is handled begins the head of q, or leaves q in place.
LEMMA LoopTurnRefines ==
  ASSUME NEW q \in Seq(Item), NEW hs, begun \in Seq(Item), current = NoItem,
         LoopTurn(q, hs)
  PROVE  \/ Queue!BeginHeadOf(q)
         \/ fifo' = q /\ UNCHANGED <<current, begun>>
  BY LoopTurnMoves DEF Queue!BeginHeadOf

\* Whatever the number of names and jobs, the runner is a serial FIFO queue: jobs are
\* begun in the order of enqueue, none twice, none while another is handled.
THEOREM RunnerImplementsQueue == Spec => ImplementsJobQueue
<1>1. Init => Queue!Init
  BY DEF Init, Queue!Init
<1>2. LoopInv /\ [Next]_vars => [Queue!Next]_Queue!queueVars
  <2> SUFFICES ASSUME LoopInv, [Next]_vars
               PROVE  Queue!Next \/ UNCHANGED <<fifo, current, begun>>
    BY DEF Queue!queueVars
  <2> USE DEF LoopInv, OneLoop
  <2>a. nextJobId \in Nat
    BY RunnerAssumption DEF TypeOK
  <2>1. ASSUME NEW name \in QueueNames, Enqueue(name)
        PROVE  Queue!Next
    <3> DEFINE item == [id |-> nextJobId + 1, name |-> name]
    <3>1. item \in Item /\ Append(fifo, item) \in Seq(Item)
      BY <2>1, NewItem DEF Enqueue
    <3>2. Queue!Fresh(item)
      BY <2>a DEF Queue!Fresh, IdsBelowCounter
    <3>3. KickDrain(Append(fifo, item), handlers)
      BY <2>1 DEF Enqueue
    <3> HIDE DEF item
    <3>4. CASE draining
      BY <3>1, <3>2, <3>3, <3>4 DEF KickDrain, Queue!Next, Queue!Accept
    <3>5. CASE ~draining
      <4>1. current = NoItem
        BY <3>5
      <4>2. \/ Queue!BeginHeadOf(Append(fifo, item))
            \/ fifo' = Append(fifo, item) /\ UNCHANGED <<current, begun>>
        BY <3>1, <3>3, <3>5, <4>1, LoopTurnRefines DEF KickDrain, TypeOK
      <4> QED
        BY <3>1, <3>2, <4>2 DEF Queue!Next, Queue!Accept, Queue!AcceptAndBegin
    <3> QED
      BY <3>4, <3>5
  <2>2. ASSUME NEW name \in QueueNames, Process(name)
        PROVE  Queue!Next \/ UNCHANGED <<fifo, current, begun>>
    <3>1. KickDrain(fifo, handlers \union {name})
      BY <2>2 DEF Process
    <3>2. CASE draining
      BY <3>1, <3>2 DEF KickDrain
    <3>3. CASE ~draining
      <4>1. LoopTurn(fifo, handlers \union {name}) /\ current = NoItem
        BY <3>1, <3>3 DEF KickDrain
      <4> QED
        BY <4>1, LoopTurnRefines DEF TypeOK, Queue!Next, Queue!Begin
    <3> QED
      BY <3>2, <3>3
  <2>3. CASE SettleHandler
    BY <2>3 DEF SettleHandler, Queue!Next, Queue!Finish
  <2>4. CASE ResumeLoop
    <3>1. LoopTurn(fifo, handlers) /\ current = NoItem
      BY <2>4 DEF ResumeLoop
    <3> QED
      BY <3>1, LoopTurnRefines DEF TypeOK, Queue!Next, Queue!Begin
  <2>5. CASE UNCHANGED <<fifo, current, begun>>
    BY <2>5
  <2> QED
    BY <2>1, <2>2, <2>3, <2>4, <2>5 DEF Next, vars, queueVars, Schedule, Start, Tick,
       SettleInvocation, DrainFinally, Stop, StopReadsDrain, StopResolves
<1> QED
  BY <1>1, <1>2, OneDrainLoop, PTL DEF Spec, ImplementsJobQueue, Queue!Spec

-----------------------------------------------------------------------------
(* stop().  Between the moment stop() raised its flag and the moment it       *)
(* resolved, each kind of work can only end: timers are gone, every job still  *)
(* running is one that stop() awaits, and once the drain has been awaited a    *)
(* new loop can only come from a later kick.                                   *)

StopInv ==
  /\ stopped <=> stopper # "none"
  /\ stopped /\ ~revived => timers = {}
  /\ stopped /\ ~revived => \A n \in Names : running[n] => n \in awaited
  /\ stopper \in {"awaitDrain", "resolved"} => awaited = {}
  /\ stopper \in {"awaitDrain", "resolved"} /\ ~revived /\ ~awaitedDrain => ~draining
  /\ stopper = "resolved" => ~awaitedDrain

\* Once stop() has resolved nothing is in progress unless a later call revived it,
\* for any sets of names and any number of jobs.
THEOREM StopIsFinal == Spec => []StopQuiesces
<1> DEFINE AllInv == TypeOK /\ FlagIsHonest /\ OneLoop
<1>1. Init => StopInv
  BY DEF Init, StopInv
<1>2. AllInv /\ StopInv /\ [Next]_vars => StopInv'
  <2> SUFFICES ASSUME AllInv, StopInv, [Next]_vars
               PROVE  StopInv'
    OBVIOUS
  <2> USE DEF StopInv
  <2>1. ASSUME NEW n \in Names, Schedule(n) PROVE StopInv'
    BY <2>1 DEF Schedule, queueVars, stopVars
  <2>2. CASE Start
    BY <2>2 DEF Start, queueVars, stopVars, TypeOK
  <2>3. ASSUME NEW n \in Names, Tick(n) PROVE StopInv'
    BY <2>3 DEF Tick, queueVars, stopVars, TypeOK
  <2>4. ASSUME NEW n \in Names, SettleInvocation(n) PROVE StopInv'
    BY <2>4 DEF SettleInvocation, queueVars, TypeOK
  <2>5. ASSUME NEW q, NEW hs, KickDrain(q, hs),
               UNCHANGED <<timerVars, stopVars>>
        PROVE  StopInv'
    BY <2>5 DEF KickDrain, timerVars, stopVars, TypeOK
  <2>6. CASE \E name \in QueueNames : Enqueue(name) \/ Process(name)
    BY <2>5, <2>6 DEF Enqueue, Process
  <2>7. CASE SettleHandler
    BY <2>7 DEF SettleHandler, timerVars, stopVars
  <2>8. CASE ResumeLoop
    BY <2>8 DEF ResumeLoop, timerVars, stopVars
  <2>9. CASE DrainFinally
    BY <2>9 DEF DrainFinally, timerVars
  <2>10. CASE Stop
    BY <2>10 DEF Stop, queueVars, TypeOK
  <2>11. CASE StopReadsDrain
    BY <2>11 DEF StopReadsDrain, timerVars, queueVars, TypeOK
  <2>12. CASE StopResolves
    BY <2>12 DEF StopResolves, timerVars, queueVars
  <2>13. CASE UNCHANGED vars
    BY <2>13 DEF vars, timerVars, queueVars, stopVars
  <2> QED
    BY <2>1, <2>2, <2>3, <2>4, <2>6, <2>7, <2>8, <2>9, <2>10, <2>11, <2>12, <2>13
       DEF Next
<1>3. AllInv /\ StopInv => StopQuiesces
  <2> SUFFICES ASSUME AllInv, StopInv, stopper = "resolved", ~revived
               PROVE  /\ timers = {} /\ drainer = "off"
                      /\ \A n \in Names : invocations[n] = 0
    BY DEF StopQuiesces
  <2>1. timers = {} /\ drainer = "off"
    BY DEF StopInv, OneLoop
  <2>2. ASSUME NEW n \in Names PROVE invocations[n] = 0
    BY Zenon DEF StopInv, FlagIsHonest
  <2> QED
    BY <2>1, <2>2
<1>4. Spec => []FlagIsHonest
  BY HonestFlag
<1> QED
  BY <1>1, <1>2, <1>3, <1>4, TypeCorrect, OneDrainLoop, PTL DEF Spec, LoopInv

-----------------------------------------------------------------------------
(* The drain sleeps on runnable work only after a missed kick.               *)

SleepInv == drainer \in {"off", "returned"} /\ HeadIsRunnable(fifo, handlers)
              => missedKick

\* A turn that returns leaves a head nobody can run.
LEMMA ReturnedMeansNothingToRun ==
  ASSUME NEW q, NEW hs, LoopTurn(q, hs)
  PROVE  drainer' \in {"off", "returned"} => ~HeadIsRunnable(fifo', hs)
  BY DEF LoopTurn

\* The only way a runnable head is left waiting by an idle drain is a kick ignored
\* between the loop's return and its .finally.
THEOREM SleepIsAccountedFor == Spec => []SleepsOnlyOnMissedKick
<1>1. Init => SleepInv
  BY DEF Init, SleepInv, HeadIsRunnable
<1>2. TypeOK /\ OneLoop /\ SleepInv /\ [Next]_vars => SleepInv'
  <2> SUFFICES ASSUME TypeOK, OneLoop, SleepInv, [Next]_vars
               PROVE  SleepInv'
    OBVIOUS
  <2> USE DEF SleepInv
  <2>1. ASSUME NEW q, NEW hs, KickDrain(q, hs), handlers' = hs
        PROVE  SleepInv'
    <3>1. CASE ~draining
      BY <2>1, <3>1, ReturnedMeansNothingToRun DEF KickDrain
    <3>2. CASE draining
      BY <2>1, <3>2 DEF KickDrain, OneLoop, TypeOK
    <3> QED
      BY <3>1, <3>2
  <2>2. CASE \E name \in QueueNames : Enqueue(name) \/ Process(name)
    BY <2>1, <2>2 DEF Enqueue, Process
  <2>3. CASE SettleHandler
    BY <2>3 DEF SettleHandler
  <2>4. CASE ResumeLoop
    BY <2>4, ReturnedMeansNothingToRun DEF ResumeLoop
  <2>5. CASE DrainFinally
    BY <2>5 DEF DrainFinally
  <2>6. CASE UNCHANGED queueVars
    BY <2>6 DEF queueVars
  <2> QED
    BY <2>2, <2>3, <2>4, <2>5, <2>6 DEF Next, vars, Schedule, Start, Tick,
       SettleInvocation, Stop, StopReadsDrain, StopResolves
<1>3. OneLoop /\ SleepInv => SleepsOnlyOnMissedKick
  BY DEF OneLoop, SleepInv, SleepsOnlyOnMissedKick
<1> QED
  BY <1>1, <1>2, <1>3, TypeCorrect, OneDrainLoop, PTL DEF Spec, LoopInv
=============================================================================
