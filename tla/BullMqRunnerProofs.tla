-------------------------- MODULE BullMqRunnerProofs --------------------------
(***************************************************************************)
(* What holds of the FULL-mode runner for any queue names and any number   *)
(* of calls, registrations and Redis faults: TypeCorrect, and that unless  *)
(* a stop() overlapped with something that opens them a name has one       *)
(* worker while the runner is started and none when it is not              *)
(* (NamesHaveOneWorker).                                                   *)
(*                                                                         *)
(* The second has to say what a stop() under way has on its list: what is  *)
(* open is in a Map, and all of that Map on the list.                      *)
(***************************************************************************)
EXTENDS BullMqRunner, FiniteSetTheorems, TLAPS

Entry == [name : QueueNames, id : Nat]
StartCall == [at : {"import", "upsert", "rejected", "resolved"}, k : Nat]
StopCall == [at : {"workers", "queues", "rejected", "resolved"}, closing : SUBSET Entry]

\* A start() whose upsert is awaited is at a registration.
UpsertsInHand ==
    \A c \in DOMAIN starts :
        starts[c].at = "upsert" => starts[c].k \in DOMAIN scheduledRegistrations

TypeInv ==
    /\ scheduledRegistrations \in Seq(QueueNames) /\ processHandlers \subseteq QueueNames
    /\ started \in BOOLEAN /\ wired \in BOOLEAN /\ strayed \in BOOLEAN
    /\ queues \subseteq Entry /\ workers \subseteq Entry
    /\ openQueues \subseteq Entry /\ openWorkers \subseteq Entry
    /\ schedulers \subseteq QueueNames
    /\ starts \in Seq(StartCall) /\ stops \in Seq(StopCall)
    /\ runnerBounds \in [direct : 0..MaxDirect, faults : 0..MaxRedisFaults]
    /\ UpsertsInHand

\* All is finite, so that there is always a new id.
FiniteInv ==
    /\ IsFiniteSet(processHandlers)
    /\ IsFiniteSet(queues) /\ IsFiniteSet(workers)
    /\ IsFiniteSet(openQueues) /\ IsFiniteSet(openWorkers)
    /\ \A c \in DOMAIN stops : IsFiniteSet(stops[c].closing)

\* A Map has a name once, and what is open is in a Map.
MapsHold == /\ OncePerName(queues) /\ OncePerName(workers)
            /\ openQueues \subseteq queues /\ openWorkers \subseteq workers

\* A stop() under way has all workers on its list, then has closed them and has all queues
\* on it.
StopsHold ==
    \A c \in DOMAIN stops :
        /\ stops[c].at = "workers" => workers \subseteq stops[c].closing
        /\ stops[c].at = "queues" => openWorkers = {} /\ queues \subseteq stops[c].closing

\* Without one that is under way or has failed, every worker is open.
WorkersOpen == ~Stopping({"workers", "queues", "rejected"}) => openWorkers = workers

\* A start() under way finds the runner started, and every registration before the one it is
\* at wired.
StartsHold ==
    \A c \in DOMAIN starts : starts[c].at = "upsert" =>
        /\ started
        /\ \A j \in 1..(starts[c].k - 1) :
               scheduledRegistrations[j] \in Names(workers) \cap schedulers

\* Wired is a runner that is started and that nothing stops.
WiredHolds == wired => started /\ ~Stopping({"workers", "queues", "rejected"})

RunnerInv == ~strayed => /\ MapsHold /\ StopsHold /\ WorkersOpen /\ StartsHold /\ WiredHolds
                         /\ StoppedIsClosed /\ StartWires

-----------------------------------------------------------------------------
(* Types, and that an id is to be had.                                     *)

LEMMA IdsAreFinite ==
  ASSUME NEW S, IsFiniteSet(S)
  PROVE  IsFiniteSet({x.id : x \in S})
<1> DEFINE T == {x.id : x \in S}
           f == [x \in S |-> x.id]
<1>1. f \in [S -> T] /\ \A t \in T : \E x \in S : f[x] = t
  OBVIOUS
<1>2. f \in Surjection(S, T)
  BY <1>1 DEF Surjection
<1> HIDE DEF f, T
<1> QED BY <1>2, FS_Surjection DEF T

LEMMA EntriesAreFinite ==
  ASSUME NEW S, IsFiniteSet(S), NEW id
  PROVE  IsFiniteSet({[name |-> n, id |-> id] : n \in S})
<1> DEFINE T == {[name |-> n, id |-> id] : n \in S}
           f == [n \in S |-> [name |-> n, id |-> id]]
<1>1. f \in [S -> T] /\ \A t \in T : \E n \in S : f[n] = t
  BY Zenon
<1>2. f \in Surjection(S, T)
  BY <1>1 DEF Surjection
<1> HIDE DEF f, T
<1> QED BY <1>2, FS_Surjection DEF T

LEMMA FiniteUnion ==
  ASSUME NEW A, NEW B, IsFiniteSet(A), IsFiniteSet(B)
  PROVE  IsFiniteSet(A \cup B)
BY FS_Union

LEMMA NewIdIsNew ==
  ASSUME TypeInv, FiniteInv
  PROVE  NewId \in Nat /\ NewId \notin Used
<1> DEFINE C == {stops[c].closing : c \in DOMAIN stops}
           U == (UNION {queues, workers, openQueues, openWorkers}) \cup (UNION C)
<1>1. stops \in Seq(StopCall) /\ Len(stops) \in Nat /\ DOMAIN stops = 1..Len(stops)
  BY DEF TypeInv
<1>2. IsFiniteSet(C)
  <2> DEFINE f == [c \in DOMAIN stops |-> stops[c].closing]
  <2>1. f \in [DOMAIN stops -> C] /\ \A t \in C : \E c \in DOMAIN stops : f[c] = t
    OBVIOUS
  <2>2. f \in Surjection(DOMAIN stops, C)
    BY <2>1 DEF Surjection
  <2>3. IsFiniteSet(DOMAIN stops)
    BY <1>1, FS_Interval
  <2> HIDE DEF f, C
  <2> QED BY <2>2, <2>3, FS_Surjection
<1>3. \A T \in C : IsFiniteSet(T)
  BY DEF FiniteInv
<1> HIDE DEF C
<1>4. IsFiniteSet(UNION C)
  BY <1>2, <1>3, FS_UNION
<1>5. UNION {queues, workers, openQueues, openWorkers}
        = (queues \cup workers) \cup (openQueues \cup openWorkers)
  OBVIOUS
<1>6. IsFiniteSet((queues \cup workers) \cup (openQueues \cup openWorkers))
  BY FS_Union DEF FiniteInv
<1>7. IsFiniteSet(U)
  <2> DEFINE A == UNION {queues, workers, openQueues, openWorkers}
             B == UNION C
  <2>1. IsFiniteSet(A)
    BY <1>5, <1>6, Zenon
  <2>2. IsFiniteSet(B)
    BY <1>4
  <2> HIDE DEF A, B
  <2>3. IsFiniteSet(A \cup B)
    BY <2>1, <2>2, FiniteUnion
  <2> QED BY <2>3 DEF A, B
<1>8. Used = {x.id : x \in U}
  BY DEF Used, C
<1> HIDE DEF U
<1>9. IsFiniteSet(Used)
  BY <1>7, <1>8, IdsAreFinite
<1> DEFINE N == Cardinality(Used)
           I == 1..(N + 1)
<1>10. N \in Nat
  BY <1>9, FS_CardinalityType
<1>11. IsFiniteSet(I) /\ Cardinality(I) = N + 1
  BY <1>10, FS_Interval
<1>12. \E i \in I : i \notin Used
  <2> SUFFICES ASSUME I \in SUBSET Used PROVE FALSE
    OBVIOUS
  <2> HIDE DEF I
  <2>1. Cardinality(I) <= N
    BY <1>9, FS_Subset
  <2> QED BY <1>10, <1>11, <2>1
<1>13. NewId \in I /\ NewId \notin Used
  BY <1>12 DEF NewId
<1> QED BY <1>10, <1>13

\* The parts of the type that Make has to do with.
MapsTyped == /\ queues \subseteq Entry /\ workers \subseteq Entry
             /\ openQueues \subseteq Entry /\ openWorkers \subseteq Entry
             /\ IsFiniteSet(queues) /\ IsFiniteSet(workers)
             /\ IsFiniteSet(openQueues) /\ IsFiniteSet(openWorkers)
             /\ strayed \in BOOLEAN

NewEntries(S) == {[name |-> n, id |-> NewId] : n \in S}

LEMMA MakeIsTyped ==
  ASSUME TypeInv, FiniteInv, NEW queued, NEW served, Make(queued, served),
         queued \subseteq QueueNames, served \subseteq QueueNames,
         IsFiniteSet(queued), IsFiniteSet(served)
  PROVE  MapsTyped'
<1> DEFINE Q == NewEntries(queued \ Names(queues))
           W == NewEntries(Unserved(served))
<1>1. NewId \in Nat
  BY NewIdIsNew
<1>2. queued \ Names(queues) \in SUBSET queued /\ Unserved(served) \in SUBSET served
  BY DEF Unserved
<1>3. IsFiniteSet(queued \ Names(queues)) /\ IsFiniteSet(Unserved(served))
  BY <1>2, FS_Subset
<1>4. IsFiniteSet(Q) /\ IsFiniteSet(W)
  BY <1>3, EntriesAreFinite DEF NewEntries
<1>5. Q \subseteq Entry /\ W \subseteq Entry
  BY <1>1, <1>2 DEF NewEntries, Entry
<1>6. /\ queues' = queues \cup Q /\ openQueues' = openQueues \cup Q
      /\ workers' = workers \cup W /\ openWorkers' = openWorkers \cup W
  BY DEF Make, NewEntries
<1>7. strayed' \in BOOLEAN
  BY DEF Make
<1> HIDE DEF Q, W
<1>8. /\ queues' \subseteq Entry /\ workers' \subseteq Entry
      /\ openQueues' \subseteq Entry /\ openWorkers' \subseteq Entry
  BY <1>5, <1>6 DEF TypeInv
<1>9. /\ IsFiniteSet(queues') /\ IsFiniteSet(workers')
      /\ IsFiniteSet(openQueues') /\ IsFiniteSet(openWorkers')
  BY <1>4, <1>6, FS_Union DEF FiniteInv
<1> QED BY <1>7, <1>8, <1>9 DEF MapsTyped

LEMMA MapsAreTyped == ASSUME TypeInv, FiniteInv PROVE MapsTyped
  BY DEF TypeInv, FiniteInv, MapsTyped

LEMMA SameMaps == ASSUME TypeInv, FiniteInv, UNCHANGED <<mapVars, strayed>> PROVE MapsTyped'
  BY DEF TypeInv, FiniteInv, MapsTyped, mapVars

\* The rest of it.
CallsTyped == /\ starts \in Seq(StartCall) /\ stops \in Seq(StopCall)
              /\ \A c \in DOMAIN stops : IsFiniteSet(stops[c].closing)
RestTyped ==
    /\ scheduledRegistrations \in Seq(QueueNames) /\ processHandlers \subseteq QueueNames
    /\ IsFiniteSet(processHandlers)
    /\ started \in BOOLEAN /\ wired \in BOOLEAN
    /\ schedulers \subseteq QueueNames
    /\ runnerBounds \in [direct : 0..MaxDirect, faults : 0..MaxRedisFaults]

TypedInv == TypeInv /\ FiniteInv
LEMMA TypedParts == TypedInv <=> MapsTyped /\ CallsTyped /\ RestTyped /\ UpsertsInHand
  BY DEF TypedInv, TypeInv, FiniteInv, MapsTyped, CallsTyped, RestTyped
LEMMA TypedPartsNext == MapsTyped' /\ CallsTyped' /\ RestTyped' /\ UpsertsInHand' => TypedInv'
<1>1. MapsTyped /\ CallsTyped /\ RestTyped /\ UpsertsInHand => TypedInv
  BY TypedParts
<1> QED BY <1>1, PTL

LEMMA SameCalls == ASSUME CallsTyped, UNCHANGED callVars PROVE CallsTyped'
  BY DEF CallsTyped, callVars
LEMMA SameRest ==
  ASSUME RestTyped,
         UNCHANGED <<scheduledRegistrations, processHandlers, started, wired, schedulers,
                     runnerBounds>>
  PROVE  RestTyped'
  BY DEF RestTyped

LEMMA SameUpserts ==
  ASSUME UpsertsInHand, UNCHANGED <<starts, scheduledRegistrations>>
  PROVE  UpsertsInHand'
  BY DEF UpsertsInHand

LEMMA SetStart ==
  ASSUME CallsTyped, NEW c \in DOMAIN starts, NEW x \in StartCall,
         starts' = [starts EXCEPT ![c] = x], UNCHANGED stops
  PROVE  /\ CallsTyped' /\ DOMAIN starts' = DOMAIN starts /\ starts'[c] = x
         /\ \A d \in DOMAIN starts \ {c} : starts'[d] = starts[d]
<1>1. starts \in Seq(StartCall)
  BY DEF CallsTyped
<1>2. /\ starts' \in Seq(StartCall) /\ DOMAIN starts' = DOMAIN starts /\ starts'[c] = x
      /\ \A d \in DOMAIN starts \ {c} : starts'[d] = starts[d]
  BY <1>1
<1> QED BY <1>2 DEF CallsTyped

LEMMA SetStop ==
  ASSUME CallsTyped, NEW c \in DOMAIN stops, NEW x \in StopCall, IsFiniteSet(x.closing),
         stops' = [stops EXCEPT ![c] = x], UNCHANGED starts
  PROVE  /\ CallsTyped' /\ DOMAIN stops' = DOMAIN stops /\ stops'[c] = x
         /\ \A d \in DOMAIN stops \ {c} : stops'[d] = stops[d]
<1>1. stops \in Seq(StopCall) /\ \A d \in DOMAIN stops : IsFiniteSet(stops[d].closing)
  BY DEF CallsTyped
<1>2. /\ stops' \in Seq(StopCall) /\ DOMAIN stops' = DOMAIN stops /\ stops'[c] = x
      /\ \A d \in DOMAIN stops \ {c} : stops'[d] = stops[d]
  BY <1>1
<1>3. \A d \in DOMAIN stops' : IsFiniteSet(stops'[d].closing)
  BY <1>1, <1>2
<1> QED BY <1>2, <1>3 DEF CallsTyped

LEMMA AddStart ==
  ASSUME CallsTyped, NEW x \in StartCall, starts' = Append(starts, x), UNCHANGED stops
  PROVE  /\ CallsTyped' /\ DOMAIN starts' = DOMAIN starts \cup {Len(starts) + 1}
         /\ starts'[Len(starts) + 1] = x
         /\ \A d \in DOMAIN starts : starts'[d] = starts[d] /\ d # Len(starts) + 1
<1>1. starts \in Seq(StartCall)
  BY DEF CallsTyped
<1>2. /\ starts' \in Seq(StartCall) /\ DOMAIN starts' = DOMAIN starts \cup {Len(starts) + 1}
      /\ starts'[Len(starts) + 1] = x
      /\ \A d \in DOMAIN starts : starts'[d] = starts[d] /\ d # Len(starts) + 1
  BY <1>1
<1> QED BY <1>2 DEF CallsTyped

LEMMA AddStop ==
  ASSUME CallsTyped, NEW x \in StopCall, IsFiniteSet(x.closing), stops' = Append(stops, x),
         UNCHANGED starts
  PROVE  /\ CallsTyped' /\ DOMAIN stops' = DOMAIN stops \cup {Len(stops) + 1}
         /\ stops'[Len(stops) + 1] = x
         /\ \A d \in DOMAIN stops : stops'[d] = stops[d] /\ d # Len(stops) + 1
<1>1. stops \in Seq(StopCall) /\ \A d \in DOMAIN stops : IsFiniteSet(stops[d].closing)
  BY DEF CallsTyped
<1>2. /\ stops' \in Seq(StopCall) /\ DOMAIN stops' = DOMAIN stops \cup {Len(stops) + 1}
      /\ stops'[Len(stops) + 1] = x
      /\ \A d \in DOMAIN stops : stops'[d] = stops[d] /\ d # Len(stops) + 1
  BY <1>1
<1>3. \A d \in DOMAIN stops' : IsFiniteSet(stops'[d].closing)
  BY <1>1, <1>2
<1> QED BY <1>2, <1>3 DEF CallsTyped

LEMMA StoredCall ==
  ASSUME TypedInv, NEW c \in DOMAIN starts
  PROVE  /\ starts[c] \in StartCall /\ starts[c].k \in Nat
         /\ \A pc \in {"import", "upsert", "rejected", "resolved"} :
              \A x : x = [starts[c] EXCEPT !.at = pc] =>
                x \in StartCall /\ x.at = pc /\ x.k = starts[c].k
<1>1. starts[c] \in StartCall
  BY DEF TypedInv, TypeInv
<1> QED BY <1>1 DEF StartCall

LEMMA GoOnIsTyped ==
  ASSUME TypedInv, NEW c \in DOMAIN starts, NEW k \in Nat \ {0}, NEW served, GoOn(c, k, served),
         served \subseteq QueueNames, IsFiniteSet(served),
         UNCHANGED <<stops, scheduledRegistrations>>
  PROVE  MapsTyped' /\ CallsTyped' /\ UpsertsInHand' /\ wired' \in BOOLEAN
<1>0. TypeInv /\ FiniteInv /\ MapsTyped /\ CallsTyped /\ RestTyped /\ UpsertsInHand
  BY TypedParts DEF TypedInv
<1>1. CASE k <= Len(scheduledRegistrations)
  <2>1. /\ Make({scheduledRegistrations[k]}, served)
        /\ starts' = [starts EXCEPT ![c] = [at |-> "upsert", k |-> k]] /\ UNCHANGED wired
    BY <1>1 DEF GoOn
  <2>2. scheduledRegistrations[k] \in QueueNames
    BY <1>0, <1>1 DEF RestTyped
  <2>3. {scheduledRegistrations[k]} \subseteq QueueNames /\ IsFiniteSet({scheduledRegistrations[k]})
    BY <2>2, FS_Singleton
  <2>4. [at |-> "upsert", k |-> k] \in StartCall
    BY DEF StartCall
  <2>5. MapsTyped' /\ CallsTyped' /\ wired' \in BOOLEAN
    BY <1>0, <2>1, <2>3, <2>4, MakeIsTyped, SetStart DEF RestTyped
  <2>6. /\ DOMAIN starts' = DOMAIN starts /\ starts'[c] = [at |-> "upsert", k |-> k]
        /\ \A d \in DOMAIN starts \ {c} : starts'[d] = starts[d]
    BY <1>0, <2>1, <2>4, SetStart
  <2>7. k \in DOMAIN scheduledRegistrations
    BY <1>0, <1>1 DEF RestTyped
  <2> QED BY <1>0, <2>5, <2>6, <2>7 DEF UpsertsInHand
<1>2. CASE ~(k <= Len(scheduledRegistrations))
  <2>1. /\ Make({}, served \cup processHandlers)
        /\ starts' = [starts EXCEPT ![c] = [at |-> "resolved", k |-> k]]
        /\ wired' = ~Stopping({"workers", "queues", "rejected"})
    BY <1>2 DEF GoOn
  <2>2. served \cup processHandlers \subseteq QueueNames /\ IsFiniteSet(served \cup processHandlers)
    BY <1>0, FS_Union DEF RestTyped
  <2>3. [at |-> "resolved", k |-> k] \in StartCall
    BY DEF StartCall
  <2>4. IsFiniteSet({})
    BY FS_EmptySet
  <2>5. MapsTyped'
    BY <1>0, <2>1, <2>2, <2>4, MakeIsTyped
  <2>6. /\ DOMAIN starts' = DOMAIN starts /\ starts'[c] = [at |-> "resolved", k |-> k]
        /\ \A d \in DOMAIN starts \ {c} : starts'[d] = starts[d]
        /\ CallsTyped'
    BY <1>0, <2>1, <2>3, SetStart
  <2> QED BY <1>0, <2>1, <2>5, <2>6 DEF UpsertsInHand
<1> QED BY <1>1, <1>2

LEMMA TypedStep == TypedInv /\ [BullMqNext]_runnerVars => TypedInv'
<1> SUFFICES ASSUME TypedInv, [BullMqNext]_runnerVars PROVE TypedInv'
  OBVIOUS
<1>0. TypeInv /\ FiniteInv /\ MapsTyped /\ CallsTyped /\ RestTyped /\ UpsertsInHand
  BY TypedParts DEF TypedInv
<1> USE TypedPartsNext
<1>1. ASSUME NEW n \in QueueNames, Schedule(n) PROVE TypedInv'
  <2>1. /\ scheduledRegistrations' = Append(scheduledRegistrations, n)
        /\ UNCHANGED <<processHandlers, started, mapVars, schedulers, callVars, wired, strayed,
                       runnerBounds>>
    BY <1>1 DEF Schedule
  <2>2. RestTyped'
    BY <1>0, <2>1 DEF RestTyped
  <2>3. DOMAIN scheduledRegistrations \subseteq DOMAIN scheduledRegistrations'
    BY <1>0, <2>1 DEF RestTyped
  <2>4. UpsertsInHand'
    BY <1>0, <2>1, <2>3 DEF UpsertsInHand, callVars
  <2> QED BY <1>0, <2>1, <2>2, <2>4, SameMaps, SameCalls
<1>2. ASSUME NEW n \in QueueNames, Process(n) PROVE TypedInv'
  <2>1. /\ DirectCall /\ processHandlers' = processHandlers \cup {n}
        /\ UNCHANGED <<scheduledRegistrations, started, schedulers, callVars, wired>>
        /\ IF started THEN Make({}, {n}) ELSE UNCHANGED <<mapVars, strayed>>
    BY <1>2 DEF Process
  <2>2. IsFiniteSet({n}) /\ IsFiniteSet({}) /\ IsFiniteSet(processHandlers \cup {n})
    BY <1>0, FS_Singleton, FS_EmptySet, FS_AddElement DEF RestTyped
  <2>3. MapsTyped'
    <3>1. CASE started
      BY <1>0, <2>1, <2>2, <3>1, MakeIsTyped
    <3>2. CASE ~started
      BY <1>0, <2>1, <3>2, SameMaps
    <3> QED BY <3>1, <3>2
  <2>4. runnerBounds' \in [direct : 0..MaxDirect, faults : 0..MaxRedisFaults]
    BY <1>0, <2>1, BullMqAssumption DEF DirectCall, RestTyped
  <2>5. RestTyped'
    BY <1>0, <2>1, <2>2, <2>4 DEF RestTyped
  <2> QED BY <1>0, <2>1, <2>3, <2>5, SameCalls, SameUpserts DEF callVars
<1>3. ASSUME NEW n \in QueueNames, Enqueue(n) PROVE TypedInv'
  <2>1. /\ DirectCall /\ Make({n}, {})
        /\ UNCHANGED <<scheduledRegistrations, processHandlers, started, schedulers, callVars,
                       wired>>
    BY <1>3 DEF Enqueue
  <2>2. IsFiniteSet({n}) /\ IsFiniteSet({})
    BY FS_Singleton, FS_EmptySet
  <2>3. MapsTyped'
    BY <1>0, <2>1, <2>2, MakeIsTyped
  <2>4. runnerBounds' \in [direct : 0..MaxDirect, faults : 0..MaxRedisFaults]
    BY <1>0, <2>1, BullMqAssumption DEF DirectCall, RestTyped
  <2>5. RestTyped'
    BY <1>0, <2>1, <2>4 DEF RestTyped
  <2> QED BY <1>0, <2>1, <2>3, <2>5, SameCalls, SameUpserts DEF callVars
<1>4. CASE Start
  <2>1. PICK at \in {"import", "resolved"} : starts' = Append(starts, [at |-> at, k |-> 0])
    BY <1>4 DEF Start
  <2>2. UNCHANGED <<scheduledRegistrations, processHandlers, started, mapVars, schedulers, stops,
                    wired, strayed, runnerBounds>>
    BY <1>4 DEF Start
  <2>3. [at |-> at, k |-> 0] \in StartCall
    BY DEF StartCall
  <2>4. /\ CallsTyped' /\ DOMAIN starts' = DOMAIN starts \cup {Len(starts) + 1}
        /\ starts'[Len(starts) + 1] = [at |-> at, k |-> 0]
        /\ \A d \in DOMAIN starts : starts'[d] = starts[d]
    BY <1>0, <2>1, <2>2, <2>3, AddStart
  <2>5. UpsertsInHand'
    BY <1>0, <2>2, <2>4 DEF UpsertsInHand
  <2> QED BY <1>0, <2>2, <2>4, <2>5, SameMaps, SameRest
<1>5. ASSUME NEW c \in DOMAIN starts, Imported(c) PROVE TypedInv'
  <2>1. /\ GoOn(c, 1, {}) /\ started' = TRUE
        /\ UNCHANGED <<scheduledRegistrations, processHandlers, schedulers, stops, runnerBounds>>
    BY <1>5 DEF Imported
  <2>2. MapsTyped' /\ CallsTyped' /\ UpsertsInHand' /\ wired' \in BOOLEAN
    BY <2>1, GoOnIsTyped, FS_EmptySet
  <2>3. RestTyped'
    BY <1>0, <2>1, <2>2 DEF RestTyped
  <2> QED BY <2>2, <2>3
<1>6. ASSUME NEW c \in DOMAIN starts, UpsertReturns(c) PROVE TypedInv'
  <2> DEFINE n == scheduledRegistrations[starts[c].k]
  <2>1. /\ GoOn(c, starts[c].k + 1, {n}) /\ schedulers' = schedulers \cup {n}
        /\ starts[c].at = "upsert"
        /\ UNCHANGED <<scheduledRegistrations, processHandlers, started, stops, runnerBounds>>
    BY <1>6 DEF UpsertReturns
  <2>2. starts[c].k \in DOMAIN scheduledRegistrations /\ starts[c].k \in Nat
    BY <1>0, <2>1, StoredCall DEF UpsertsInHand
  <2>3. n \in QueueNames
    BY <1>0, <2>2 DEF RestTyped
  <2> DEFINE k == starts[c].k + 1
  <2>4. k \in Nat \ {0}
    BY <2>2
  <2>5. GoOn(c, k, {n})
    BY <2>1
  <2> HIDE DEF n, k
  <2>a. IsFiniteSet({n})
    BY FS_Singleton
  <2>6. MapsTyped' /\ CallsTyped' /\ UpsertsInHand' /\ wired' \in BOOLEAN
    BY <2>1, <2>3, <2>4, <2>5, <2>a, GoOnIsTyped
  <2>7. RestTyped'
    BY <1>0, <2>1, <2>3, <2>6 DEF RestTyped
  <2> QED BY <2>6, <2>7
<1>7. ASSUME NEW c \in DOMAIN starts, UpsertRejects(c) PROVE TypedInv'
  <2>1. /\ starts' = [starts EXCEPT ![c].at = "rejected"] /\ RedisFault
        /\ runnerBounds' = [runnerBounds EXCEPT !.faults = @ + 1]
        /\ UNCHANGED <<scheduledRegistrations, processHandlers, started, mapVars, schedulers,
                       stops, wired, strayed>>
    BY <1>7 DEF UpsertRejects
  <2> DEFINE x == [starts[c] EXCEPT !.at = "rejected"]
  <2>2. starts' = [starts EXCEPT ![c] = x]
    BY <2>1
  <2>3. x \in StartCall /\ x.at = "rejected"
    BY StoredCall
  <2> HIDE DEF x
  <2>4. /\ CallsTyped' /\ DOMAIN starts' = DOMAIN starts /\ starts'[c] = x
        /\ \A d \in DOMAIN starts \ {c} : starts'[d] = starts[d]
    BY <1>0, <2>1, <2>2, <2>3, SetStart
  <2>5. UpsertsInHand'
    BY <1>0, <2>1, <2>3, <2>4 DEF UpsertsInHand
  <2>6. runnerBounds' \in [direct : 0..MaxDirect, faults : 0..MaxRedisFaults]
    BY <1>0, <2>1, BullMqAssumption DEF RedisFault, RestTyped
  <2>7. RestTyped'
    BY <1>0, <2>1, <2>6 DEF RestTyped
  <2> QED BY <1>0, <2>1, <2>4, <2>5, <2>7, SameMaps
<1>8. CASE Stop
  <2>1. PICK x \in {[at |-> "workers", closing |-> workers], [at |-> "resolved", closing |-> {}]} :
          stops' = Append(stops, x)
    BY <1>8 DEF Stop
  <2>2. /\ wired' = (wired /\ ~started)
        /\ UNCHANGED <<scheduledRegistrations, processHandlers, started, mapVars, schedulers,
                       starts, strayed, runnerBounds>>
    BY <1>8 DEF Stop
  <2>3. x \in StopCall /\ IsFiniteSet(x.closing)
    BY <1>0, FS_EmptySet DEF MapsTyped, StopCall
  <2>4. CallsTyped'
    BY <1>0, <2>1, <2>2, <2>3, AddStop
  <2>5. wired' \in BOOLEAN
    BY <2>2
  <2>6. RestTyped'
    BY <1>0, <2>2, <2>5 DEF RestTyped
  <2> QED BY <1>0, <2>2, <2>4, <2>6, SameMaps, SameUpserts
<1>9. ASSUME NEW c \in DOMAIN stops, WorkersClosed(c) PROVE TypedInv'
  <2>1. /\ openWorkers' = openWorkers \ stops[c].closing
        /\ stops' = [stops EXCEPT ![c] = [at |-> "queues", closing |-> queues]]
        /\ UNCHANGED <<scheduledRegistrations, processHandlers, started, queues, workers,
                       openQueues, schedulers, starts, wired, strayed, runnerBounds>>
    BY <1>9 DEF WorkersClosed
  <2>2. MapsTyped'
    BY <1>0, <2>1, FS_Difference DEF MapsTyped
  <2>3. [at |-> "queues", closing |-> queues] \in StopCall /\ IsFiniteSet(queues)
    BY <1>0 DEF MapsTyped, StopCall
  <2>4. CallsTyped'
    BY <1>0, <2>1, <2>3, SetStop
  <2> QED BY <1>0, <2>1, <2>2, <2>4, SameRest, SameUpserts
<1>10. ASSUME NEW c \in DOMAIN stops, QueuesClosed(c) PROVE TypedInv'
  <2>1. /\ openQueues' = openQueues \ stops[c].closing /\ queues' = {} /\ workers' = {}
        /\ started' = FALSE
        /\ stops' = [stops EXCEPT ![c] = [at |-> "resolved", closing |-> {}]]
        /\ strayed' = (strayed \/ \E s \in DOMAIN starts : starts[s].at = "upsert")
        /\ UNCHANGED <<scheduledRegistrations, processHandlers, openWorkers, schedulers, starts,
                       wired, runnerBounds>>
    BY <1>10 DEF QueuesClosed
  <2>a. strayed' \in BOOLEAN
    BY <2>1
  <2>2. MapsTyped'
    BY <1>0, <2>1, <2>a, FS_Difference, FS_EmptySet DEF MapsTyped
  <2>3. [at |-> "resolved", closing |-> {}] \in StopCall /\ IsFiniteSet({})
    BY FS_EmptySet DEF StopCall
  <2>4. CallsTyped'
    BY <1>0, <2>1, <2>3, SetStop
  <2>5. RestTyped'
    BY <1>0, <2>1 DEF RestTyped
  <2> QED BY <1>0, <2>1, <2>2, <2>4, <2>5, SameUpserts
<1>11. ASSUME NEW c \in DOMAIN stops, CloseRejects(c) PROVE TypedInv'
  <2>1. /\ runnerBounds' = [runnerBounds EXCEPT !.faults = @ + 1] /\ RedisFault
        /\ stops' = [stops EXCEPT ![c] = [at |-> "rejected", closing |-> {}]]
        /\ UNCHANGED <<scheduledRegistrations, processHandlers, started, queues, workers,
                       schedulers, starts, wired, strayed>>
    BY <1>11 DEF CloseRejects
  <2>2. PICK closed \in SUBSET stops[c].closing :
          \/ openWorkers' = openWorkers \ closed /\ UNCHANGED openQueues
          \/ openQueues' = openQueues \ closed /\ UNCHANGED openWorkers
    BY <1>11 DEF CloseRejects
  <2>3. MapsTyped'
    BY <1>0, <2>1, <2>2, FS_Difference DEF MapsTyped
  <2>4. [at |-> "rejected", closing |-> {}] \in StopCall /\ IsFiniteSet({})
    BY FS_EmptySet DEF StopCall
  <2>5. CallsTyped'
    BY <1>0, <2>1, <2>4, SetStop
  <2>6. runnerBounds' \in [direct : 0..MaxDirect, faults : 0..MaxRedisFaults]
    BY <1>0, <2>1, BullMqAssumption DEF RedisFault, RestTyped
  <2>7. RestTyped'
    BY <1>0, <2>1, <2>6 DEF RestTyped
  <2> QED BY <1>0, <2>1, <2>3, <2>5, <2>7, SameUpserts
<1>12. CASE UNCHANGED runnerVars
  BY <1>0, <1>12, SameMaps, SameCalls, SameRest, SameUpserts DEF runnerVars, callVars
<1> QED
  BY <1>1, <1>2, <1>3, <1>4, <1>5, <1>6, <1>7, <1>8, <1>9, <1>10, <1>11, <1>12 DEF BullMqNext

LEMMA TypedInit == BullMqInit => TypedInv
<1> SUFFICES ASSUME BullMqInit PROVE TypedInv
  OBVIOUS
<1>1. MapsTyped
  BY FS_EmptySet DEF BullMqInit, MapsTyped
<1>2. CallsTyped /\ UpsertsInHand
  BY DEF BullMqInit, CallsTyped, UpsertsInHand
<1>3. RestTyped
  <2>1. 0 \in 0..MaxDirect /\ 0 \in 0..MaxRedisFaults
    BY BullMqAssumption
  <2>2. runnerBounds \in [direct : 0..MaxDirect, faults : 0..MaxRedisFaults]
    BY <2>1, Zenon DEF BullMqInit
  <2>3. scheduledRegistrations \in Seq(QueueNames)
    BY DEF BullMqInit
  <2> QED BY <2>2, <2>3, FS_EmptySet DEF BullMqInit, RestTyped
<1> QED BY <1>1, <1>2, <1>3, TypedParts

\* Types, and that a start() under way is at a registration, for any queue
\* names and any number of calls and faults.
THEOREM TypeCorrect == BullMqSpec => []TypeInv
<1>1. TypedInv => TypeInv
  BY DEF TypedInv
<1> QED BY <1>1, TypedInit, TypedStep, PTL DEF BullMqSpec

-----------------------------------------------------------------------------
(* One worker per name.                                                    *)

AnyStop == {"workers", "queues", "rejected"}

LEMMA NewNamesOnce ==
  ASSUME NEW S, NEW A, OncePerName(S), S \subseteq Entry,
         A \cap Names(S) = {}
  PROVE  /\ OncePerName(S \cup NewEntries(A))
         /\ Names(S \cup NewEntries(A)) = Names(S) \cup A
<1>1. \A x \in NewEntries(A) : x.name \in A /\ x = [name |-> x.name, id |-> NewId]
  BY DEF NewEntries
<1>2. \A n \in A : [name |-> n, id |-> NewId] \in NewEntries(A)
  BY DEF NewEntries
<1>3. \A x \in S : x.name \notin A
  BY DEF Names
<1>4. \A x, y \in NewEntries(A) : x.name = y.name => x = y
  BY <1>1, Zenon
<1>5. OncePerName(S \cup NewEntries(A))
  BY <1>1, <1>3, <1>4 DEF OncePerName
<1>6. \A n \in A : n \in Names(NewEntries(A))
  <2> SUFFICES ASSUME NEW n \in A PROVE \E x \in NewEntries(A) : n = x.name
    BY DEF Names
  <2> DEFINE e == [name |-> n, id |-> NewId]
  <2>1. e \in NewEntries(A) /\ e.name = n
    BY <1>2
  <2> QED BY <2>1
<1>7. \A x \in NewEntries(A) : x.name \in A
  BY <1>1
<1>8. Names(NewEntries(A)) = A
  BY <1>6, <1>7 DEF Names
<1>9. Names(S \cup NewEntries(A)) = Names(S) \cup Names(NewEntries(A))
  BY DEF Names
<1> QED BY <1>5, <1>8, <1>9

\* What Make makes has a name its map lacks, and no stop() under way would not see it.
LEMMA MakeHolds ==
  ASSUME TypedInv, RunnerInv, NEW queued, NEW served, Make(queued, served), UNCHANGED stops,
         ~strayed'
  PROVE  /\ ~strayed
         /\ MapsHold' /\ StopsHold' /\ WorkersOpen'
         /\ Names(workers') = Names(workers) \cup served
<1> DEFINE A == queued \ Names(queues)
           B == Unserved(served)
<1>1. /\ queues' = queues \cup NewEntries(A) /\ openQueues' = openQueues \cup NewEntries(A)
      /\ workers' = workers \cup NewEntries(B) /\ openWorkers' = openWorkers \cup NewEntries(B)
      /\ ~strayed
      /\ NewEntries(A) # {} => ~Stopping({"queues"})
      /\ NewEntries(B) # {} => ~Stopping({"workers", "queues"})
  BY DEF Make, NewEntries
<1>2. MapsHold /\ StopsHold /\ WorkersOpen
  BY <1>1 DEF RunnerInv
<1>3. A \cap Names(queues) = {} /\ B \cap Names(workers) = {}
      /\ Names(workers) \cup B = Names(workers) \cup served
  BY DEF Unserved
<1>4. queues \subseteq Entry /\ workers \subseteq Entry
  BY DEF TypedInv, TypeInv
<1> HIDE DEF A, B
<1>5. /\ OncePerName(queues') /\ OncePerName(workers')
      /\ Names(workers') = Names(workers) \cup B
  BY <1>1, <1>2, <1>3, <1>4, NewNamesOnce DEF MapsHold
<1>6. MapsHold'
  BY <1>1, <1>2, <1>5 DEF MapsHold
<1>7. StopsHold'
  <2> SUFFICES ASSUME NEW c \in DOMAIN stops
               PROVE  /\ stops[c].at = "workers" => workers' \subseteq stops[c].closing
                      /\ stops[c].at = "queues" =>
                           openWorkers' = {} /\ queues' \subseteq stops[c].closing
    BY DEF StopsHold
  <2>1. CASE stops[c].at = "workers"
    <3>1. NewEntries(B) = {}
      BY <1>1, <2>1 DEF Stopping
    <3> QED BY <1>1, <1>2, <2>1, <3>1 DEF StopsHold
  <2>2. CASE stops[c].at = "queues"
    <3>1. NewEntries(A) = {} /\ NewEntries(B) = {}
      BY <1>1, <2>2 DEF Stopping
    <3> QED BY <1>1, <1>2, <2>2, <3>1 DEF StopsHold
  <2> QED BY <2>1, <2>2
<1>8. WorkersOpen'
  BY <1>1, <1>2 DEF WorkersOpen, Stopping
<1> QED BY <1>1, <1>3, <1>5, <1>6, <1>7, <1>8

\* A start() at k has wired what is before k; past the last registration that is all of it.
LEMMA GoOnHolds ==
  ASSUME TypedInv, RunnerInv, NEW c \in DOMAIN starts, NEW k \in Nat \ {0}, NEW served,
         GoOn(c, k, served), started', ~strayed', TypedInv',
         UNCHANGED <<stops, scheduledRegistrations, processHandlers>>,
         schedulers \subseteq schedulers',
         \A j \in 1..(k - 1) : j \in DOMAIN scheduledRegistrations =>
             scheduledRegistrations[j] \in (Names(workers) \cup served) \cap schedulers'
  PROVE  RunnerInv'
<1> DEFINE regs == scheduledRegistrations
<1>0. regs \in Seq(QueueNames) /\ Len(regs) \in Nat /\ DOMAIN regs = 1..Len(regs)
  BY DEF TypedInv, TypeInv
<1>1. starts \in Seq(StartCall) /\ starts' \in Seq(StartCall)
  BY DEF TypedInv, TypeInv
<1>2. ASSUME k <= Len(regs) PROVE RunnerInv'
  <2>1. /\ Make({regs[k]}, served) /\ starts' = [starts EXCEPT ![c] = [at |-> "upsert", k |-> k]]
        /\ UNCHANGED wired
    BY <1>2 DEF GoOn
  <2>2. /\ ~strayed /\ MapsHold' /\ StopsHold' /\ WorkersOpen'
        /\ Names(workers') = Names(workers) \cup served
    BY <2>1, MakeHolds
  <2>3. StartsHold /\ WiredHolds /\ StartWires
    BY <2>2 DEF RunnerInv
  <2>4. \A d \in DOMAIN starts' : d \in DOMAIN starts
          /\ (d # c => starts'[d] = starts[d]) /\ (d = c => starts'[d].k = k)
    BY <2>1
  <2>5. StartsHold'
    <3> SUFFICES ASSUME NEW d \in DOMAIN starts', starts'[d].at = "upsert",
                        NEW j \in 1..(starts'[d].k - 1)
                 PROVE  regs[j] \in Names(workers') \cap schedulers'
      BY DEF StartsHold
    <3>1. CASE d = c
      <4>1. j \in 1..(k - 1) /\ j \in DOMAIN regs
        BY <1>0, <1>2, <2>4, <3>1
      <4> QED BY <2>2, <4>1
    <3>2. CASE d # c
      BY <2>2, <2>3, <2>4, <3>2 DEF StartsHold
    <3> QED BY <3>1, <3>2
  <2>6. WiredHolds'
    BY <2>1, <2>3 DEF WiredHolds, Stopping
  <2>7. StartWires'
    <3> SUFFICES ASSUME wired
                 PROVE  /\ {regs[j] : j \in DOMAIN regs} \cup processHandlers
                             \subseteq Names(workers' \cap openWorkers')
                        /\ \A j \in DOMAIN regs : regs[j] \in schedulers'
      BY <2>1 DEF StartWires
    <3>1. openWorkers' = workers'
      BY <2>2, <2>3 DEF WiredHolds, WorkersOpen, Stopping
    <3>2. {regs[j] : j \in DOMAIN regs} \cup processHandlers \subseteq Names(workers)
      BY <2>3 DEF StartWires, Names
    <3> QED BY <2>2, <2>3, <3>1, <3>2 DEF StartWires
  <2> QED BY <2>2, <2>5, <2>6, <2>7 DEF RunnerInv, StoppedIsClosed
<1>3. ASSUME ~(k <= Len(regs)) PROVE RunnerInv'
  <2>1. /\ Make({}, served \cup processHandlers)
        /\ starts' = [starts EXCEPT ![c] = [at |-> "resolved", k |-> k]]
        /\ wired' = ~Stopping(AnyStop)
    BY <1>3 DEF GoOn, AnyStop
  <2>2. /\ ~strayed /\ MapsHold' /\ StopsHold' /\ WorkersOpen'
        /\ Names(workers') = Names(workers) \cup (served \cup processHandlers)
    BY <2>1, MakeHolds
  <2>3. StartsHold
    BY <2>2 DEF RunnerInv
  <2>4. \A d \in DOMAIN starts' : d \in DOMAIN starts
          /\ (d # c => starts'[d] = starts[d]) /\ (d = c => starts'[d].at = "resolved")
    BY <2>1
  <2>5. StartsHold'
    <3> SUFFICES ASSUME NEW d \in DOMAIN starts', starts'[d].at = "upsert",
                        NEW j \in 1..(starts'[d].k - 1)
                 PROVE  regs[j] \in Names(workers') \cap schedulers'
      BY DEF StartsHold
    <3> QED BY <2>2, <2>3, <2>4 DEF StartsHold
  <2>6. WiredHolds'
    BY <2>1 DEF WiredHolds, Stopping, AnyStop
  <2>7. StartWires'
    <3> SUFFICES ASSUME ~Stopping(AnyStop)
                 PROVE  /\ {regs[j] : j \in DOMAIN regs} \cup processHandlers
                             \subseteq Names(workers' \cap openWorkers')
                        /\ \A j \in DOMAIN regs : regs[j] \in schedulers'
      BY <2>1 DEF StartWires
    <3>1. openWorkers' = workers'
      BY <2>2 DEF WorkersOpen, Stopping, AnyStop
    <3>2. \A j \in DOMAIN regs : j \in 1..(k - 1)
      BY <1>0, <1>3
    <3> QED BY <2>2, <3>1, <3>2
  <2> QED BY <2>2, <2>5, <2>6, <2>7 DEF RunnerInv, StoppedIsClosed
<1> QED BY <1>2, <1>3

\* What a step that touches no Map, stop or start of the runner's keeps.
LEMMA SameRunner ==
  ASSUME RunnerInv,
         UNCHANGED <<scheduledRegistrations, started, mapVars, schedulers, callVars, wired,
                     strayed>>,
         processHandlers' = processHandlers \/ ~wired
  PROVE  RunnerInv'
  BY DEF RunnerInv, mapVars, callVars, MapsHold, StopsHold, WorkersOpen, StartsHold, WiredHolds,
         StoppedIsClosed, StartWires, Stopping

\* The same for a process() or an enqueue() of a runner that is started.
LEMMA DirectHolds ==
  ASSUME TypedInv, RunnerInv, started, NEW queued, NEW served, Make(queued, served),
         UNCHANGED <<scheduledRegistrations, started, schedulers, callVars, wired>>,
         processHandlers' \subseteq processHandlers \cup served
  PROVE  RunnerInv'
<1> SUFFICES ASSUME ~strayed' PROVE RunnerInv'
  BY DEF RunnerInv
<1>1. UNCHANGED <<starts, stops>>
  BY DEF callVars
<1>2. /\ ~strayed /\ MapsHold' /\ StopsHold' /\ WorkersOpen'
      /\ Names(workers') = Names(workers) \cup served
  BY <1>1, MakeHolds
<1>3. StartsHold /\ WiredHolds /\ StartWires
  BY <1>2 DEF RunnerInv
<1>4. StartsHold' /\ WiredHolds'
  BY <1>1, <1>2, <1>3 DEF StartsHold, WiredHolds, Stopping
<1>5. StartWires'
  <2> SUFFICES ASSUME wired
               PROVE  /\ {scheduledRegistrations[j] : j \in DOMAIN scheduledRegistrations}
                           \cup processHandlers' \subseteq Names(workers' \cap openWorkers')
                      /\ \A j \in DOMAIN scheduledRegistrations :
                             scheduledRegistrations[j] \in schedulers
    BY DEF StartWires
  <2>1. openWorkers' = workers'
    BY <1>1, <1>2, <1>3 DEF WiredHolds, WorkersOpen, Stopping
  <2>2. /\ {scheduledRegistrations[j] : j \in DOMAIN scheduledRegistrations} \cup processHandlers
             \subseteq Names(workers)
        /\ \A j \in DOMAIN scheduledRegistrations : scheduledRegistrations[j] \in schedulers
    BY <1>3 DEF StartWires, Names
  <2> QED BY <1>2, <2>1, <2>2
<1> QED BY <1>2, <1>4, <1>5 DEF RunnerInv, StoppedIsClosed

\* One step for each action: a stop() that goes on closes all that is open, since all that is
\* open is in a Map and the Map on its list.
LEMMA RunnerStep == TypedInv /\ RunnerInv /\ [BullMqNext]_runnerVars => RunnerInv'
<1> SUFFICES ASSUME TypedInv, RunnerInv, [BullMqNext]_runnerVars PROVE RunnerInv'
  OBVIOUS
<1>0. TypedInv' /\ TypeInv /\ FiniteInv
  BY TypedStep DEF TypedInv
<1>a. /\ scheduledRegistrations \in Seq(QueueNames) /\ Len(scheduledRegistrations) \in Nat
      /\ DOMAIN scheduledRegistrations = 1..Len(scheduledRegistrations)
      /\ starts \in Seq(StartCall) /\ Len(starts) \in Nat /\ DOMAIN starts = 1..Len(starts)
      /\ stops \in Seq(StopCall) /\ Len(stops) \in Nat /\ DOMAIN stops = 1..Len(stops)
      /\ strayed \in BOOLEAN /\ started \in BOOLEAN /\ wired \in BOOLEAN
  BY <1>0 DEF TypeInv
<1>b. ~strayed => /\ MapsHold /\ StopsHold /\ WorkersOpen /\ StartsHold /\ WiredHolds
                  /\ StoppedIsClosed /\ StartWires
  BY DEF RunnerInv
<1>1. ASSUME NEW n \in QueueNames, Schedule(n) PROVE RunnerInv'
  <2>1. /\ ~started /\ scheduledRegistrations' = Append(scheduledRegistrations, n)
        /\ UNCHANGED <<processHandlers, started, mapVars, schedulers, callVars, wired, strayed>>
    BY <1>1 DEF Schedule
  <2>2. ~strayed => StartsHold' /\ StartWires' /\ WiredHolds'
    BY <1>b, <2>1 DEF StartsHold, WiredHolds, StartWires, callVars, Stopping
  <2> QED
    BY <1>b, <2>1, <2>2 DEF RunnerInv, mapVars, callVars, MapsHold, StopsHold, WorkersOpen,
                            StoppedIsClosed, Stopping
<1>2. ASSUME NEW n \in QueueNames, Process(n) PROVE RunnerInv'
  <2>1. /\ processHandlers' = processHandlers \cup {n}
        /\ UNCHANGED <<scheduledRegistrations, started, schedulers, callVars, wired>>
        /\ IF started THEN Make({}, {n}) ELSE UNCHANGED <<mapVars, strayed>>
    BY <1>2 DEF Process
  <2>2. CASE started
    BY <2>1, <2>2, DirectHolds
  <2>3. CASE ~started
    <3>1. strayed \/ ~wired
      BY <1>b, <2>3 DEF WiredHolds
    <3>2. CASE strayed
      BY <2>1, <2>3, <3>2 DEF RunnerInv
    <3>3. CASE ~wired
      BY <2>1, <2>3, <3>3, SameRunner
    <3> QED BY <3>1, <3>2, <3>3
  <2> QED BY <1>a, <2>2, <2>3
<1>3. ASSUME NEW n \in QueueNames, Enqueue(n) PROVE RunnerInv'
  <2>1. /\ started /\ Make({n}, {})
        /\ UNCHANGED <<scheduledRegistrations, processHandlers, started, schedulers, callVars,
                       wired>>
    BY <1>3 DEF Enqueue
  <2> QED BY <2>1, DirectHolds
<1>4. CASE Start
  <2>1. PICK x : /\ starts' = Append(starts, x) /\ x.at # "upsert"
    <3>1. starts' = Append(starts, [at |-> IF started THEN "resolved" ELSE "import", k |-> 0])
      BY <1>4 DEF Start
    <3>2. [at |-> IF started THEN "resolved" ELSE "import", k |-> 0].at # "upsert"
      OBVIOUS
    <3> QED BY <3>1, <3>2
  <2>2. UNCHANGED <<scheduledRegistrations, processHandlers, started, mapVars, schedulers, stops,
                    wired, strayed>>
    BY <1>4 DEF Start
  <2>3. ~strayed => StartsHold'
    <3> SUFFICES ASSUME ~strayed, NEW c \in DOMAIN starts', starts'[c].at = "upsert"
                 PROVE  /\ started
                        /\ \A j \in 1..(starts'[c].k - 1) :
                               scheduledRegistrations[j] \in Names(workers) \cap schedulers
      BY <2>2 DEF StartsHold, mapVars
    <3>1. c \in DOMAIN starts /\ starts'[c] = starts[c]
      BY <1>a, <2>1
    <3> QED BY <1>b, <3>1 DEF StartsHold
  <2> QED
    BY <1>b, <2>2, <2>3 DEF RunnerInv, mapVars, MapsHold, StopsHold, WorkersOpen, WiredHolds,
                            StoppedIsClosed, StartWires, Stopping
<1>5. ASSUME NEW c \in DOMAIN starts, Imported(c) PROVE RunnerInv'
  <2>1. /\ GoOn(c, 1, {}) /\ started' = TRUE
        /\ UNCHANGED <<scheduledRegistrations, processHandlers, schedulers, stops>>
    BY <1>5 DEF Imported
  <2>2. \A j \in 1..(1 - 1) : FALSE
    OBVIOUS
  <2>3. CASE strayed'
    BY <2>3 DEF RunnerInv
  <2>4. CASE ~strayed'
    BY <1>0, <2>1, <2>2, <2>4, GoOnHolds
  <2> QED BY <2>3, <2>4
<1>6. ASSUME NEW c \in DOMAIN starts, UpsertReturns(c) PROVE RunnerInv'
  <2> DEFINE k == starts[c].k
             n == scheduledRegistrations[k]
  <2>1. /\ GoOn(c, k + 1, {n}) /\ schedulers' = schedulers \cup {n} /\ starts[c].at = "upsert"
        /\ UNCHANGED <<scheduledRegistrations, processHandlers, started, stops>>
    BY <1>6 DEF UpsertReturns
  <2>2. k \in DOMAIN scheduledRegistrations /\ k \in Nat /\ k + 1 \in Nat \ {0}
    BY <1>0, <1>a, <2>1 DEF TypeInv, UpsertsInHand
  <2>3. CASE strayed'
    BY <2>3 DEF RunnerInv
  <2>4. CASE ~strayed'
    <3>1. ~strayed
      BY <2>1, <2>4 DEF GoOn, Make
    <3>2. /\ started
          /\ \A j \in 1..(k - 1) :
                 scheduledRegistrations[j] \in Names(workers) \cap schedulers
      BY <1>b, <2>1, <3>1 DEF StartsHold
    <3> DEFINE m == k + 1
    <3>3. \A j \in 1..(m - 1) : j \in 1..(k - 1) \/ j = k
      BY <2>2
    <3>4. \A j \in 1..(m - 1) : j \in DOMAIN scheduledRegistrations =>
              scheduledRegistrations[j] \in (Names(workers) \cup {n}) \cap schedulers'
      BY <2>1, <3>2, <3>3
    <3>5. m \in Nat \ {0} /\ GoOn(c, m, {n}) /\ schedulers \subseteq schedulers' /\ started'
      BY <2>1, <2>2, <3>2
    <3> HIDE DEF m, n, k
    <3> QED BY <1>0, <2>1, <2>4, <3>4, <3>5, GoOnHolds
  <2> QED BY <2>3, <2>4
<1>7. ASSUME NEW c \in DOMAIN starts, UpsertRejects(c) PROVE RunnerInv'
  <2>1. /\ starts' = [starts EXCEPT ![c].at = "rejected"]
        /\ UNCHANGED <<scheduledRegistrations, processHandlers, started, mapVars, schedulers,
                       stops, wired, strayed>>
    BY <1>7 DEF UpsertRejects
  <2>a. starts[c] \in StartCall
    BY <1>a
  <2>2. \A d \in DOMAIN starts' : d \in DOMAIN starts
          /\ (d # c => starts'[d] = starts[d]) /\ (d = c => starts'[d].at = "rejected")
    BY <2>1, <2>a DEF StartCall
  <2>3. ~strayed => StartsHold'
    BY <1>b, <2>1, <2>2 DEF StartsHold, mapVars
  <2> QED
    BY <1>b, <2>1, <2>3 DEF RunnerInv, mapVars, MapsHold, StopsHold, WorkersOpen, WiredHolds,
                            StoppedIsClosed, StartWires, Stopping
<1>8. CASE Stop
  <2>1. PICK x : /\ stops' = Append(stops, x) /\ x.at \in {"workers", "resolved"}
                 /\ x.at = "workers" => x.closing = workers
                 /\ (x.at = "resolved" => ~started)
    <3>1. CASE started
      <4>1. stops' = Append(stops, [at |-> "workers", closing |-> workers])
        BY <1>8, <3>1 DEF Stop
      <4> QED BY <3>1, <4>1
    <3>2. CASE ~started
      <4>1. stops' = Append(stops, [at |-> "resolved", closing |-> {}])
        BY <1>8, <3>2 DEF Stop
      <4> QED BY <3>2, <4>1
    <3> QED BY <1>a, <3>1, <3>2
  <2>2. /\ wired' = (wired /\ ~started)
        /\ UNCHANGED <<scheduledRegistrations, processHandlers, started, mapVars, schedulers,
                       starts, strayed>>
    BY <1>8 DEF Stop
  <2>3. /\ \A c \in DOMAIN stops' : \/ c \in DOMAIN stops /\ stops'[c] = stops[c]
                                    \/ stops'[c] = x
        /\ \A c \in DOMAIN stops : c \in DOMAIN stops' /\ stops'[c] = stops[c]
    BY <1>a, <2>1
  <2> SUFFICES ASSUME ~strayed PROVE RunnerInv'
    BY <2>2 DEF RunnerInv
  <2>4. ~wired'
    BY <1>b, <2>2 DEF WiredHolds
  <2>5. StopsHold'
    <3> SUFFICES ASSUME NEW c \in DOMAIN stops'
                 PROVE  /\ stops'[c].at = "workers" => workers \subseteq stops'[c].closing
                        /\ stops'[c].at = "queues" =>
                             openWorkers = {} /\ queues \subseteq stops'[c].closing
      BY <2>2 DEF StopsHold, mapVars
    <3> QED BY <1>b, <2>1, <2>3 DEF StopsHold
  <2>6. WorkersOpen'
    BY <1>b, <2>2, <2>3 DEF WorkersOpen, Stopping, mapVars
  <2> QED
    BY <1>b, <2>2, <2>4, <2>5, <2>6 DEF RunnerInv, mapVars, MapsHold, WiredHolds, StartsHold,
                                        StoppedIsClosed, StartWires
<1>9. ASSUME NEW c \in DOMAIN stops, WorkersClosed(c) PROVE RunnerInv'
  <2> DEFINE x == [at |-> "queues", closing |-> queues]
  <2>1. /\ stops[c].at = "workers" /\ openWorkers' = openWorkers \ stops[c].closing
        /\ stops' = [stops EXCEPT ![c] = x]
        /\ UNCHANGED <<scheduledRegistrations, processHandlers, started, queues, workers,
                       openQueues, schedulers, starts, wired, strayed>>
    BY <1>9 DEF WorkersClosed
  <2>2. x.at = "queues" /\ x.closing = queues
    OBVIOUS
  <2> HIDE DEF x
  <2>3. /\ DOMAIN stops' = DOMAIN stops /\ stops'[c] = x
        /\ \A d \in DOMAIN stops \ {c} : stops'[d] = stops[d]
    BY <2>1
  <2> SUFFICES ASSUME ~strayed PROVE RunnerInv'
    BY <2>1 DEF RunnerInv
  <2>4. openWorkers' = {}
    BY <1>b, <2>1 DEF MapsHold, StopsHold
  <2>5. StopsHold'
    <3> SUFFICES ASSUME NEW d \in DOMAIN stops
                 PROVE  /\ stops'[d].at = "workers" => workers \subseteq stops'[d].closing
                        /\ stops'[d].at = "queues" =>
                             openWorkers' = {} /\ queues \subseteq stops'[d].closing
      BY <2>1, <2>3 DEF StopsHold
    <3> QED BY <1>b, <2>2, <2>3, <2>4 DEF StopsHold
  <2>6. Stopping(AnyStop) /\ Stopping(AnyStop)'
    BY <2>1, <2>2, <2>3 DEF Stopping, AnyStop
  <2>7. ~wired /\ WorkersOpen'
    BY <1>b, <2>6 DEF WiredHolds, WorkersOpen, AnyStop, Stopping
  <2> QED
    BY <1>b, <2>1, <2>4, <2>5, <2>7 DEF RunnerInv, MapsHold, WiredHolds, StartsHold,
                                        StoppedIsClosed, StartWires
<1>10. ASSUME NEW c \in DOMAIN stops, QueuesClosed(c) PROVE RunnerInv'
  <2> DEFINE x == [at |-> "resolved", closing |-> {}]
  <2>1. /\ stops[c].at = "queues" /\ openQueues' = openQueues \ stops[c].closing
        /\ queues' = {} /\ workers' = {} /\ started' = FALSE
        /\ stops' = [stops EXCEPT ![c] = x]
        /\ strayed' = (strayed \/ \E s \in DOMAIN starts : starts[s].at = "upsert")
        /\ UNCHANGED <<scheduledRegistrations, processHandlers, openWorkers, schedulers, starts,
                       wired>>
    BY <1>10 DEF QueuesClosed
  <2>2. x.at = "resolved"
    OBVIOUS
  <2> HIDE DEF x
  <2>3. /\ DOMAIN stops' = DOMAIN stops /\ stops'[c] = x
        /\ \A d \in DOMAIN stops \ {c} : stops'[d] = stops[d]
    BY <2>1
  <2> SUFFICES ASSUME ~strayed' PROVE RunnerInv'
    BY DEF RunnerInv
  <2>4. ~strayed /\ \A s \in DOMAIN starts : starts[s].at # "upsert"
    BY <2>1
  <2>5. openWorkers' = {} /\ openQueues' = {}
    BY <1>b, <2>1, <2>4 DEF MapsHold, StopsHold
  <2>6. StopsHold'
    BY <2>1, <2>5 DEF StopsHold
  <2>7. ~wired
    BY <1>b, <2>1, <2>4 DEF WiredHolds, Stopping
  <2>8. MapsHold' /\ WorkersOpen'
    BY <2>1, <2>5 DEF MapsHold, WorkersOpen, OncePerName
  <2> QED
    BY <2>1, <2>4, <2>5, <2>6, <2>7, <2>8 DEF RunnerInv, WiredHolds, StartsHold,
                                              StoppedIsClosed, StartWires
<1>11. ASSUME NEW c \in DOMAIN stops, CloseRejects(c) PROVE RunnerInv'
  <2> DEFINE x == [at |-> "rejected", closing |-> {}]
  <2>1. /\ stops[c].at \in {"workers", "queues"} /\ stops' = [stops EXCEPT ![c] = x]
        /\ UNCHANGED <<scheduledRegistrations, processHandlers, started, queues, workers,
                       schedulers, starts, wired, strayed>>
    BY <1>11 DEF CloseRejects
  <2>2. openWorkers' \subseteq openWorkers /\ openQueues' \subseteq openQueues
    BY <1>11 DEF CloseRejects
  <2>3. x.at = "rejected"
    OBVIOUS
  <2> HIDE DEF x
  <2>4. /\ DOMAIN stops' = DOMAIN stops /\ stops'[c] = x
        /\ \A d \in DOMAIN stops \ {c} : stops'[d] = stops[d]
    BY <2>1
  <2> SUFFICES ASSUME ~strayed PROVE RunnerInv'
    BY <2>1 DEF RunnerInv
  <2>5. StopsHold'
    <3> SUFFICES ASSUME NEW d \in DOMAIN stops
                 PROVE  /\ stops'[d].at = "workers" => workers \subseteq stops'[d].closing
                        /\ stops'[d].at = "queues" =>
                             openWorkers' = {} /\ queues \subseteq stops'[d].closing
      BY <2>1, <2>4 DEF StopsHold
    <3> QED BY <1>b, <2>2, <2>3, <2>4 DEF StopsHold
  <2>6. Stopping(AnyStop) /\ Stopping(AnyStop)'
    BY <2>1, <2>3, <2>4 DEF Stopping, AnyStop
  <2>7. ~wired /\ WorkersOpen'
    BY <1>b, <2>6 DEF WiredHolds, WorkersOpen, AnyStop, Stopping
  <2> QED
    BY <1>b, <2>1, <2>2, <2>5, <2>7 DEF RunnerInv, MapsHold, WiredHolds, StartsHold,
                                        StoppedIsClosed, StartWires
<1>12. CASE UNCHANGED runnerVars
  BY <1>12, SameRunner DEF runnerVars
<1> QED
  BY <1>1, <1>2, <1>3, <1>4, <1>5, <1>6, <1>7, <1>8, <1>9, <1>10, <1>11, <1>12 DEF BullMqNext

LEMMA RunnerInit == BullMqInit => RunnerInv
  BY DEF BullMqInit, RunnerInv, MapsHold, StopsHold, WorkersOpen, StartsHold, WiredHolds,
         StoppedIsClosed, StartWires, OncePerName, Stopping

LEMMA RunnerInvHolds == BullMqSpec => [](TypedInv /\ RunnerInv)
<1> QED BY TypedInit, TypedStep, RunnerInit, RunnerStep, PTL DEF BullMqSpec

\* Unless a stop() overlapped with something that opens them, a name has one queue and one
\* worker open, nothing is open of a runner that is not started, and a start() that resolved
\* has given every registration and handler a worker and every registration its scheduler.
THEOREM NamesHaveOneWorker == BullMqSpec => []OneWorkerPerName
<1>1. RunnerInv => OneWorkerPerName
  BY DEF RunnerInv, OneWorkerPerName, MapsHold, NoSecondWorker, OncePerName
<1> QED BY <1>1, RunnerInvHolds, PTL
===============================================================================
