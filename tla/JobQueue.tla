------------------------------ MODULE JobQueue ------------------------------
(***************************************************************************)
(* What a JobRunner's enqueue/process pair promises to its callers: a      *)
(* single serial first-in first-out queue.  An accepted item is begun at   *)
(* most once, in the order of acceptance, and no two items are ever being  *)
(* handled at the same time.                                               *)
(*                                                                         *)
(* An idle queue may begin its head in the very step that accepts an item: *)
(* a runner that runs its handler synchronously, on the caller's stack,    *)
(* does exactly that.                                                      *)
(***************************************************************************)
EXTENDS Naturals, Sequences

CONSTANTS Items,   \* what may be enqueued
          NoItem   \* "nothing is being handled"

VARIABLES queue,   \* accepted, not begun yet
          active,  \* the item being handled, or NoItem
          begun    \* every item begun so far, in order

queueVars == <<queue, active, begun>>

Init == /\ queue = <<>>
        /\ active = NoItem
        /\ begun = <<>>

Fresh(i) == /\ \A k \in 1..Len(queue) : queue[k] # i
            /\ \A k \in 1..Len(begun) : begun[k] # i

BeginHeadOf(q) == /\ active = NoItem
                  /\ q # <<>>
                  /\ active' = Head(q)
                  /\ queue' = Tail(q)
                  /\ begun' = Append(begun, Head(q))

Accept(i) == /\ Fresh(i)
             /\ queue' = Append(queue, i)
             /\ UNCHANGED <<active, begun>>

AcceptAndBegin(i) == /\ Fresh(i)
                     /\ BeginHeadOf(Append(queue, i))

Begin == BeginHeadOf(queue)

Finish == /\ active # NoItem
          /\ active' = NoItem
          /\ UNCHANGED <<queue, begun>>

Next == \/ \E i \in Items : Accept(i) \/ AcceptAndBegin(i)
        \/ Begin
        \/ Finish

Spec == Init /\ [][Next]_queueVars
=============================================================================
