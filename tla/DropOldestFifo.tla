--------------------------- MODULE DropOldestFifo ---------------------------
(***************************************************************************)
(* What a ring buffer of the repository promises its users: a first-in     *)
(* first-out queue of at most Cap elements in which queueing to a full     *)
(* queue drops the oldest element instead of refusing the new one.         *)
(* out is the answer of the last operation: the element it returned as a   *)
(* one-element sequence, <<>> when it returned none ("0 items").  op is    *)
(* the operation: no other one may empty the queue the way init does.      *)
(***************************************************************************)
EXTENDS DropOldest

CONSTANTS Elem,   \* the values that can be queued
          Cap     \* the number of elements that fit, at least 1

VARIABLES q, out, op

vars == <<q, out, op>>

Push(s, d) == PushTo(s, Cap, d)
-----------------------------------------------------------------------------
Init == q = <<>> /\ out = <<>> /\ op = "init"

Reset == q' = <<>> /\ out' = <<>> /\ op' = "init"

Queue(d) == q' = Push(q, d) /\ out' = <<>> /\ op' = "queue"

Dequeue == q' = Pop(q) /\ out' = ItemAt(q, 0) /\ op' = "dequeue"

Peek(i) == out' = ItemAt(q, i) /\ op' = "peek" /\ UNCHANGED q

Next == \/ Reset
        \/ \E d \in Elem : Queue(d)
        \/ Dequeue
        \/ \E i \in 0..Cap : Peek(i)

Spec == Init /\ [][Next]_vars
=============================================================================
