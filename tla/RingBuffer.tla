----------------------------- MODULE RingBuffer -----------------------------
(***************************************************************************)
(* The ring buffer behind every queue of the platform layer:               *)
(* platform/util/mqtt/mqtt_ringbuffer.c, of which tbmqtt_ringbuffer.c and  *)
(* the four chan_*ringbuffer.c files are copies with another element type  *)
(* and size (0x100, 0x200, 0x80).                                          *)
(*                                                                         *)
(* Callers serialise the operations with a mutex, so each operation on one *)
(* element is one action.  The two array operations are loops of such      *)
(* operations and are modelled as the loop: their caller keeps the mutex,  *)
(* so no other operation starts before the loop has ended.                 *)
(***************************************************************************)
EXTENDS Integers, Sequences

CONSTANTS Elem,     \* the values that can be queued
          Garbage,  \* what a never written slot holds
          SIZE,     \* MQTT_RING_BUFFER_SIZE
          MaxArr    \* longest array given to an array operation (model bound)

\* mqtt_ringbuffer.h:12 refuses at compile time a size that is not a power of
\* two; this is what makes "& MASK" the remainder by SIZE.
ASSUME SizeAssumption == SIZE \in Nat /\ SIZE >= 2
ASSUME PowerOfTwo == \E k \in 1..SIZE : SIZE = 2^k
ASSUME MaxArrAssumption == MaxArr \in Nat

VARIABLES buffer,      \* buffer[]
          head_index,  \* next slot to write
          tail_index,  \* oldest element
          out,         \* answer of the last one-element operation
          op,          \* history: which operation that was
          todo,        \* queue_arr: elements still to be queued
          want,        \* dequeue_arr: how many elements may still be taken
          got,         \* dequeue_arr: the elements stored in data[]
          atCall       \* history: contents when dequeue_arr was called

idx == <<head_index, tail_index>>
loop == <<todo, want, got, atCall>>
ringvars == <<buffer, head_index, tail_index, out, op, todo, want, got, atCall>>

Slot == 0..(SIZE - 1)

\* "i & MASK" of a possibly negative index difference.
Mask(i) == i % SIZE

num_items == Mask(head_index - tail_index)
is_empty == head_index = tail_index
is_full == num_items = SIZE - 1

\* The elements in the buffer, oldest first: what the buffer stands for.
Contents == [i \in 1..num_items |-> buffer[Mask(tail_index + (i - 1))]]

TypeOK == /\ buffer \in [Slot -> Elem \cup {Garbage}]
          /\ head_index \in Slot
          /\ tail_index \in Slot
          /\ out \in Seq(Elem)
          /\ op \in {"init", "queue", "dequeue", "peek"}
          /\ todo \in Seq(Elem)
          /\ want \in Nat
          /\ got \in Seq(Elem)
          /\ atCall \in Seq(Elem)
-----------------------------------------------------------------------------
RingInit == /\ buffer = [i \in Slot |-> Garbage]
            /\ head_index = 0
            /\ tail_index = 0
            /\ out = <<>> /\ op = "init"
            /\ todo = <<>>
            /\ want = 0
            /\ got = <<>>
            /\ atCall = <<>>

\* No array operation is under way.
Idle == todo = <<>> /\ want = 0

RbInit == /\ Idle
          /\ head_index' = 0
          /\ tail_index' = 0
          /\ out' = <<>> /\ op' = "init"
          /\ got' = <<>>
          /\ atCall' = <<>>
          /\ UNCHANGED <<buffer, todo, want>>

\* A full buffer gives up its oldest element before the new one is placed.
MutPlace(d) == /\ tail_index' = tail_index
               /\ buffer' = [buffer EXCEPT ![head_index] = d]
               /\ head_index' = Mask(head_index + 1)
               /\ out' = <<>> /\ op' = "queue"
Place(d) == /\ tail_index' = IF is_full THEN Mask(tail_index + 1) ELSE tail_index
            /\ buffer' = [buffer EXCEPT ![head_index] = d]
            /\ head_index' = Mask(head_index + 1)
            /\ out' = <<>> /\ op' = "queue"

\* The oldest element is returned and its slot given up; 0 items otherwise.
Take == /\ out' = IF is_empty THEN <<>> ELSE <<buffer[tail_index]>>
        /\ tail_index' = IF is_empty THEN tail_index ELSE Mask(tail_index + 1)
        /\ op' = "dequeue"
        /\ UNCHANGED <<buffer, head_index>>

Queue(d) == Idle /\ Place(d) /\ UNCHANGED loop

Dequeue == Idle /\ Take /\ UNCHANGED loop

Peek(i) == /\ Idle
           /\ out' = IF i >= num_items THEN <<>> ELSE <<buffer[Mask(tail_index + i)]>>
           /\ op' = "peek"
           /\ UNCHANGED <<buffer, idx, loop>>

\* queue_arr(data, size): one queue operation per element.
QueueArr(ds) == /\ Idle
                /\ todo' = ds
                /\ UNCHANGED <<buffer, idx, out, op, want, got, atCall>>

QueueArrStep == /\ todo # <<>>
                /\ Place(Head(todo))
                /\ todo' = Tail(todo)
                /\ UNCHANGED <<want, got, atCall>>

\* dequeue_arr(data, len): dequeue until len elements are stored or none is left.
DequeueArr(n) == /\ Idle
                 /\ got' = <<>>
                 /\ want' = IF is_empty THEN 0 ELSE n
                 /\ atCall' = Contents
                 /\ UNCHANGED <<buffer, idx, out, op, todo>>

MutDequeueArrStep == /\ want > 0
                     /\ Take
                     /\ got' = out'
                     /\ want' = IF is_empty THEN 0 ELSE want - 1
                     /\ UNCHANGED <<todo, atCall>>
DequeueArrStep == /\ want > 0
                  /\ Take
                  /\ got' = got \o out'
                  /\ want' = IF is_empty THEN 0 ELSE want - 1
                  /\ UNCHANGED <<todo, atCall>>

RingNext == \/ RbInit
            \/ \E d \in Elem : Queue(d)
            \/ Dequeue
            \/ \E i \in 0..(SIZE - 1) : Peek(i)
            \/ \E n \in 0..MaxArr : \E ds \in [1..n -> Elem] : QueueArr(ds)
            \/ QueueArrStep
            \/ \E n \in 0..MaxArr : DequeueArr(n)
            \/ DequeueArrStep

RingSpec == RingInit /\ [][RingNext]_ringvars
-----------------------------------------------------------------------------
\* The drop-oldest queue this buffer implements: SIZE - 1 elements fit,
\* mqtt_ringbuffer.h:7 ("only RING_BUFFER_SIZE-1 items can be contained").
Fifo == INSTANCE DropOldestFifo WITH q <- Contents, Cap <- SIZE - 1

\* Every step of the index arithmetic is the operation of the drop-oldest
\* queue that the code was called for, on Contents, or leaves the queue and its
\* answer alone.
FifoSpec == Fifo!Spec

\* Every slot between tail and head was written: no read returns what a
\* never written slot happens to hold.
Written == \A i \in 1..num_items : buffer[Mask(tail_index + (i - 1))] \in Elem

\* dequeue_arr takes elements in order and loses none: what it has stored so
\* far followed by what is left is what the buffer held when it was called.
DequeueArrKeepsAll == want > 0 => got \o Contents = atCall
=============================================================================
