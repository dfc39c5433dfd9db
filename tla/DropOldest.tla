----------------------------- MODULE DropOldest -----------------------------
(***************************************************************************)
(* The operations of a queue that drops its oldest element when it is      *)
(* full, on plain sequences.  DropOldestFifo is the specification made of  *)
(* them, RingBuffer the C code that implements it, and Mqtt a user.        *)
(***************************************************************************)
EXTENDS Integers, Sequences

\* The queue s of at most cap elements after d was queued.
PushTo(s, cap, d) == Append(IF Len(s) = cap THEN Tail(s) ELSE s, d)

\* The queue after one element was taken; an empty queue stays empty.
Pop(s) == IF s = <<>> THEN s ELSE Tail(s)

\* The answer of a read at C index i, where 0 is the oldest element: the
\* element as a one-element sequence, or <<>> for "0 items".
ItemAt(s, i) == IF i < Len(s) THEN <<s[i + 1]>> ELSE <<>>
=============================================================================
