--------------------------- MODULE MqttCache_proof ---------------------------
(***************************************************************************)
(* Proofs about the cache of the mqtt client, for every capacity, every    *)
(* pair of thresholds and every number of messages, faults and restarts:   *)
(* without a race on the transmit buffer moving a message to the table and *)
(* back loses none, and without an error on the way back none is there     *)
(* twice or published twice.                                               *)
(***************************************************************************)
EXTENDS MqttCache, SequenceTheorems, TLAPS

Msg == 0..MaxMsg

\* What a sequence holds, and that it holds nothing twice.
Distinct(s) == \A i, j \in 1..Len(s) : s[i] = s[j] => i = j

Published == {m \in 1..MaxMsg : sent[m] > 0}

\* Where a message that left the table must be.
Elsewhere == Range(txbuf) \cup gone \cup Published \cup {Blank}

CacheType == /\ txbuf \in Seq(Msg) /\ table \in Seq(Msg)
             /\ ce \in Msg /\ pe \in Msg /\ made \in Msg
             /\ sent \in [1..MaxMsg -> 0..2]

\* The publisher dequeues what it has published, the cache thread what is in
\* the table, and it deletes the row whose message is elsewhere.
VanishInv == /\ CacheType
             /\ ppc = "dequeue" => pe \in Published \cup {Blank}
             /\ cpc = "dequeue" => ce \in Cached
             /\ cpc \in {"queue", "delete"} /\ row = 1 => table # <<>> /\ ce = Head(table)
             /\ ~raced => /\ 1..made \subseteq Elsewhere \cup Cached
                          /\ cpc = "delete" /\ row = 1 => ce \in Elsewhere

\* The windows in which a message may be in the buffer and in the table: it is the
\* one that the cache thread deals with.
Both == IF cpc \in {"dequeue", "delete"} THEN {ce} ELSE {}

\* What was published is still there only while the publisher is about to dequeue it,
\* or in the table while the cache thread deals with it.
Leaving(m) == \/ ppc = "dequeue" /\ pe = m
              \/ m \in Both /\ m \notin Range(txbuf)

Once == /\ txbuf \in Seq(1..made) /\ table \in Seq(1..made)
        /\ Distinct(txbuf) /\ Distinct(table)
        /\ cpc # "idle" => ce \in 1..made
        /\ ppc # "idle" => pe \in 1..made
        /\ Range(txbuf) \cap Cached \subseteq Both
        /\ cpc = "insert" => ce \notin Cached
        /\ cpc \in {"queue", "delete"} => row = 1 /\ table # <<>> /\ ce = Head(table)
        /\ \A m \in 1..MaxMsg : sent[m] <= 1 /\ (m > made => sent[m] = 0)
        /\ ppc = "publish" => sent[pe] = 0
        /\ \A m \in Range(txbuf) \cup Cached : sent[m] = 0 \/ Leaving(m)

Undisturbed == ~raced /\ ~erred /\ restarts = 0

OnceInv == /\ made \in Msg /\ restarts \in Nat /\ sent \in [1..MaxMsg -> 0..2]
           /\ Undisturbed => Once
-----------------------------------------------------------------------------
(* What the operations of a queue do to the set of its elements.           *)

\* Appending adds the new element.
LEMMA RangeAppend ==
  ASSUME NEW S, NEW s \in Seq(S), NEW x \in S
  PROVE  /\ Append(s, x) \in Seq(S)
         /\ Range(Append(s, x)) = Range(s) \cup {x}
         /\ Distinct(s) /\ x \notin Range(s) => Distinct(Append(s, x))
<1> DEFINE t == Append(s, x)
<1>1. /\ t \in Seq(S) /\ Len(s) \in Nat /\ Len(t) = Len(s) + 1
      /\ \A i \in 1..Len(s) : t[i] = s[i]
      /\ t[Len(s) + 1] = x
      /\ DOMAIN s = 1..Len(s) /\ DOMAIN t = 1..Len(t)
  BY AppendProperties, LenProperties
<1> HIDE DEF t
<1>2. \A i : i \in 1..Len(t) <=> i \in 1..Len(s) \/ i = Len(s) + 1
  BY <1>1
<1>3. Range(t) = Range(s) \cup {x}
  BY <1>1, <1>2 DEF Range
<1>4. ASSUME Distinct(s), x \notin Range(s) PROVE Distinct(t)
  BY <1>1, <1>2, <1>4 DEF Distinct, Range
<1> QED BY <1>1, <1>3, <1>4 DEF t

\* Taking the oldest element removes it.
LEMMA RangeTail ==
  ASSUME NEW S, NEW s \in Seq(S), s # <<>>
  PROVE  /\ Tail(s) \in Seq(S) /\ Head(s) \in S
         /\ Range(s) = Range(Tail(s)) \cup {Head(s)}
         /\ Distinct(s) => Distinct(Tail(s)) /\ Head(s) \notin Range(Tail(s))
<1> DEFINE t == Tail(s)
<1>1. /\ t \in Seq(S) /\ Len(s) \in Nat /\ Len(s) # 0 /\ Len(t) = Len(s) - 1
      /\ \A i \in 1..Len(t) : t[i] = s[i + 1]
      /\ Head(s) = s[1] /\ Head(s) \in S
      /\ DOMAIN s = 1..Len(s) /\ DOMAIN t = 1..Len(t)
  BY HeadTailProperties, LenProperties, EmptySeq
<1> HIDE DEF t
<1>2. \A i \in 1..Len(t) : i + 1 \in 1..Len(s) /\ i + 1 # 1
  BY <1>1
<1>3. \A i \in 1..Len(s) : i = 1 \/ (i - 1 \in 1..Len(t) /\ (i - 1) + 1 = i)
  BY <1>1
<1>4. Range(s) = Range(t) \cup {Head(s)}
  <2>1. ASSUME NEW y \in Range(s) PROVE y \in Range(t) \cup {Head(s)}
    <3>1. PICK i \in 1..Len(s) : y = s[i]
      BY <1>1 DEF Range
    <3>2. i = 1 \/ t[i - 1] = s[i]
      BY <1>1, <1>3
    <3> QED BY <1>1, <1>3, <3>1, <3>2 DEF Range
  <2>2. ASSUME NEW y \in Range(t) PROVE y \in Range(s)
    BY <1>1, <1>2, SMTT(30) DEF Range
  <2>3. Head(s) \in Range(s)
    BY <1>1 DEF Range
  <2> QED BY <2>1, <2>2, <2>3
<1>5. ASSUME Distinct(s) PROVE Distinct(t) /\ Head(s) \notin Range(t)
  <2>1. ASSUME NEW i \in 1..Len(t), NEW j \in 1..Len(t), t[i] = t[j] PROVE i = j
    <3>1. i + 1 = j + 1
      BY <1>1, <1>2, <1>5, <2>1 DEF Distinct
    <3> QED BY <3>1
  <2>2. ASSUME NEW i \in 1..Len(t) PROVE t[i] # s[1]
    BY <1>1, <1>2, <1>5 DEF Distinct
  <2> QED BY <1>1, <2>1, <2>2 DEF Distinct, Range
<1> QED BY <1>1, <1>4, <1>5 DEF t

\* The buffer after a message was queued, and what was dropped for it.
LEMMA QueueEffect ==
  ASSUME NEW S, txbuf \in Seq(S), NEW m \in S, mqtt_queue_txbuf(m)
  PROVE  /\ txbuf' \in Seq(S)
         /\ Range(txbuf) \cup {m} \cup gone \subseteq Range(txbuf') \cup gone'
         /\ Range(txbuf') \subseteq Range(txbuf) \cup {m}
         /\ Distinct(txbuf) /\ m \notin Range(txbuf) => Distinct(txbuf')
<1>1. CASE Len(txbuf) = Capacity
  <2>1. txbuf # <<>>
    BY <1>1, CacheAssumption
  <2>2. /\ Tail(txbuf) \in Seq(S)
        /\ Range(txbuf) = Range(Tail(txbuf)) \cup {Head(txbuf)}
        /\ Distinct(txbuf) => Distinct(Tail(txbuf))
    BY <2>1, RangeTail
  <2>3. txbuf' = Append(Tail(txbuf), m) /\ gone' = gone \cup {Head(txbuf)}
    BY <1>1 DEF mqtt_queue_txbuf
  <2> DEFINE t == Tail(txbuf)
  <2> HIDE DEF t
  <2>4. /\ Append(t, m) \in Seq(S) /\ Range(Append(t, m)) = Range(t) \cup {m}
        /\ Distinct(t) /\ m \notin Range(t) => Distinct(Append(t, m))
    <3>1. t \in Seq(S)
      BY <2>2 DEF t
    <3> QED BY <3>1, RangeAppend
  <2> QED BY <2>2, <2>3, <2>4 DEF t
<1>2. CASE Len(txbuf) # Capacity
  <2>1. txbuf' = Append(txbuf, m) /\ gone' = gone
    BY <1>2 DEF mqtt_queue_txbuf
  <2>2. /\ txbuf' \in Seq(S) /\ Range(txbuf') = Range(txbuf) \cup {m}
        /\ Distinct(txbuf) /\ m \notin Range(txbuf) => Distinct(txbuf')
    BY <2>1, RangeAppend
  <2> QED BY <2>1, <2>2
<1> QED BY <1>1, <1>2

\* The buffer after a dequeue that met the message it was meant for.
LEMMA DequeueEffect ==
  ASSUME NEW S, txbuf \in Seq(S), NEW e, mqtt_dequeue_txbuf(e)
  PROVE  /\ txbuf' \in Seq(S)
         /\ ~raced' => /\ ~raced /\ Range(txbuf) = Range(txbuf') \cup {e}
                       /\ Distinct(txbuf) => Distinct(txbuf') /\ e \notin Range(txbuf')
<1>1. CASE txbuf = <<>>
  BY <1>1 DEF mqtt_dequeue_txbuf
<1>2. CASE txbuf # <<>>
  <2>1. /\ Tail(txbuf) \in Seq(S)
        /\ Range(txbuf) = Range(Tail(txbuf)) \cup {Head(txbuf)}
        /\ Distinct(txbuf) => Distinct(Tail(txbuf)) /\ Head(txbuf) \notin Range(Tail(txbuf))
    BY <1>2, RangeTail
  <2>2. txbuf' = Tail(txbuf) /\ (~raced' => ~raced /\ e = Head(txbuf))
    BY <1>2 DEF mqtt_dequeue_txbuf
  <2> QED BY <2>1, <2>2
<1> QED BY <1>1, <1>2
-----------------------------------------------------------------------------
(* Nothing vanishes.                                                       *)

\* The steps of the two threads, the producer, the connection and a restart.
LEMMA StepSplit ==
  ASSUME [Next]_vars
  PROVE  \/ Produce \/ PeekForCache \/ mqtt_cache_write_one_payload \/ DequeueCached
         \/ mqtt_cache_read_one_payload \/ QueueCached \/ mqtt_cache_delete_one_payload
         \/ mqtt_sm \/ mqtt_pub \/ DequeueSent \/ Connection \/ Restart
         \/ UNCHANGED vars
BY DEF Next, mqtt_deal_with_cache, Publisher

\* A message that is queued is in the buffer or drops one that is then gone.
LEMMA VanishQueue ==
  ASSUME VanishInv, NEW m \in Msg, mqtt_queue_txbuf(m), UNCHANGED sent
  PROVE  txbuf' \in Seq(Msg) /\ Elsewhere \cup {m} \subseteq Elsewhere'
<1>1. txbuf \in Seq(Msg)
  BY DEF VanishInv, CacheType
<1>2. /\ txbuf' \in Seq(Msg)
      /\ Range(txbuf) \cup {m} \cup gone \subseteq Range(txbuf') \cup gone'
  BY <1>1, QueueEffect
<1> QED BY <1>2 DEF Elsewhere, Published

\* What leaves the buffer in a dequeue that is no race was published or cached.
LEMMA VanishDequeue ==
  ASSUME VanishInv, NEW e, mqtt_dequeue_txbuf(e), UNCHANGED <<sent, gone>>
  PROVE  /\ txbuf' \in Seq(Msg)
         /\ ~raced' => ~raced /\ Elsewhere \subseteq Elsewhere' \cup {e}
<1>1. txbuf \in Seq(Msg)
  BY DEF VanishInv, CacheType
<1>2. /\ txbuf' \in Seq(Msg)
      /\ ~raced' => ~raced /\ Range(txbuf) = Range(txbuf') \cup {e}
  BY <1>1, DequeueEffect
<1> QED BY <1>2 DEF Elsewhere, Published

\* The invariant is preserved by every step.
LEMMA VanishStep ==
  ASSUME VanishInv, [Next]_vars
  PROVE  VanishInv'
<1> USE DEF buffer, db, cache, publisher, bounds
<1>0. /\ txbuf \in Seq(Msg) /\ table \in Seq(Msg) /\ ce \in Msg /\ pe \in Msg /\ made \in Msg
      /\ sent \in [1..MaxMsg -> 0..2] /\ MaxMsg \in Nat /\ Blank \in Msg
      /\ <<>> \in Seq(Msg)
  BY CacheAssumption, EmptySeq DEF VanishInv, CacheType, Msg, Blank
<1>1. CASE Produce
  <2>1. /\ made' = made + 1 /\ made' \in Msg /\ mqtt_queue_txbuf(made') /\ 1..made' = 1..made \cup {made'}
        /\ UNCHANGED <<db, cache, publisher, raced>>
    BY <1>0, <1>1 DEF Produce, Msg
  <2>2. txbuf' \in Seq(Msg) /\ Elsewhere \cup {made'} \subseteq Elsewhere'
    BY <2>1, VanishQueue
  <2> QED BY <1>0, <2>1, <2>2 DEF VanishInv, CacheType, Published, Cached
<1>2. CASE PeekForCache
  <2>1. Head(txbuf) \in Msg
    BY <1>0, <1>2, RangeTail DEF PeekForCache
  <2> QED BY <1>0, <1>2, <2>1 DEF PeekForCache, VanishInv, CacheType, Published, Cached, Elsewhere
<1>3. CASE mqtt_cache_write_one_payload
  <2>1. CASE table' = Append(table, ce) /\ cpc' = "dequeue" /\ UNCHANGED ce
    <3>1. table' \in Seq(Msg) /\ Cached' = Cached \cup {ce}
      BY <1>0, <2>1, RangeAppend DEF Cached
    <3> QED BY <1>0, <1>3, <2>1, <3>1
            DEF mqtt_cache_write_one_payload, VanishInv, CacheType, Published, Elsewhere
  <2>2. CASE UNCHANGED table /\ cpc' = "idle" /\ ce' = Blank
    BY <1>0, <1>3, <2>2
       DEF mqtt_cache_write_one_payload, VanishInv, CacheType, Published, Elsewhere, Cached
  <2> QED BY <1>3, <2>1, <2>2 DEF mqtt_cache_write_one_payload
<1>4. CASE DequeueCached
  <2>1. txbuf' \in Seq(Msg) /\ (~raced' => ~raced /\ Elsewhere \subseteq Elsewhere' \cup {ce})
    BY <1>4, VanishDequeue DEF DequeueCached
  <2>2. ce \in Cached /\ Cached' = Cached
    BY <1>4 DEF DequeueCached, VanishInv, Cached
  <2> QED BY <1>0, <1>4, <2>1, <2>2 DEF DequeueCached, VanishInv, CacheType, Published
<1>5. CASE mqtt_cache_read_one_payload
  <2>1. Head(table) \in Msg
    BY <1>0, <1>5, RangeTail DEF mqtt_cache_read_one_payload
  <2> QED BY <1>0, <1>5, <2>1
          DEF mqtt_cache_read_one_payload, VanishInv, CacheType, Published, Cached, Elsewhere
<1>6. CASE QueueCached
  <2>1. txbuf' \in Seq(Msg) /\ Elsewhere \cup {ce} \subseteq Elsewhere'
    BY <1>0, <1>6, VanishQueue DEF QueueCached
  <2> QED BY <1>0, <1>6, <2>1 DEF QueueCached, VanishInv, CacheType, Published, Cached
<1>7. CASE mqtt_cache_delete_one_payload
  <2>1. /\ cpc = "delete" /\ cpc' = "idle" /\ ce' = Blank
        /\ \/ row = 1 /\ table' = Tail(table)
           \/ UNCHANGED table
        /\ UNCHANGED <<txbuf, gone, ppc, pe, sent, raced, made>>
    BY <1>7 DEF mqtt_cache_delete_one_payload
  <2>2. CASE UNCHANGED table
    BY <1>0, <2>1, <2>2 DEF VanishInv, CacheType, Published, Cached, Elsewhere
  <2>3. CASE row = 1 /\ table' = Tail(table)
    <3>1. table # <<>> /\ ce = Head(table) /\ (~raced => ce \in Elsewhere)
      BY <2>1, <2>3 DEF VanishInv
    <3>2. table' \in Seq(Msg) /\ Cached = Cached' \cup {ce}
      BY <1>0, <2>3, <3>1, RangeTail DEF Cached
    <3> QED BY <1>0, <2>1, <3>1, <3>2 DEF VanishInv, CacheType, Published, Elsewhere
  <2> QED BY <2>1, <2>2, <2>3
<1>8. CASE mqtt_sm
  <2>1. txbuf # <<>> => Head(txbuf) \in Msg
    BY <1>0, RangeTail
  <2> QED BY <1>0, <1>8, <2>1 DEF mqtt_sm, VanishInv, CacheType, Published, Cached, Elsewhere
<1>9. CASE mqtt_pub
  <2>1. CASE UNCHANGED sent /\ ppc' = "idle" /\ pe' = Blank
    BY <1>0, <1>9, <2>1 DEF mqtt_pub, VanishInv, CacheType, Published, Cached, Elsewhere
  <2>2. CASE /\ ppc' = "dequeue" /\ UNCHANGED pe
             /\ sent' = [m \in DOMAIN sent |-> IF m = pe /\ sent[m] < 2 THEN sent[m] + 1 ELSE sent[m]]
    <3>1. sent' \in [1..MaxMsg -> 0..2]
          /\ \A m \in 1..MaxMsg : sent[m] > 0 \/ m = pe => sent'[m] > 0
      BY <1>0, <2>2, SMTT(30)
    <3>2. Published \subseteq Published' /\ pe \in Published' \cup {Blank}
      BY <1>0, <3>1 DEF Published, Msg, Blank
    <3> QED BY <1>0, <1>9, <2>2, <3>1, <3>2 DEF mqtt_pub, VanishInv, CacheType, Cached, Elsewhere
  <2> QED BY <1>9, <2>1, <2>2 DEF mqtt_pub
<1>10. CASE DequeueSent
  <2>1. txbuf' \in Seq(Msg) /\ (~raced' => ~raced /\ Elsewhere \subseteq Elsewhere' \cup {pe})
    BY <1>10, VanishDequeue DEF DequeueSent
  <2>2. pe \in Elsewhere'
    BY <1>10 DEF DequeueSent, VanishInv, Published, Elsewhere
  <2> QED BY <1>0, <1>10, <2>1, <2>2 DEF DequeueSent, VanishInv, CacheType, Published, Cached
<1>11. CASE Connection \/ UNCHANGED vars
  BY <1>0, <1>11 DEF Connection, vars, VanishInv, CacheType, Published, Cached, Elsewhere
<1>12. CASE Restart
  <2>1. Elsewhere \cup Cached \subseteq Elsewhere' \cup Cached'
    BY <1>12 DEF Restart, Elsewhere, Cached, Published
  <2> QED BY <1>0, <1>12, <2>1 DEF Restart, VanishInv, CacheType
<1> QED BY StepSplit, <1>1, <1>2, <1>3, <1>4, <1>5, <1>6, <1>7, <1>8, <1>9, <1>10, <1>11, <1>12

\* Whatever the cache thread, the publisher, the producer and restarts do in between,
\* a message that was produced is in the buffer, in the table, published or discarded
\* by drop-oldest or a restart, unless a dequeue met another message than its own.
THEOREM CacheLosesNothing == Spec => []NothingVanishes
<1>1. Init => VanishInv
  <2> SUFFICES ASSUME Init PROVE VanishInv
    OBVIOUS
  <2>1. Blank \in Msg /\ <<>> \in Seq(Msg) /\ 1..0 = {} /\ 0 \in 0..2
    BY CacheAssumption, EmptySeq DEF Msg, Blank
  <2> QED BY <2>1 DEF Init, VanishInv, CacheType, Blank
<1>2. VanishInv /\ [Next]_vars => VanishInv'
  BY VanishStep
<1>3. VanishInv => NothingVanishes
  BY DEF VanishInv, NothingVanishes, Elsewhere, Published, Blank
<1> QED BY <1>1, <1>2, <1>3, PTL DEF Spec
-----------------------------------------------------------------------------
(* Nothing is there twice.                                                 *)

\* Once what is known of the messages there are, every message has a count.
LEMMA OnceType ==
  ASSUME OnceInv, Undisturbed
  PROVE  /\ Range(txbuf) \cup Cached \subseteq 1..made /\ 1..made \subseteq 1..MaxMsg
         /\ txbuf \in Seq(1..made) /\ table \in Seq(1..made) /\ made \in Nat /\ MaxMsg \in Nat
         /\ txbuf # <<>> => Head(txbuf) \in Range(txbuf)
         /\ table # <<>> => Head(table) \in Cached
<1>1. made \in Nat /\ MaxMsg \in Nat /\ 1..made \subseteq 1..MaxMsg
      /\ txbuf \in Seq(1..made) /\ table \in Seq(1..made)
  BY CacheAssumption DEF OnceInv, Once, Msg
<1>2. \A s \in Seq(1..made) : Range(s) \subseteq 1..made
  <2> SUFFICES ASSUME NEW s \in Seq(1..made) PROVE Range(s) \subseteq 1..made
    OBVIOUS
  <2>1. DOMAIN s = 1..Len(s) /\ \A i \in 1..Len(s) : s[i] \in 1..made
    BY LenProperties, ElementOfSeq
  <2> QED BY <2>1 DEF Range
<1>3. \A s \in Seq(1..made) : s # <<>> => Head(s) \in Range(s)
  BY RangeTail
<1> QED BY <1>1, <1>2, <1>3 DEF Cached

\* Steps of the two threads that leave both queues and the counts alone.
LEMMA OncePeek ==
  ASSUME OnceInv, Undisturbed, UNCHANGED <<txbuf, table, sent, made>>,
         \/ PeekForCache \/ mqtt_sm \/ Connection \/ UNCHANGED vars
         \/ mqtt_cache_read_one_payload /\ ~erred'
  PROVE  Once'
<1> USE DEF buffer, db, cache, publisher, bounds
<1>1. Once
  BY DEF OnceInv
<1>2. /\ txbuf # <<>> => Head(txbuf) \in Range(txbuf) /\ Head(txbuf) \in 1..made
      /\ table # <<>> => Head(table) \in Cached /\ Head(table) \in 1..made
  BY OnceType
<1>3. UNCHANGED <<Range(txbuf), Cached, Distinct(txbuf), Distinct(table)>>
  BY DEF Cached, Range, Distinct
<1>4. CASE PeekForCache
  <2>1. /\ cpc = "idle" /\ cpc' = "insert" /\ ce' = Head(txbuf) /\ txbuf # <<>> /\ UNCHANGED <<ppc, pe>>
    BY <1>4 DEF PeekForCache
  <2>2. Both = {} /\ Both' = {}
    BY <2>1 DEF Both
  <2> QED BY <1>1, <1>2, <1>3, <2>1, <2>2 DEF Once, Leaving
<1>5. CASE mqtt_sm
  <2>1. UNCHANGED <<cache, Both>>
    BY <1>5 DEF mqtt_sm, Both
  <2>2. \/ ppc = "idle" /\ ppc' = "publish" /\ pe' = Head(txbuf) /\ txbuf # <<>>
        \/ UNCHANGED <<ppc, pe>>
    BY <1>5 DEF mqtt_sm
  <2>3. ppc = "idle" /\ txbuf # <<>> => sent[Head(txbuf)] = 0
    BY <1>1, <1>2 DEF Once, Leaving
  <2> QED BY <1>1, <1>2, <1>3, <2>1, <2>2, <2>3 DEF Once, Leaving
<1>6. CASE Connection \/ UNCHANGED vars
  BY <1>1, <1>3, <1>6 DEF Connection, vars, Once, Leaving, Both
<1>7. CASE mqtt_cache_read_one_payload /\ ~erred'
  <2>1. /\ cpc = "idle" /\ cpc' = "queue" /\ ce' = Head(table) /\ row' = 1 /\ table # <<>>
        /\ UNCHANGED <<ppc, pe>>
    BY <1>7 DEF mqtt_cache_read_one_payload
  <2>2. Both = {} /\ Both' = {}
    BY <2>1 DEF Both
  <2> QED BY <1>1, <1>2, <1>3, <2>1, <2>2 DEF Once, Leaving
<1> QED BY <1>4, <1>5, <1>6, <1>7

\* A new message is queued.
LEMMA OnceProduce ==
  ASSUME OnceInv, Undisturbed, Produce
  PROVE  Once'
<1> USE DEF buffer, db, cache, publisher, bounds
<1>1. Once
  BY DEF OnceInv
<1>2. /\ made' = made + 1 /\ made < MaxMsg /\ mqtt_queue_txbuf(made + 1)
      /\ UNCHANGED <<db, cache, publisher>>
  BY DEF Produce
<1>3. /\ made \in Nat /\ MaxMsg \in Nat /\ Range(txbuf) \cup Cached \subseteq 1..made
      /\ txbuf \in Seq(1..made) /\ table \in Seq(1..made)
  BY OnceType
<1>4. made + 1 \in 1..made' /\ made + 1 \notin Range(txbuf) \cup Cached
      /\ 1..made \subseteq 1..made' /\ made + 1 \in 1..MaxMsg
  BY <1>2, <1>3
<1>5. txbuf \in Seq(1..made') /\ table' \in Seq(1..made')
  BY <1>2, <1>3, <1>4
<1>6. /\ txbuf' \in Seq(1..made') /\ Range(txbuf') \subseteq Range(txbuf) \cup {made + 1}
      /\ Distinct(txbuf')
  BY <1>1, <1>2, <1>4, <1>5, QueueEffect DEF Once
<1>7. Cached' = Cached /\ Distinct(table)' = Distinct(table) /\ Both' = Both
  BY <1>2 DEF Cached, Range, Distinct, Both
<1>8. sent[made + 1] = 0 /\ \A m \in 1..MaxMsg : m > made' => m > made
  BY <1>1, <1>2, <1>3, <1>4 DEF Once
<1>9. \A m \in Range(txbuf') \cup Cached' : sent'[m] = 0 \/ Leaving(m)'
  <2> TAKE m \in Range(txbuf') \cup Cached'
  <2>1. CASE m = made + 1
    BY <1>2, <1>8, <2>1
  <2>2. CASE m # made + 1
    <3>1. m \in Range(txbuf) \cup Cached
      BY <1>6, <1>7, <2>2
    <3>2. sent[m] = 0 \/ Leaving(m)
      BY <1>1, <3>1 DEF Once
    <3>3. Leaving(m) => Leaving(m)'
      BY <1>2, <1>6, <1>7, <2>2 DEF Leaving
    <3> QED BY <1>2, <3>2, <3>3
  <2> QED BY <2>1, <2>2
<1>10. Range(txbuf') \cap Cached' \subseteq Both'
  BY <1>1, <1>4, <1>6, <1>7 DEF Once
<1>11. /\ \A m \in 1..MaxMsg : sent'[m] <= 1 /\ (m > made' => sent'[m] = 0)
       /\ ppc' = "publish" => sent'[pe'] = 0
  BY <1>1, <1>2, <1>8 DEF Once
<1>12. /\ cpc' # "idle" => ce' \in 1..made'
       /\ ppc' # "idle" => pe' \in 1..made'
       /\ cpc' = "insert" => ce' \notin Cached'
       /\ cpc' \in {"queue", "delete"} => row' = 1 /\ table' # <<>> /\ ce' = Head(table')
  BY <1>1, <1>2, <1>4, <1>7 DEF Once
<1> QED BY <1>1, <1>5, <1>6, <1>7, <1>9, <1>10, <1>11, <1>12 DEF Once

\* The peeked message is inserted into the table, or the INSERT fails.
LEMMA OnceWrite ==
  ASSUME OnceInv, Undisturbed, mqtt_cache_write_one_payload
  PROVE  Once'
<1> USE DEF buffer, db, cache, publisher, bounds
<1>1. Once /\ table \in Seq(1..made)
  BY OnceType DEF OnceInv
<1>2. cpc = "insert" /\ UNCHANGED <<txbuf, ppc, pe, sent, made>> /\ Both = {}
  BY DEF mqtt_cache_write_one_payload, Both
<1>3. UNCHANGED <<Range(txbuf), Distinct(txbuf)>>
  BY <1>2 DEF Range, Distinct
<1>4. ce \in 1..made /\ ce \notin Cached
  BY <1>1, <1>2 DEF Once
<1>5. CASE table' = Append(table, ce) /\ cpc' = "dequeue" /\ UNCHANGED ce
  <2>1. /\ table' \in Seq(1..made) /\ Cached' = Cached \cup {ce} /\ Distinct(table')
    <3>1. /\ Append(table, ce) \in Seq(1..made) /\ Range(Append(table, ce)) = Range(table) \cup {ce}
          /\ Distinct(table) /\ ce \notin Range(table) => Distinct(Append(table, ce))
      <4> DEFINE S == 1..made
      <4>1. table \in Seq(S) /\ ce \in S
        BY <1>1, <1>4
      <4> HIDE DEF S
      <4>2. /\ Append(table, ce) \in Seq(S) /\ Range(Append(table, ce)) = Range(table) \cup {ce}
            /\ Distinct(table) /\ ce \notin Range(table) => Distinct(Append(table, ce))
        BY <4>1, RangeAppend
      <4> QED BY <4>2 DEF S
    <3> QED BY <1>1, <1>4, <1>5, <3>1 DEF Cached, Once
  <2>2. Both' = {ce}
    BY <1>5 DEF Both
  <2>3. \A m \in Range(txbuf') \cup Cached' : sent'[m] = 0 \/ Leaving(m)'
    BY <1>1, <1>2, <1>3, <2>1, <2>2 DEF Once, Leaving
  <2> QED BY <1>1, <1>2, <1>3, <1>4, <1>5, <2>1, <2>2, <2>3 DEF Once
<1>6. CASE UNCHANGED table /\ cpc' = "idle"
  BY <1>1, <1>2, <1>3, <1>6 DEF Once, Leaving, Both, Cached, Distinct
<1> QED BY <1>5, <1>6 DEF mqtt_cache_write_one_payload

\* The inserted message is dequeued: it was still the oldest one.
LEMMA OnceDequeueCached ==
  ASSUME OnceInv, Undisturbed, DequeueCached, ~raced'
  PROVE  Once'
<1> USE DEF buffer, db, cache, publisher, bounds
<1>1. Once /\ txbuf \in Seq(1..made)
  BY OnceType DEF OnceInv
<1>2. /\ cpc = "dequeue" /\ cpc' = "idle" /\ mqtt_dequeue_txbuf(ce)
      /\ UNCHANGED <<table, ppc, pe, sent, made>>
  BY DEF DequeueCached
<1>3. /\ txbuf' \in Seq(1..made) /\ Range(txbuf) = Range(txbuf') \cup {ce}
      /\ Distinct(txbuf') /\ ce \notin Range(txbuf')
  BY <1>1, <1>2, DequeueEffect DEF Once
<1>4. Both = {ce} /\ Both' = {} /\ UNCHANGED <<Cached, Distinct(table)>>
  BY <1>2 DEF Both, Cached, Distinct
<1>5. \A m \in Range(txbuf') \cup Cached' : sent'[m] = 0 \/ Leaving(m)'
  BY <1>1, <1>2, <1>3, <1>4 DEF Once, Leaving
<1> QED BY <1>1, <1>2, <1>3, <1>4, <1>5 DEF Once

\* The message of the first row is queued: it is in both places until the delete.
LEMMA OnceQueue ==
  ASSUME OnceInv, Undisturbed, QueueCached
  PROVE  Once'
<1> USE DEF buffer, db, cache, publisher, bounds
<1>1. Once /\ txbuf \in Seq(1..made)
  BY OnceType DEF OnceInv
<1>2. /\ cpc = "queue" /\ cpc' = "delete" /\ mqtt_queue_txbuf(ce)
      /\ UNCHANGED <<table, ce, row, ppc, pe, sent, made>>
  BY DEF QueueCached
<1>3. Both = {} /\ Both' = {ce} /\ UNCHANGED <<Cached, Distinct(table)>>
  BY <1>2 DEF Both, Cached, Distinct
<1>4. ce \in Cached /\ ce \in 1..made /\ ce \notin Range(txbuf)
  BY <1>1, <1>2, <1>3, OnceType DEF Once
<1>5. /\ txbuf' \in Seq(1..made) /\ Range(txbuf') \subseteq Range(txbuf) \cup {ce}
      /\ Distinct(txbuf')
  BY <1>1, <1>2, <1>4, QueueEffect DEF Once
<1>6. \A m \in Range(txbuf') \cup Cached' : sent'[m] = 0 \/ Leaving(m)'
  BY <1>1, <1>2, <1>3, <1>4, <1>5 DEF Once, Leaving
<1> QED BY <1>1, <1>2, <1>3, <1>4, <1>5, <1>6 DEF Once

\* The row of the message that was queued is deleted.
LEMMA OnceDelete ==
  ASSUME OnceInv, Undisturbed, mqtt_cache_delete_one_payload, ~erred'
  PROVE  Once'
<1> USE DEF buffer, db, cache, publisher, bounds
<1>1. Once /\ table \in Seq(1..made)
  BY OnceType DEF OnceInv
<1>2. /\ cpc = "delete" /\ cpc' = "idle"
      /\ table' = (IF row = 1 THEN Tail(table) ELSE table)
      /\ UNCHANGED <<txbuf, ppc, pe, sent, made>>
  BY DEF mqtt_cache_delete_one_payload
<1>3. table' = Tail(table) /\ table # <<>> /\ ce = Head(table)
  BY <1>1, <1>2 DEF Once
<1>4. /\ table' \in Seq(1..made) /\ Cached = Cached' \cup {ce} /\ Distinct(table')
      /\ ce \notin Cached'
  BY <1>1, <1>3, RangeTail DEF Cached, Once
<1>5. Both = {ce} /\ Both' = {} /\ UNCHANGED <<Range(txbuf), Distinct(txbuf)>>
  BY <1>2 DEF Both, Range, Distinct
<1>6. \A m \in Range(txbuf') \cup Cached' : sent'[m] = 0 \/ Leaving(m)'
  BY <1>1, <1>2, <1>4, <1>5 DEF Once, Leaving
<1> QED BY <1>1, <1>2, <1>4, <1>5, <1>6 DEF Once

\* A message is published that was not published before.
LEMMA OncePub ==
  ASSUME OnceInv, Undisturbed, mqtt_pub
  PROVE  Once'
<1> USE DEF buffer, db, cache, publisher, bounds
<1>1. /\ Once /\ sent \in [1..MaxMsg -> 0..2] /\ made \in Nat /\ 1..made \subseteq 1..MaxMsg
      /\ Range(txbuf) \cup Cached \subseteq 1..MaxMsg
  BY OnceType DEF OnceInv
<1>2. /\ ppc = "publish" /\ UNCHANGED <<txbuf, table, cpc, ce, row, made>>
      /\ UNCHANGED <<Range(txbuf), Distinct(txbuf), Cached, Distinct(table), Both>>
  BY DEF mqtt_pub, Range, Distinct, Cached, Both
<1>3. CASE UNCHANGED sent /\ ppc' = "idle"
  BY <1>1, <1>2, <1>3 DEF Once, Leaving
<1>4. CASE /\ ppc' = "dequeue" /\ UNCHANGED pe
           /\ sent' = [m \in DOMAIN sent |-> IF m = pe /\ sent[m] < 2 THEN sent[m] + 1 ELSE sent[m]]
  <2>1. pe \in 1..made /\ pe \in 1..MaxMsg /\ sent[pe] = 0
    BY <1>1, <1>2 DEF Once
  <2>2. \A m \in 1..MaxMsg : sent'[m] = IF m = pe THEN 1 ELSE sent[m]
    BY <1>1, <1>4, <2>1
  <2>3. \A m \in 1..MaxMsg : sent'[m] <= 1 /\ (m > made => sent'[m] = 0)
    BY <1>1, <2>1, <2>2 DEF Once
  <2>4. \A m \in Range(txbuf') \cup Cached' : sent'[m] = 0 \/ Leaving(m)'
    BY <1>1, <1>2, <1>4, <2>2 DEF Once, Leaving
  <2> QED BY <1>1, <1>2, <1>4, <2>1, <2>3, <2>4 DEF Once
<1> QED BY <1>3, <1>4 DEF mqtt_pub

\* The published message is dequeued: it was still the oldest one.
LEMMA OnceDequeueSent ==
  ASSUME OnceInv, Undisturbed, DequeueSent, ~raced'
  PROVE  Once'
<1> USE DEF buffer, db, cache, publisher, bounds
<1>1. Once /\ txbuf \in Seq(1..made)
  BY OnceType DEF OnceInv
<1>2. /\ ppc = "dequeue" /\ ppc' = "idle" /\ mqtt_dequeue_txbuf(pe)
      /\ UNCHANGED <<table, cpc, ce, row, sent, made>>
  BY DEF DequeueSent
<1>3. /\ txbuf' \in Seq(1..made) /\ Range(txbuf) = Range(txbuf') \cup {pe}
      /\ Distinct(txbuf') /\ pe \notin Range(txbuf')
  BY <1>1, <1>2, DequeueEffect DEF Once
<1>4. UNCHANGED <<Both, Cached, Distinct(table)>>
  BY <1>2 DEF Both, Cached, Distinct
<1>5. \A m \in Range(txbuf') \cup Cached' : sent'[m] = 0 \/ Leaving(m)'
  BY <1>1, <1>2, <1>3, <1>4 DEF Once, Leaving
<1> QED BY <1>1, <1>2, <1>3, <1>4, <1>5 DEF Once

\* The invariant is preserved by every step.
LEMMA OnceStep ==
  ASSUME OnceInv, [Next]_vars
  PROVE  OnceInv'
<1> USE DEF buffer, db, cache, publisher, bounds
<1>1. /\ made' = made \/ (made < MaxMsg /\ made' = made + 1)
      /\ restarts' = restarts \/ (Restart /\ restarts' = restarts + 1)
      /\ (raced => raced') /\ (erred => erred')
  <2>1. ~mqtt_pub /\ ~Restart => UNCHANGED restarts
    BY StepSplit
       DEF Produce, PeekForCache, mqtt_cache_write_one_payload, DequeueCached,
           mqtt_cache_read_one_payload, QueueCached, mqtt_cache_delete_one_payload, mqtt_sm,
           DequeueSent, Connection, vars
  <2>2. ~Produce => UNCHANGED made
    BY StepSplit
       DEF PeekForCache, mqtt_cache_write_one_payload, DequeueCached,
           mqtt_cache_read_one_payload, QueueCached, mqtt_cache_delete_one_payload, mqtt_sm,
           mqtt_pub, DequeueSent, Connection, Restart, vars
  <2>3. raced => raced'
    BY StepSplit
       DEF Produce, PeekForCache, mqtt_cache_write_one_payload, DequeueCached,
           mqtt_cache_read_one_payload, QueueCached, mqtt_cache_delete_one_payload, mqtt_sm,
           mqtt_pub, mqtt_dequeue_txbuf, DequeueSent, Connection, Restart, vars
  <2>4. erred => erred'
    BY StepSplit
       DEF Produce, PeekForCache, mqtt_cache_write_one_payload, DequeueCached,
           mqtt_cache_read_one_payload, QueueCached, mqtt_cache_delete_one_payload, mqtt_sm,
           mqtt_pub, DequeueSent, Connection, Restart, vars
  <2> QED BY <2>1, <2>2, <2>3, <2>4 DEF Produce, mqtt_pub, Restart
<1>4. made' \in Msg /\ restarts' \in Nat
  BY <1>1, CacheAssumption DEF OnceInv, Msg
<1>2. sent' \in [1..MaxMsg -> 0..2]
  <2>1. CASE mqtt_pub
    BY <2>1 DEF OnceInv, mqtt_pub
  <2>2. CASE ~mqtt_pub
    BY <2>2, StepSplit
       DEF OnceInv, Produce, PeekForCache, mqtt_cache_write_one_payload, DequeueCached,
           mqtt_cache_read_one_payload, QueueCached, mqtt_cache_delete_one_payload, mqtt_sm,
           DequeueSent, Connection, Restart, vars
  <2> QED BY <2>1, <2>2
<1>3. ASSUME Undisturbed' PROVE Once'
  <2>1. Undisturbed /\ ~Restart
    BY <1>1, <1>3 DEF OnceInv, Undisturbed, Restart
  <2>2. ~raced' /\ ~erred'
    BY <1>3 DEF Undisturbed
  <2>3. CASE \/ PeekForCache \/ mqtt_sm \/ Connection \/ UNCHANGED vars
             \/ mqtt_cache_read_one_payload
    <3>1. UNCHANGED <<txbuf, table, sent, made>>
      BY <2>3 DEF PeekForCache, mqtt_sm, Connection, vars, mqtt_cache_read_one_payload
    <3> QED BY <2>1, <2>2, <2>3, <3>1, OncePeek
  <2> QED BY <2>1, <2>2, <2>3, StepSplit, OnceProduce, OnceWrite, OnceDequeueCached, OnceQueue,
             OnceDelete, OncePub, OnceDequeueSent
<1> QED BY <1>2, <1>3, <1>4 DEF OnceInv

\* Without a race, an SQL error on the way back and a restart, the cache thread leaves no
\* message in both places, and mqtt_sm_ready publishes none twice.
THEOREM CacheDuplicatesNothing == Spec => []NoDuplicates
<1>1. Init => OnceInv
  <2> SUFFICES ASSUME Init PROVE OnceInv
    OBVIOUS
  <2>1. /\ <<>> \in Seq(1..0) /\ Len(<<>>) = 0 /\ 1..0 = {} /\ Range(<<>>) = {} /\ 0 \in 0..2
        /\ 0 \in Msg
    BY EmptySeq, CacheAssumption DEF Range, Msg
  <2>2. Distinct(<<>>)
    BY <2>1 DEF Distinct
  <2> QED BY <2>1, <2>2 DEF Init, OnceInv, Once, Cached, Leaving, Both
<1>2. OnceInv /\ [Next]_vars => OnceInv'
  BY OnceStep
<1>3. OnceInv => NoDuplicates
  <2> SUFFICES ASSUME OnceInv, Undisturbed PROVE NoDuplicates
    BY DEF OnceInv, Undisturbed, NoDuplicates
  <2> QED BY OnceType DEF OnceInv, Once, Both, NoDuplicates
<1> QED BY <1>1, <1>2, <1>3, PTL DEF Spec
=============================================================================
