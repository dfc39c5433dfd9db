------------------------------ MODULE MqttCache ------------------------------
(***************************************************************************)
(* The cache of the mqtt client (mqtt_deal_with_cache in mqtt.c and        *)
(* mqtt_cache.c): a thread that moves the oldest message of a nearly full  *)
(* transmit buffer into an SQLite table, and back when there is room. It   *)
(* meets the producer and the publisher (mqtt_sm_ready) at the buffer,     *)
(* whose lock it holds for one call at a time. The buffer is the           *)
(* drop-oldest queue that RingBuffer implements; its usage is counted in   *)
(* messages. SQLite and the connection are external. A message of Quoted   *)
(* has a quotation mark in its payload, which ends the string literal of   *)
(* the INSERT statement early.                                             *)
(***************************************************************************)
EXTENDS Integers, Sequences, FiniteSets, Functions

CONSTANTS
  MaxMsg,      \* bound: messages produced
  Capacity,    \* messages that the transmit buffer holds
  TO_CACHE,    \* TX_BUFF_TO_CACHE_USAGE: above it messages go to the table
  FROM_CACHE,  \* CACHE_TO_TX_BUFF_USAGE: below it they come back
  FILE_MAX,    \* CACHE_FILE_MEMORY_SIZE_MAX, in rows
  VACUUM,      \* rows read back between two vacuums
  Quoted,      \* messages whose payload has a quotation mark
  MaxFaults,   \* bound: SQL errors, failed publishes, connection changes
  MaxRestarts  \* bound: restarts of the program

ASSUME CacheAssumption ==
  /\ {MaxMsg, Capacity, TO_CACHE, FROM_CACHE, FILE_MAX, VACUUM, MaxFaults, MaxRestarts} \subseteq Nat
  /\ Capacity > TO_CACHE /\ TO_CACHE >= FROM_CACHE /\ FROM_CACHE > 0
  /\ Quoted \subseteq 1..MaxMsg

Blank == 0     \* the element with an empty topic and payload

VARIABLES
  txbuf, txbuf_usage,
  table,       \* messages of the rows, in the order of their rowid
  file,        \* size of the database file: it shrinks in a vacuum only
  count,       \* rows read back since the last vacuum
  cpc, ce,     \* the cache thread, and its element
  row,         \* cache_item_idx: the rowid that it read (1 for the first row), 0 if none
  ppc, pe,     \* the publisher, and its element
  online,
  made,        \* messages produced: 1..made
  sent,        \* how often each message was published: 0, 1 or 2 for more
  gone,        \* messages that drop-oldest or a restart discarded
  raced,       \* did a dequeue find another message than the one dealt with, or none?
  erred,       \* did a read or a delete of the table fail?
  faults, restarts

buffer == <<txbuf, txbuf_usage, gone>>
db == <<table, file, count>>
cache == <<cpc, ce, row>>
publisher == <<ppc, pe, sent>>
bounds == <<made, faults, restarts>>
vars == <<buffer, db, cache, publisher, online, raced, erred, bounds>>

Cached == Range(table)

Fault == faults < MaxFaults /\ faults' = faults + 1
Init ==
  /\ txbuf = <<>> /\ txbuf_usage = 0 /\ gone = {}
  /\ table = <<>> /\ file = 0 /\ count = 0
  /\ cpc = "idle" /\ ce = Blank /\ row = 0
  /\ ppc = "idle" /\ pe = Blank /\ sent = [m \in 1..MaxMsg |-> 0]
  /\ online = FALSE /\ made = 0 /\ raced = FALSE /\ erred = FALSE
  /\ faults = 0 /\ restarts = 0

-----------------------------------------------------------------------------
(* The transmit buffer.                                                    *)

\* A full buffer loses its oldest message.
mqtt_queue_txbuf(m) ==
  IF Len(txbuf) = Capacity
  THEN txbuf' = Append(Tail(txbuf), m) /\ gone' = gone \cup {Head(txbuf)}
  ELSE txbuf' = Append(txbuf, m) /\ UNCHANGED gone

\* The lock is not held since e was peeked.
mqtt_dequeue_txbuf(e) ==
  /\ txbuf' = IF txbuf = <<>> THEN <<>> ELSE Tail(txbuf)
  /\ raced' = (raced \/ txbuf = <<>> \/ Head(txbuf) # e)

Produce ==
  /\ made < MaxMsg /\ made' = made + 1
  /\ mqtt_queue_txbuf(made + 1)
  /\ UNCHANGED <<txbuf_usage, db, cache, publisher, online, raced, erred, faults, restarts>>

-----------------------------------------------------------------------------
(* The cache thread.                                                       *)

\* The way into the table: the file's size is looked at, the oldest message is peeked,
\* inserted without the lock, and then dequeued.
PeekForCache ==
  /\ cpc = "idle" /\ txbuf_usage > TO_CACHE
  /\ file <= FILE_MAX /\ txbuf # <<>>
  /\ cpc' = "insert" /\ ce' = Head(txbuf)
  /\ UNCHANGED <<buffer, db, row, publisher, online, raced, erred, bounds>>

mqtt_cache_write_one_payload ==
  /\ cpc = "insert"
  /\ \/ /\ ce \notin Quoted
        /\ table' = Append(table, ce)
        /\ file' = IF Len(table) + 1 > file THEN Len(table) + 1 ELSE file
        /\ cpc' = "dequeue" /\ UNCHANGED <<ce, faults>>
     \/ /\ IF ce \in Quoted THEN UNCHANGED faults ELSE Fault
        /\ cpc' = "idle" /\ ce' = Blank /\ UNCHANGED <<table, file>>
  /\ UNCHANGED <<buffer, count, row, publisher, online, raced, erred, made, restarts>>

MutDequeueCached ==
  /\ cpc = "dequeue" /\ cpc' = "idle" /\ ce' = Blank
  /\ UNCHANGED <<txbuf, raced>>
  /\ UNCHANGED <<txbuf_usage, gone, db, row, publisher, online, erred, bounds>>
DequeueCached ==
  /\ cpc = "dequeue" /\ cpc' = "idle" /\ ce' = Blank
  /\ mqtt_dequeue_txbuf(ce)
  /\ UNCHANGED <<txbuf_usage, gone, db, row, publisher, online, erred, bounds>>

\* The way back: the first row is read, queued and then deleted. What the read returned
\* is not looked at.
MutReadOnePayload ==
  /\ cpc = "idle" /\ txbuf_usage < FROM_CACHE /\ table # <<>>
  /\ ce' = Head(table) /\ row' = 0 /\ table' = Tail(table) /\ cpc' = "queue"
  /\ UNCHANGED <<buffer, file, count, publisher, online, raced, erred, bounds>>
mqtt_cache_read_one_payload ==
  /\ cpc = "idle" /\ txbuf_usage < FROM_CACHE /\ table # <<>>
  /\ cpc' = "queue"
  /\ \/ ce' = Head(table) /\ row' = 1 /\ UNCHANGED <<erred, faults>>
     \/ ce' = Blank /\ row' = 0 /\ erred' = TRUE /\ Fault
  /\ UNCHANGED <<buffer, db, publisher, online, raced, made, restarts>>

QueueCached ==
  /\ cpc = "queue" /\ cpc' = "delete"
  /\ mqtt_queue_txbuf(ce)
  /\ UNCHANGED <<txbuf_usage, db, ce, row, publisher, online, raced, erred, bounds>>

\* The delete, and a vacuum now and then. What they returned is not looked at.
mqtt_cache_delete_one_payload ==
  /\ cpc = "delete" /\ cpc' = "idle" /\ ce' = Blank /\ row' = 0
  /\ \/ /\ table' = (IF row = 1 THEN Tail(table) ELSE table) /\ UNCHANGED <<erred, faults>>
     \/ UNCHANGED table /\ erred' = TRUE /\ Fault
  /\ IF count + 1 > VACUUM
     THEN count' = 0 /\ file' = Len(table')
     ELSE count' = count + 1 /\ UNCHANGED file
  /\ UNCHANGED <<buffer, publisher, online, raced, made, restarts>>

-----------------------------------------------------------------------------
(* The publisher: mqtt_sm.                                                 *)

\* Each round begins with the usage; ready peeks the oldest message, publishes it
\* without the lock, and dequeues.
MutSm ==
  /\ ppc = "idle" /\ online /\ txbuf # <<>>
  /\ txbuf_usage' = Len(txbuf) /\ ppc' = "publish" /\ pe' = Head(txbuf)
  /\ UNCHANGED <<txbuf, gone, db, cache, sent, online, raced, erred, bounds>>
mqtt_sm ==
  /\ ppc = "idle"
  /\ txbuf_usage' = Len(txbuf)
  /\ \/ /\ online /\ txbuf # <<>>
        /\ ppc' = "publish" /\ pe' = Head(txbuf)
     \/ /\ ~(online /\ txbuf # <<>>)
        /\ UNCHANGED <<ppc, pe>>
  /\ UNCHANGED <<txbuf, gone, db, cache, sent, online, raced, erred, bounds>>

mqtt_pub ==
  /\ ppc = "publish"
  /\ \/ /\ online /\ ppc' = "dequeue" /\ UNCHANGED <<pe, faults>>
        /\ sent' = [m \in DOMAIN sent |-> IF m = pe /\ sent[m] < 2 THEN sent[m] + 1 ELSE sent[m]]
     \/ /\ IF online THEN Fault ELSE UNCHANGED faults
        /\ ppc' = "idle" /\ pe' = Blank /\ UNCHANGED sent
  /\ UNCHANGED <<buffer, db, cache, online, raced, erred, made, restarts>>

DequeueSent ==
  /\ ppc = "dequeue" /\ ppc' = "idle" /\ pe' = Blank
  /\ mqtt_dequeue_txbuf(pe)
  /\ UNCHANGED <<txbuf_usage, gone, db, cache, sent, online, erred, bounds>>

-----------------------------------------------------------------------------
(* The connection, and a restart of the program: the table stays.          *)

Connection ==
  /\ online' = ~online
  /\ IF online THEN Fault ELSE UNCHANGED faults
  /\ UNCHANGED <<buffer, db, cache, publisher, raced, erred, made, restarts>>

Restart ==
  /\ restarts < MaxRestarts /\ restarts' = restarts + 1
  /\ gone' = gone \cup (Range(txbuf) \ Cached)
  /\ txbuf' = <<>> /\ txbuf_usage' = 0 /\ count' = 0
  /\ cpc' = "idle" /\ ce' = Blank /\ row' = 0 /\ ppc' = "idle" /\ pe' = Blank /\ online' = FALSE
  /\ UNCHANGED <<table, file, sent, raced, erred, made, faults>>

mqtt_deal_with_cache ==
  \/ PeekForCache \/ mqtt_cache_write_one_payload \/ DequeueCached
  \/ mqtt_cache_read_one_payload \/ QueueCached \/ mqtt_cache_delete_one_payload
Publisher == mqtt_sm \/ mqtt_pub \/ DequeueSent
Next == Produce \/ mqtt_deal_with_cache \/ Publisher \/ Connection \/ Restart

Spec == Init /\ [][Next]_vars
FairSpec ==
  /\ Spec
  /\ WF_vars(mqtt_deal_with_cache) /\ WF_vars(Publisher) /\ WF_vars(Connection /\ ~online)

-----------------------------------------------------------------------------
(* Properties.                                                             *)

\* Unless a dequeue found another message than the one dealt with, every message that
\* was produced is in the buffer, in the table, published, or discarded by drop-oldest
\* or a restart: moving a message to and fro loses none, wherever a restart falls.
NothingVanishes ==
  raced \/ \A m \in 1..made :
             m \in Range(txbuf) \cup Cached \cup gone \/ sent[m] > 0

\* Without such a race, an SQL error on the way back and a restart, no message is both in
\* the buffer and in the table when the cache thread rests, and none is published twice.
NoDuplicates ==
  raced \/ erred \/ restarts > 0
  \/ /\ cpc = "idle" => Range(txbuf) \cap Cached = {}
     /\ \A m \in 1..made : sent[m] <= 1

\* Once the connection stays, the buffer and the table are emptied and stay empty, unless
\* such a race happens: then messages may go to and fro between them.
Drains == <>[]online => <>[](txbuf = <<>> /\ table = <<>>) \/ <>raced
=============================================================================
