# A verification development for pcs_sim

pcs_sim simulates a power converter. It answers a Modbus RTU master on a serial
line, uploads the converter's quantities to a cloud over MQTT and takes commands
from there. This directory holds TLA+ models of the parts that carry that logic,
TLC configurations for them, and TLAPS proofs.

    tlc -workers 2 -config MCMqttSafety.cfg MCMqtt      (any run of PROJECT.json)
    tlapm Mqtt_proof.tla                                (any module *_proof)

## 1. Inventory

### What runs

`main` (`appl/main.c`) parses options, sets three quantities and calls
`appl_main`, which starts through `plt_init` (`platform/abs/plt.c`) one thread for
the Modbus slave and one for MQTT, and then loops: simulate (`mdl_sim`, empty),
receive commands, upload, sleep. Paho runs a background thread and short-lived
threads for `connectionLost`. All threads log through zlog.

    application thread        mqtt thread              Paho threads
      cloud_proc_recv  <- rxbuf <-------------------- mqtt_msgarrvd
      cloud_update     -> txbuf -> mqtt_sm_ready ---> MQTTClient_publish --> socket
           |               ^ |     mqtt_sm_offline    mqtt_connlost -> connlost
           |               | v
           |             SQLite table (cache thread)
           v
          MDL  <-- on_03 / on_06 <-- eMBPoll <-- serial line    (Modbus thread)

    chan_* (Modbus master of a channel) --> libmodbus --> serial line or TCP

| component | state | operations | shares with |
|---|---|---|---|
| ring buffers (`mqtt_ringbuffer.c` and five copies) | slots, head, tail | init, queue, queue_arr, dequeue, dequeue_arr, peek, num_items, is_empty, is_full | used under a mutex by two threads |
| mqtt client (`mqtt.c`, `mqtt_sm.c`, `sm.c`) | state, step, count, cmd, connlost, cli, txbuf, rxbuf | thread loop, connect, subscribe, publish, wait, destroy, send command, callbacks | application thread through the buffers, Paho threads through `connlost` and rxbuf |
| mqtt cache (`mqtt_cache.c`, `mqtt_deal_with_cache`) | table, size of its file | insert, read, delete, vacuum | mqtt client and application through txbuf |
| cloud (`cloud.c`) | upload timers | process a message, respond, upload | buffers, MDL |
| Modbus slave (`mbs.c`, FreeModbus `mb.c`, `mbrtu.c`, `port*.c`) | one queued event, receiver and transmitter state, frame buffer, port buffer, timer | poll, receive byte, transmit byte, timer expiry, execute | serial line, MDL |
| holding registers (`mbs.c`, `mbfuncholding.c`) | register array, MDL | functions 03, 06, 16, copying to and from MDL | cloud through MDL, without a lock |
| Modbus master (`chan.c`, libmodbus) | context, transaction identifier, retry and restart counters | twelve read and write functions, start, reset | other threads that use or reset the channel |
| Paho (`MQTTClient.c`, `MQTTProtocolClient.c`, `MQTTPersistence.c`, `Thread.c`, `Socket.c`, `SocketBuffer.c`, `MQTTPacket.c`) | messages in flight, store, session, semaphores, pending writes, half-read packets | connect, subscribe, publish, wait, disconnect, cycle, retry, callbacks, partial reads and writes | mqtt client, broker |
| logging (zlog `rule.c`, `rotater.c`) | the log file and its archives, a mutex and a record lock | write a line, rotate | all threads, other processes with the same file |
| ThingsBoard client, shared memory, tool, helpers, other libraries | see section 7 | | |

### What is hard

- *Interleavings.* `connlost` is written by a Paho thread and reset by the mqtt
  thread; an element is peeked, published and dequeued in three steps between
  which the application or the cache may take or overwrite it; the Modbus thread
  and the application write MDL without a lock; bytes arrive between any two steps
  of the slave; a write that Paho could not finish is finished by another thread
  under another lock; two processes rotate one file.
- *Failure.* Connects fail in three places, publishes are lost, late, duplicated
  or unacknowledged; frames are damaged, cut or merged; answers come after their
  time-out; system calls and SQL statements fail.
- *Restarts.* Paho's store, the cache table and the log archives outlive the
  program, which may end between any two of the steps that change them.
- *Limits.* Full and empty ring buffers differ by one slot, a frame may have
  exactly the size of its buffer, identifiers wrap around, a socket number is used
  again, archives are numbered up to a limit.
- *Progress.* A lost connection must be noticed, queued data must leave, calls must
  return, and no sequence of bad frames may leave the slave deaf.

At this commit the start of the cache thread and the call of `chan_init` are left out
of the program's start-up, though both are compiled in and complete; they are
modelled as they are meant to be called. The ThingsBoard client is not (section 7).

The hazards, each at its line and with the property that watches it, are listed
in `PROJECT.json`. The correctness properties per component are in section 4.

## 2. Modules

| module | models | composed from |
|---|---|---|
| `DropOldest` | operators of a bounded queue that drops its oldest element | |
| `DropOldestFifo` | abstract specification: such a queue with its operations | `DropOldest` |
| `RingBuffer` | `mqtt_ringbuffer.c`: masked indices, array operations cut per element | implements `DropOldestFifo` |
| `Mqtt` | mqtt thread, state machine, application thread, callbacks; Paho, broker and cloud as external actions | uses the queue `RingBuffer` is shown to implement |
| `MqttCache` | cache thread, SQLite table, publisher and producer at the transmit buffer | the same queue |
| `PahoSession` | QoS 1 and 2 flows in both directions, persistence, reconnect, restart; the broker as external actions | |
| `PahoThreads` | connect, subscribe, stop, destroy, the background thread, its semaphores, connectionLost threads | |
| `PahoSocket` | partial writes and reads, the receive thread's select loop, keep-alive, socket numbers used again | |
| `ModbusRtu` | polling thread, event queue, receive and transmit machines, port, timer; line and master as external actions | |
| `Registers` | functions 03, 06, 16 and "set uab" on registers and quantities | |
| `ModbusMaster` | the functions of `chan.c` with retry and restart over one libmodbus transaction; slave, line and network as external actions | |
| `LogRotate` | writing a log line and rotating the archives; the file system as names and i-nodes | |
| `MC*` | constants of the runs | |
| `Mqtt_proof` | theorems about `RingBuffer` and `Mqtt` | both |
| `ModbusSlave_proof` | theorems about `ModbusRtu` and `Registers` | both |
| `MqttCache_proof`, `ModbusMaster_proof`, `PahoSession_proof`, `PahoThreads_proof`, `PahoSocket_proof`, `LogRotate_proof` | theorems, each about the module it is named after | |

Paho appears three times, each time at the level of one question: what a session
guarantees about messages (`PahoSession`, a step is one hold of the mutex), how
its threads meet (`PahoThreads`, one client after the other) and how bytes get
through a socket (`PahoSocket`, cut at every system call and every lock). `Mqtt`
uses Paho as the first two describe it: a publish that may be acknowledged, late or
lost, and a loss that is reported once.

**RingBuffer.** `buffer`, `head_index` and `tail_index` are the C members; a slot
that was never written holds `Garbage`. One action per function; `queue_arr` and
`dequeue_arr` do one element per step, as their loops do. The refinement maps the
slots from tail to head to the abstract sequence (`Contents`); `op`, the operation
last called, is part of it, so that no operation but init may empty the queue. The other five
ring buffers of the repository have the same text with another element type.

**Mqtt.** `pc` is the place of the mqtt thread between two points where another
thread can interfere: `loop` (an iteration of `mqtt_sm`), `connect`,
`subscribe`, `finish` (inside `mqtt_connect` and after it), `pub`, `wait`,
`dequeue` (inside `mqtt_sm_ready`). `apc` is that of the application thread. An
upload or response is the number in which it was queued, so order and loss can be
stated. Messages from the cloud are of the kinds that `cloud_proc_recv` tells
apart. `queued`, `replies`, `taken`, `received` and `overwritten` are histories.

**MqttCache.** Messages are numbers; `txbuf`, `table` and `file` (rows the file has
room for, which only a vacuum gives back) are the state, `cpc` and `ppc` the places
of the cache thread and the publisher between their locked calls. `Quoted` messages
have a quotation mark, as all JSON has, which breaks the INSERT. `raced` records
that a dequeue removed another message than the one that was dealt with.

**PahoSession.** `outboundMsgs`, `inboundMsgs` and `messageQueue` are the lists of
the client, `store` the persistent store (sent publications, PUBRELs, received
publications, queued messages), `Restart` rebuilds the lists from it as
`MQTTPersistence_restorePackets` does, sorted by identifiers that may have wrapped.
`mode` is the clean session without store that `mqtt.c` uses, or a kept one with
store, which the library offers. A broken connection loses what is in both pipes.
A received message is answered before it is queued and stored, as the code does:
`releasing` is the one in between, and `dropped` the QoS 1 publications for which a
restart came there, so that the broker has done with them and nobody has them.

**PahoThreads.** `sem`, `pack`, `mrc`, `running`, `tostop` are the members through
which the threads meet; `line` is the state of the socket. An attempt to connect is
made with MQTT 3.1.1 and repeated with 3.1, as in `MQTTClient_connectURIVersion`.

**PahoSocket.** A byte is a packet and a place in it. `writes`, `wpending`, `wset`
are the three lists a pending write is in, changed at different moments; `queue` is
the half-read packet. `Left` is the loop of `Socket_continueWrite` that puts the rest
of a packet together from its buffers. Every write takes, and every arrival brings,
any number of bytes.

**ModbusRtu.** The slave has one thread; it is cut where it meets the line. A byte
is identified by the request and its position in it, so the CRC is modelled by
what it is for: it accepts exactly the bytes of one request. Time is the silence
of the line in three classes: less than t3.5, at least t3.5, at least the 50 ms of
`select`. `MasterWaits` says whether a master waits for t3.5 only or until the slave
has read all bytes; `rushed` records that one did not wait until it listens. At the
start `eSndState` has any value, as malloc leaves it. `AssertionFails` is the
disjunction of the assertions, each at its place, and `Abort` ends the program.
`SerialWrite` writes the whole reply or, when the port fails, any prefix of it:
`written` holds what was written of each.

**Registers.** Doubles are integers of 1/20, so that values between two tenths
exist. The conversion of `MDL.x * 10` to `USHORT` (`ToReg`) truncates; of a number out
of range it is undefined, and any register value may come of it. Each copy of one
quantity is an action. Function 16 does not look whether the frame holds all its
values, so it writes whatever the buffer has where they belong (`buffer`). Three
histories are sets of values: `known`, what a read of a register may report; `kept`,
what it may report after the next write, which takes every quantity back to its
register; `span`, what it may report while a read is under way.

**ModbusMaster.** Calls and attempts are numbered, and requests and answers carry
both numbers besides what the library compares. An answer comes in two parts, so
that a time-out or a flush falls between them. `live` is the set of contexts that
were allocated and not freed; a step with another one goes to `"undefined"`. Two
threads open a channel: the caller in `chan_start` (`pc`) and the thread of the shared
memory in `chan_reset` (`reset`). Each access to `ctx` is an action (`LookAtContext`,
`CloseContext`, `FreeContext`, `ClearContext`, `NewContext`, `TestContext`,
`ConnectContext`) with the thread as parameter, because there is no lock: the other
thread may run between any two. `failed` records which of these steps failed, `raced`
that both threads were at the channel at a time.

**LogRotate.** `dir` maps names to i-nodes and `data` i-nodes to lines, so that a
thread can write to a file that was renamed after it opened it. A rotation is one
action per system call; `files` is the list that `glob` found, in which an archive is
missing when there was no memory for its entry. `Crash` ends all threads of a process
and with them its locks. `Olds` are the sets of numbers that earlier runs, and whoever
deleted files since, may have left. `amiss` records that a rotation began in which the
list lacked an archive, or one that is not the last had a number above its place: then
the numbers given out are not free, and the code renames one archive over another.

## 3. Runs

| run | bounds | why they are enough |
|---|---|---|
| `ringbuffer` | 4 slots, 2 elements, arrays up to 4 | every offset of head and tail, wrap-around in every operation, an array longer than the buffer; unbounded in the number of operations |
| `mqtt_safety` | txbuf 2, rxbuf 1, 3 uploads, a command message and its response, which comes back, both commands at any moment, 2 faults | the buffer overflows twice while an element is in flight; a fault hits the retry of an earlier one; every state change is crossed by either command. `mqtt_send_sm_cmd` has no caller in this program yet; the run covers its use as declared |
| `mqtt_live` | the same with 2 uploads, a command message with a sub-object, an unparsable message, no state machine commands, two iterations between connects | the device's response returns to it next to an unparsable message |
| `cache` | buffer of 2, table of 1 row and one beyond, 3 messages, one of them quoted, 2 faults, 1 restart | the buffer overflows while a message is on its way to the table, the file is full, a vacuum is due with each row, a restart falls between the insert and the dequeue and between the read and the delete |
| `paho_session` | window 2, identifiers up to 6 starting at 5 or 6, two publications in either direction or one in each, both modes, 2 faults, 1 restart | identifiers wrap around while two messages are in flight; a flow of four packets is cut twice, once by a restart, also between an answer and the queueing of the message |
| `paho_threads` | 4 clients, 4 faults | an answer, an error and a semaphore of one attempt meet the next two; two threads find the same loss |
| `paho_socket` | PUBLISH in buffers of 1 and 2 bytes, an answered packet with a header of 3 bytes and a body, one without body, 2 publications, 1 PINGREQ, 2 connections, 1 fault | every cut of every packet; the second publication follows a pending one; what the first connection left meets the second one; the connection breaks during a pending write |
| `rtu` | 7 kinds of request (least, mid, greatest, too long, too short, broadcast, other slave), 2 requests, 1 fault, frames of 2 to 4 bytes, `eSndState` idle, sending or neither | two requests can merge, split, overtake a reply and fill the buffer exactly; the buffer of the port is shorter than what may arrive; a reply is cut off at any byte |
| `registers` | 4 registers, 2 of them quantities, 8-valued registers and bytes, frames of 5 and 6 bytes, byte counts 2 and 4, 3 requests, 2 commands | a write between two reads, commands between any two copies, counts above a byte, byte counts that do not fit the count, frames that end before their values, quantities below and above the range of a register |
| `master` | RTU, RTU over TCP, TCP; 2 tries, 2 restarts, 2 calls, quantities 1 and 2 of which 2 is too many, 2 faults, resets | the second call meets what the first one left: a late answer, a closed connection, a channel that could not be restarted; two resets in a row, each step of one between any two steps of a call and of its restart |
| `log_rotate` | 3 threads in 2 processes, at most 4 archives, at the start none or those numbered 0, 2 and 3 or 2 and 3, with or without a stray file that matches the pattern; a file is full with one line; 3 lines, 1 crash, 1 failing call or skipped archive | with 0, 2 and 3 the second rotation finds all places taken and removes the oldest; with one number missing every rename finds a free name, with two missing not; a rotation is cut off at each of its steps and followed by complete ones; both processes and two threads of one process compete |

`CHECK_DEADLOCK FALSE` is set where a behaviour ends: a failed assertion ends the
slave, and after the last request, command, message, call or line of the bound
nothing is left to do.

One violation run shows where the code departs from what its library says (the
quotation is in `PROJECT.json` under `findings`): in `mqtt_lost_flag`,
`mqtt_sm_offline` clears `connlost` after `mqtt_connect` returned; a loss reported
between the SUBACK and that line is forgotten and READY is never left.

## 4. Properties

- *ring buffer:* it is a drop-oldest FIFO (`FifoSpec`), and `dequeue_arr` returns
  the oldest elements in order and leaves the rest (`DequeueArrKeepsAll`). That no
  operation returns a slot that was never written (`Written`) is a theorem.
- *mqtt:* no client is leaked or used after its end (`ClientOwnership`); an element
  leaves the buffer unreceived only at the price of an overwritten one
  (`LossBounded`), although another element than the published one may be dequeued;
  first receipts keep the order (`FirstReceiptsInOrder`); responses come back to the
  device and are not answered again (`AnsweredOnce`); losses are noticed, the buffer
  drains, messages are processed (`LossNoticed`, `AllPublished`,
  `CommandsProcessed`).
- *cache:* no message vanishes between buffer and table (`NothingVanishes`) and none
  is in both or published twice (`NoDuplicates`), unless two threads dequeue for
  the same message; both drain (`Drains`).
- *Paho sessions:* nothing of QoS 2 arrives twice (`NeverTwice`), first receipts
  keep the order across wrap-around and restart (`FirstReceiptsInOrder`), a wait
  that reports completion is right (`CompletionTrue`), and in a kept session
  everything arrives (`AcceptedArrives`, `OfferedArrives`).
- *Paho threads:* an answer is taken for its own request and connection only
  (`AnswersMatch`), a loss is reported once (`LossReportedOnce`) and is reported
  (`LossIsReported`), a connected client is served (`RunnerServes`), a connect ends
  (`ConnectEnds`).
- *Paho sockets:* the broker sees whole packets (`PacketsWhole`) and so does the
  client (`PacketsRead`); a pending write ends (`PendingEnds`), a broken connection
  is closed (`BrokenIsClosed`). `Socket_continueWrite` dereferences the pending write
  it looks up; TLC would stop with an error if there were none.
- *Modbus slave:* of the assertions two can fail, one at the first byte and one at a
  frame of one length, and no others (`AbortsOnlyFor`); what is executed is a
  whole undamaged request (`ExecutesWholeRequests`), once and in order
  (`ExecutedOnce`), and what is written is its own reply, whole but for one cut per
  fault of the port (`RepliesMatch`), although request and reply share a
  buffer; the slave always listens again (`ListensAgain`), and a
  patient master is answered (`RequestAnswered`), for which the one-place event
  queue must not lose an event.
- *registers:* a read returns what was last written or set (`ReadsKnown`); a quantity
  set and not read before a write goes back to what it was at the read or write
  before, and the property says so: no other value and no other register is lost.
- *Modbus master:* a call succeeds with its own answer only (`OwnAnswer`); `ctx`
  dangles only within a reset or a restart, and contexts are neither leaked nor used
  after they were freed unless the two threads overlap or in two cases that the source
  leaves open (`ContextOwned`); a read with
  retry recovers from anything earlier (`ReadsRecover`), calls return
  (`CallReturns`).
- *log:* no archive is overwritten (`NothingOverwritten`), archives and lines are in
  order (`LogInOrder`), and only the oldest beyond the limit is removed
  (`KeepsNewest`), as long as no rotation went amiss; that lines are in order, the
  log file is the newest and nothing is removed while there is room holds always.

Each passing property has a mutant in `PROJECT.json`: a plausible slip in the code
under which TLC finds the property violated.

### What the properties exempt

Some exemptions state what the code does not do; the models have it, and the
property's comment says where:

- On a serial line an answer that outlives the flush is taken by the next call of
  the same shape; `OwnAnswer` is about TCP then. `modbus_rtu_tcp` and
  `modbus_rtu_udp` leak the old context on a restart and keep a pointer to a freed
  one when the connect fails; `modbus_rtu` uses a null pointer when no context can be
  allocated. When a step of `chan_reset` falls into a transaction or a `chan_start` of
  the other thread (`raced`), a freed context may be used and one may be leaked.
- `chan_read_input_bits` returns an unassigned value without a context, and
  `chan_write_single_register_with_retry` gives up instead of restarting.
- When the program ends after PUBACK was sent and before the message is queued, a
  QoS 1 message is lost (`dropped`); `OfferedArrives` exempts just these.
- A second restart may break the order, because Paho does not restore its
  identifier counter. A repeated PUBREL is answered only if the broker marks it
  (`BrokerDup`). In a clean session a publish that failed on its socket is reported
  as accepted, and its token as complete after a reconnect.
- With a clean session, a publish that fails while `messageArrived` runs frees the
  message the callback works on (`freed`).
- A connect that begins while the background thread ends on its own, or after stop
  gave up waiting (10 s), leaves a connected client without one (`handover`). A
  stale error of the previous socket can end a new attempt. The thread that calls
  connectionLost may refer to a client that was destroyed.
- `MQTTClient_cycle` overwrites the error of finishing a pending write; only a later
  read notices. A publication that is half written when a PUBLISH or PUBREL has
  arrived turns the answer to it into a socket error and ends the connection.
- The cache thread and the publisher may dequeue for the same message, and one is
  lost; a failed read of the table queues an empty message. JSON payloads cannot be
  cached, because the INSERT statement breaks.
- `mqtt_msgarrvd` returns no value; the runs take the 1 that keeps the message freed
  (`MsgArrvdReturns`).
- A Modbus frame of exactly 256 bytes fails the assertion of mbrtu.c:151, and the first
  byte fails that of mbrtu.c:227 unless malloc happened to leave STATE_TX_IDLE in
  `eSndState`. Either ends the program (`"aborted"`); `ListensAgain` and, for the
  second, `RequestAnswered` exempt it. The end of a frame is 50 ms of silence instead
  of t3.5, so requests closer than that merge.
- A port that fails within a reply leaves its beginning on the line (`RepliesMatch`).
- A frame of function 16 that ends before its values writes what an earlier frame left
  in the buffer. The high byte of a read count is dropped before the range check. A
  write to one register copies all registers to the quantities.
- An archive that is skipped for want of memory, and archives below which two numbers
  are missing, are renamed over others or others over them (`amiss`). A file that
  matches the archive pattern without a number counts as number 0, is renamed with the
  others and takes a place among them. A rotation that another thread holds is
  skipped, and the file grows until the next line.

## 5. Fairness

`Mqtt!FairSpec`: weak fairness of the mqtt thread, of the application thread and of
the callbacks. The threads are loops with a sleep and no unbounded wait: locks are
held for one buffer operation, `waitForCompletion` has a time-out (`WaitFailed` is
enabled when the connection is gone or a fault is spent). The broker reads what it
is sent. Faults have no fairness; there are finitely many, so after the last one a
connect succeeds. `mqtt_live` excludes the window that `mqtt_lost_flag` is about
(`LossAfterSuback = FALSE`).

`MqttCache!FairSpec`: weak fairness of the cache thread and the publisher, both
loops with a sleep, and of reconnecting.

`PahoSession!FairSpec`, `PahoThreads!FairSpec`: weak fairness of the background
thread, whose select has a time-out, of the application's calls, which wait with a
time-out, of the connectionLost threads, and of the broker and the TCP connection.

`PahoSocket!FairSpec`: weak fairness of the receive thread and of a publisher inside
its call. Strong fairness of `SelectWritable`: the receive loop copies the set of
pending sockets again in each round, and a peer that goes on reading makes the
socket writable again and again.

`ModbusRtu!FairSpec`: weak fairness of the polling thread, which never waits longer
than 50 ms, of a master that has started a request, and of the passing of time on
a silent line.

`ModbusMaster!FairSpec`: weak fairness of the calling thread, whose reads have
time-outs, and of slave and line, which answer or lose what was sent.

## 6. Proofs

All theorems are for every value of the constants that satisfies the `ASSUME`s of
the component's module, which TLC evaluates on every run. Three have a condition more,
explained below: `CompletionIsTrue` and `FirstReceiptsOrdered` assume something about
the constants of `PahoSession`, and `AnswerIsOwn` covers behaviours with fewer faults
than transaction identifiers.

**Mqtt_proof, the ring buffer** (`SIZE` a natural number of at least 2).
`IInv` is `TypeOK /\ Written /\ OneLoop /\ DequeueArrKeepsAll`: being in range is
not inductive without knowing that at most one array operation is under way and how
far it is, and `Written` is not without the count of elements. The lemmas
`GrowArith` and `ShrinkArith` are the arithmetic of the mask: `num_items` changes by
one when an index moves by one, and is 0 after moving onto the other index.
`Grow` and `Shrink` lift them to the sequence of elements; `PlaceIsPush`,
`TakeIsPop` and `PeekIsItemAt` say that the C functions are the abstract operators.
From these follow `TypeCorrect`, `NeverGarbage`, `DequeueArrSound` and, step by
step, `ImplementsFifo`: the ring buffer implements the abstract queue. `Mqtt` uses
that queue in place of the buffer.

**Mqtt_proof, the client** (any buffer sizes, any number of uploads, messages, faults and
commands). `ClientOwned` needs only `Phase` besides the property: what state and
step are at each place of the thread. `LossIsBounded` needs three facts that the
property does not mention: the buffer holds consecutive numbers ending with
`queued` (`Numbered`), the peeked element is at the head or was overwritten since
(`Window`), and an acknowledgement or a publish on the wire of the current
connection is for the peeked element (`Tokens`). `WindowLoss` is the strengthening:
when the peeked element was overwritten, there is one unit of credit left, which
pays for the other element that the dequeue removes. `ReceiptsInOrder` proves the
action property `FirstReceiptsInOrder` from these and `Ordered`: the peeked element is
at most the head, the copies on the wire are in ascending order and not newer than it,
and nothing that was received or left by a broken connection is newer than they are.
`RespondsOnce` counts: responses made, the one that is due, and the command messages in
the receive buffer never exceed those that reached the callback (`AnswerInv`).

**MqttCache_proof** (any capacity, thresholds, faults and restarts).
`CacheLosesNothing` needs to know, at each place of the two threads, where the
message they hold is (`VanishInv`): between the insert and the dequeue it is in the
table, between the queue and the delete it is somewhere else as well. `CacheDuplicatesNothing` adds
`Once`: buffer and table are duplicate-free and disjoint up to the message that
the cache thread is moving, which `Both` names.

**ModbusSlave_proof, the link** (any kinds and sizes of requests, any faults). `RtuInv` is types,
`Control` (which event, which receiver and sender state, and which place of the
thread occur together) and `AcceptInv`: while EV_EXECUTE is queued, `ucRTUBuf` holds
the accepted request. That is what `WholeRequestsExecuted` is about; it is inductive
only with `Control`, by which no byte reaches the buffer while the event is queued.
`FailingAssertions` proves `AbortsOnlyFor`, for any value of `eSndState`, from `AbortInv`:
either the sender is idle whenever the transmitter is off (`SndIdle`), or it has never
been assigned and no byte has been received (`Unset`); and no more than
`SIZE_MAX` bytes are stored. Whichever assertion fails, it is one of the two.
`RequestsExecutedOnce` follows from `Fresh`: first bytes of requests are in ascending
order through buffer, port and line, and above all that were executed.
`RepliesOfExecuted` needs `SendInv`, what the sender has still to write, and as
witness a matching of the written frames with executed requests (`Matched`), under
which a written frame is a prefix of its reply and no more are cut than there were faults.

**ModbusSlave_proof, the registers** (any layout of quantities and registers, any inputs).
`ReadsKnownAlways` proves the action property `ReadsKnown` from `KnownInv`. A register
without a quantity may be read as what it holds, and nothing else (`Plain`). One with a
quantity holds what is `kept` for the next write, until `on_03` refreshes it (`Copied`);
what the quantity converts to is `known` (`Agreed`), or `on_06` has still to replace it
by what was kept (`Replaced`); and what `on_03` has copied is in the `span` of the read
(`Refreshed`). That a quantity taken from a register converts back to the same value
(`FromReg`, `ToReg`) is what keeps values from drifting.

**ModbusMaster_proof** (any numbers of tries, restarts, calls and faults).
`ContextIsOwned` rests on `Owner`. Whatever overlaps, the thread that freed a context
stays at a place of `Dangling` until it assigns `ctx`. As long as the threads did not
overlap, one of them is at rest (`Alone`), no context but `ctx` is live, and none at all
after a free (`Freed`). Without an overlap and a failed connect of `modbus_rtu_tcp`
(`Sound`), `ctx` is live at every place that uses it.
`AnswerIsOwn` is about the transaction identifier. `Late` says that over TCP the parts
on the line are ordered by age and none is more than `faults` transactions late;
`AllNumbered` says what the identifier tells of the age, modulo `TID_MOD`. So the
theorem states `OwnAnswer` for behaviours with fewer faults than identifiers (65536).
The bound is sharp: with `TID_MOD = 2` and two faults TLC finds an old answer taken for
a new one. In the RTU framings, without an identifier, `Prompt` shows it for as long as
no answer outlives its transaction, which is what `OwnAnswer` says of them.
`ReadsAlwaysRecover` adds `Recovers`, the course of a call that meets no fault: the
first round of attempts may fail on a channel that is down, the restart opens a
context, and from there the answer on the line is the one that is awaited.

**PahoSession_proof** (any identifiers and window, any numbers of publications, faults and
restarts, every mode of `Modes`). `SessionInv` has a part for each thing that the
properties rest on and do not mention:

- `Lists` and `Mirror`: an identifier is in each list once, and the store is the image of
  the lists: the publications with the PUBRELs that were sent, what waits for a PUBREL,
  the queue. `StoredIsListed` states `Mirror` by itself: it is what makes a restart at
  any step harmless. That `insertInOrder` gives a list of the stored set is proved by
  counting ranks, that `wrapMsgID` only rotates it by the definition;
- `Exchange`, once for each direction: of a publication at most one packet is under way,
  there is an entry for it, and it is the packet that the state of the entry asks for.
  This is what a retransmission after a reconnect, a PUBREL repeated by `retries` and a
  late PUBCOMP would break first;
- `SentInv` and `AnswerInv`: a QoS 2 publication that the broker has is remembered by it
  or is past PUBREC, and an answer on the way tells the truth. They give the first half
  of `NeverTwice`; `OfferInv` and `OnceInv` give the other half, for which the
  place of a publication between the list, the queue and the callback must be known,
  also after the session was freed under the callback;
- `TokenInv`: a publication with a token has arrived, is listed or its session is over.
  It gives `CompletionIsTrue`.

`QoS2Once` holds in every mode. `CompletionIsTrue` has the hypothesis that a session is
clean or has a store, and needs it: in a session that is kept without a store, a restart
begins the identifiers anew while the broker still knows the old ones, so it answers a
new QoS 2 publication as the repetition of an old one. `mqtt.c` uses clean sessions. The
proof of `Mirror` also showed that a CASE in the model of `restorePackets` had overlapping
arms, of which TLC had silently taken the first; it is now the IF of the code.

`FirstReceiptsOrdered` proves `FirstReceiptsInOrder` with a second invariant, `OrderInv`,
on top of `SessionInv`. The two directions of the connection are taken as one queue, in
which an answer of the broker keeps the place of the request: `Ahead` says that nothing
for the one identifier is in front of the packet for the other.

- While the list is in order (`Rising`, `Queued`, `Newer`): later publications are behind
  an open one, so whatever the broker is given next is known to it or newer than all
  that it has. A PUBREC ends this for its publication, whose PUBREL goes to the end.
- Until the first restart (`Window`, `Numbered`): identifiers are numbered without holes
  back from `msgID`, so that `assignMsgId` finds the next one free; what was published
  after an open publication, or MAX_INFLIGHT after any, is still listed, and by counting
  a listed publication is at most 2 * MAX_INFLIGHT - 2 behind the newest.
- At the first restart (`WrapRises`): the gap across the wrap is then the widest, so
  `wrapMsgID` turns the order of identifiers back into the order of publications.

The theorem has the hypothesis 4 * MAX_INFLIGHT - 3 <= MAX_MSG_ID, which makes the gap
across the wrap wider than any other; connect sets a window of 1 or 10, for 65535
identifiers. The property itself stops at the second restart: `msgID` is not restored, so
identifiers of after the first restart tell nothing about those of before it.

**PahoSocket_proof** (any number and lengths of buffers, any packets of the broker, any
faults; writes and reads cut at any byte). `SocketInv` is types, `Places` (which places of
the two threads, which holder of the mutex and which entries of the pending lists occur
together), `WireInv` and `ReadInv`. `WireInv` says that a pending write goes on exactly
where the wire ends, and that without one the wire ends with a whole packet:
`PacketsWhole` says this only of the bytes that are there. `ReadInv` says that what
was taken from the stream is the packets returned and the header and data in the queue,
and how far the replay of the queue is. `LeftIs` proves that what `Socket_continueWrite`
puts together from the buffers is what follows the bytes already written, `StreamIs` what
byte of which packet is where in the stream. `WritesWhole` and `ReadsWhole` follow.

**PahoThreads_proof** (any number of clients and faults). `LossOnce` needs `LossInv`,
where a loss is between being found and being reported. `RunnerAlwaysServes` needs
`RunInv`, which relates `running`, `tostop` and the places of both threads.
`AnswersAlwaysMatch` needs `MeetInv`: of one connection there is at most one CONNACK,
which is owed by the broker, arrived, held by the background thread or at the
packet pointer, and no connection begins in time while one of an earlier attempt is
left in any of these places.

**LogRotate_proof** (any threads, processes, archives and sets of archives at the start,
line lengths, crashes, failing calls and skipped archives; `NONE` is no thread and no
process). `ArchiveInv` is the inductive form of `NeverOverwritten`. A list under way
has archives in the order of their numbers (`Listed`), and as long as no rotation
went amiss (`Close`) none in it has a number above its place, except the last of
a complete list, and the archives that were moved already have numbers above the
places of those still to move. So each rename goes to a number that is free (`Rolled`,
`BaseRolled`), wherever an earlier rotation was cut off. `LockInv` shows that one
thread at a time is between the locks, so that no other list is under way. The facts
about lists (`ListOf`, `Starts`) are derived by counting (an injection between
finite sets of the same size), not by induction. A rotation that went
amiss is never forgotten (`AmissStays`). `AlwaysInOrder` adds that
the log file is the newest file (`NewestInv`), `NamesInOrder` and `LinesInOrder`;
`NewestAreKept` proves the action property `KeepsNewest` from the same invariant.

The inductive invariants were checked by TLC on the instances of the runs before they
were proved.

Induction over data: the induction theorems of the library take an operator as parameter
and cannot be used. Where a recursive function or a fold had to be unfolded
(`Ends`, `FlattenSeq`, in `PahoSocket_proof`), the proof takes the least counterexample of
a set of numbers instead (`LeastNat`, from `WFMin` of WellFoundedInduction); in
`LogRotate_proof` and `PahoSession_proof` counting elements of finite sets replaces it.

Only model-checked:

- all liveness properties: fairness and ENABLED are out of the prover's reach.

No module needs RECURSIVE.

## 7. Limits and what is left out

The share of the repository that the map covers stays small: more than half of its
lines are vendored headers and libraries (SQLite's headers alone are a fifth, cJSON,
TLS, websocket and MQTT 5 code of Paho, unused outputs of zlog, ASCII and TCP modes of
FreeModbus) that this program does not reach or that hold no state, and the command
line tool. What the program runs of its own, and the parts of the libraries it stands
on, are modelled.

Limits of the models:

- JSON members that `cloud.c` dereferences unchecked are assumed present; payload
  texts are not modelled.
- Nobody but the rotater removes an archive while the program runs; what was removed
  before is in `Init` of `LogRotate`.
- A mutex that `mqtt_thrd_main` initialises while another thread may hold it, and a
  double torn by an unlocked access on a 32-bit target, are outside the models.
- The publish statistics, `sm.c`'s and `comm.c`'s timing averages and the texts of log
  lines do not influence behaviour.
- Paho's retry interval is 0 in the initializer that `mqtt.c` uses, so nothing is sent
  again within a connection; `mqtt.c` uses no persistence, `PahoSession` covers both.
- A read error of the serial port changes no state and is a stutter; a port that
  fails for good spins in its receive loop.
- The elapsed time in `porttimer.c` multiplies microseconds by 1000 instead of
  dividing; the timer is only looked at after 50 ms of silence or a reply, and is
  modelled as expired then.
- `SocketBuffer_getQueuedData` copies from a freed buffer when a buffer with data in it
  must grow; the length of a packet is fixed when its body is first asked for, so it
  never does.

Not modelled:

- *ThingsBoard client* (`tb.c`, `tbmqtt*.c`): nothing calls `tb_init` or `tb_exe`, its
  start in `plt.c` is commented out, and `tbmqtt_connect` gives `MQTTClient_create`
  an uninitialised handle by value, so that its ready state is out of reach.
- *Shared memory and tool* (`shm.c`, `tool.c`): the server side is disabled in `plt.c`;
  the tool formats and prints.
- *CAN, serial and GPIO channels, `modbus_rtu_udp`*: copies between a device and ring
  buffers, whose behaviour `RingBuffer` has; nothing opens them here.
- *libmodbus as a server, error recovery; FreeModbus ASCII and TCP; Paho with MQTT 5,
  TLS, websockets or a will; zlog's other outputs, its `#s` scheme and reload*: not
  used by the program or its configuration.
- *cJSON, SQLite, list, snowid, uuid4, helpers*: without state that the program relies
  on beyond a call, or external actions where they fail.

## 8. Plan

Done: ring buffer with its abstract specification and proofs; mqtt client; cache;
Modbus slave; registers; Modbus master; Paho's sessions, threads and sockets; log
rotation. Still to do:

1. `Registers` and `ModbusRtu` composed: the slave with the registers behind it;
   function 04 with its address arithmetic.
2. The reconnect interval: `mqtt_sm.c` counts iterations of 10 ms where a comment
   speaks of seconds; needs a clock in `Mqtt`.
