-------------------------------- MODULE Mqtt --------------------------------
(***************************************************************************)
(* The cloud link: the mqtt thread (platform/util/mqtt/mqtt.c, mqtt_sm.c), *)
(* the application thread that feeds it (appl/cloud.c, appl/appl.c), the   *)
(* callbacks that the Paho client runs on threads of its own, and, marked  *)
(* external, the Paho client and the broker as far as this code sees them. *)
(*                                                                         *)
(* A queued upload or response is its number in the order of queueing.     *)
(* Each action is what a thread does between two points where another      *)
(* thread can interfere: a lock region, a call into Paho, or an iteration  *)
(* of mqtt_sm that does neither.                                           *)
(*                                                                         *)
(* Not modelled: the publish timing statistics, the usage percentages, the *)
(* texts of payloads, and dev->enable, which the thread sets to 1 and      *)
(* nothing in the program clears.                                          *)
(***************************************************************************)
EXTENDS DropOldest, FiniteSets

CONSTANTS TxCap, RxCap,       \* MQTT_RING_BUFFER_SIZE - 1
          CONN_COUNT,         \* loop iterations between connects: 10
          SYS_INTV,           \* cloud.sys_intv[0]: 10
          SmCmds,             \* what mqtt_send_sm_cmd is called with
          MsgArrvdReturns,    \* what the caller of mqtt_msgarrvd gets back
          LossAfterSuback,    \* may the connection break in that window?
          MaxUploads,         \* bound: uploads of cloud_update
          CloudMsgs,          \* bound: the messages sent to the device, in order
          MaxFaults           \* bound: faults of the network and the broker

ASSUME CapAssumption == TxCap \in Nat \ {0} /\ RxCap \in Nat \ {0}
ASSUME CountAssumption == CONN_COUNT \in Nat \ {0} /\ SYS_INTV \in Nat
ASSUME CmdAssumption == SmCmds \subseteq {"READY", "OFFLINE"}
ASSUME ReturnAssumption == MsgArrvdReturns \subseteq {0, 1}
ASSUME BoundAssumption == MaxUploads \in Nat /\ MaxFaults \in Nat

\* The payloads cloud_proc_recv tells apart: "cmd" as a string ("set"), as an
\* object with and without a member, "update", any other JSON object (the
\* device's own responses come back as such), and what does not parse.
Kinds == {"set", "sub", "nochild", "update", "other", "bad"}

\* The kinds with a "cmd", and of them those that are answered: needRespond
\* and no early exit.
HasCmd == {"set", "sub", "nochild"}
MutAnswered == {"set", "sub", "other"}
Answered == {"set", "sub"}

ASSUME CloudAssumption == CloudMsgs \in Seq(Kinds)

VARIABLES
  pc,        \* where the mqtt thread is
  state,     \* MDL.mqtt.sm.state
  step,      \* MDL.mqtt.sm.step
  count,     \* MDL.mqtt.sm.count
  cmd,       \* MDL.mqtt.cmd
  connlost,  \* MDL.mqtt.connlost
  ret,       \* mqtt_connect's ret
  cur,       \* number of the element mqtt_sm_ready has peeked
  txbuf,     \* mqtt_txbuf
  rxbuf,     \* mqtt_rxbuf
  apc,       \* where the application thread is
  timer,     \* MDL.cloud.sys_timer[0]
  cli,       \* MDL.mqtt.cli # NULL
  clients,   \* external: number of Paho clients allocated
  connected, \* external: the client's connected flag
  lostCalls, \* external: connection lost callbacks started and not yet run
  wire,      \* external: publishes on their way to the broker
  acked,     \* external: the broker acknowledged the current token
  stale,     \* external: publishes of broken connections still on their way
  inbox,     \* external: messages on their way to the device
  cloudPos,  \* external: messages the cloud has sent
  faults,    \* external: faults so far
  queued,    \* history: elements queued so far
  replies,   \* history: which of them are responses
  taken,     \* history: messages with a "cmd" that reached the callback
  received,  \* history: elements the broker has received
  overwritten \* history: elements dropped by a full or re-initialised buffer

smVars == <<state, step, count>>
thread == <<pc, state, step, count, cmd, connlost, ret, cur>>
app == <<apc, timer>>
bufs == <<txbuf, rxbuf>>
client == <<cli, clients, connected>>
net == <<lostCalls, wire, acked, stale, inbox, cloudPos, faults>>
hist == <<queued, replies, taken, received, overwritten>>
vars == <<thread, app, bufs, client, net, hist>>

-----------------------------------------------------------------------------
Init == /\ pc = "start"
        /\ state = "NONE" /\ step = 0 /\ count = 0
        /\ cmd = "DONE"
        /\ connlost = FALSE
        /\ ret = 0
        /\ cur = 0
        /\ txbuf = <<>> /\ rxbuf = <<>>
        /\ apc = "recv"
        /\ timer = 0
        /\ cli = FALSE /\ clients = 0 /\ connected = FALSE
        /\ lostCalls = 0
        /\ wire = <<>> /\ acked = FALSE /\ stale = {}
        /\ inbox = <<>> /\ cloudPos = 0
        /\ faults = 0
        /\ queued = 0 /\ replies = {} /\ taken = 0 /\ received = {}
        /\ overwritten = 0

Fault == faults < MaxFaults /\ faults' = faults + 1
-----------------------------------------------------------------------------
(* Paho, as the mqtt thread and its callbacks meet it (external).          *)

\* disconnect_internal: the run thread found the socket broken, or a call
\* did.  What was on its way may still arrive, or be lost, in order; the
\* connection lost callback is started on a thread of its own.
BreakConnection == /\ connected' = FALSE
                   /\ lostCalls' = lostCalls + 1
                   /\ \E n \in 0..Len(wire) : stale' = stale \cup {wire[i].id : i \in 1..n}
                   /\ wire' = <<>>
                   /\ acked' = FALSE
                   /\ inbox' = <<>>

\* MQTTClient_destroy(&cli): the client and what it holds are gone, cli is NULL.
MQTTClient_destroy == /\ cli' = FALSE
                      /\ clients' = clients - 1
                      /\ connected' = FALSE
                      /\ \E n \in 0..Len(wire) : stale' = stale \cup {wire[i].id : i \in 1..n}
                      /\ wire' = <<>>
                      /\ acked' = FALSE
                      /\ inbox' = <<>>

\* if (dev->cli != NULL) MQTTClient_destroy(&dev->cli)
DestroyClient == IF cli THEN MQTTClient_destroy
                        ELSE UNCHANGED <<client, wire, acked, stale, inbox>>
-----------------------------------------------------------------------------
(* The mqtt thread.                                                        *)

sm_set_state(s) == state' = s /\ step' = 0 /\ count' = 0

\* mqtt_thrd_main up to its loop: the buffers are emptied, whatever the
\* application thread has queued by then.
ThreadStart == /\ pc = "start"
               /\ pc' = "loop"
               /\ txbuf' = <<>> /\ rxbuf' = <<>>
               /\ overwritten' = overwritten + Len(txbuf)
               /\ sm_set_state("OFFLINE")
               /\ UNCHANGED <<cmd, connlost, ret, cur, app, client, net,
                              queued, replies, taken, received>>

\* The entry step of both states.
SmEntry == /\ pc = "loop" /\ step = 0
           /\ cmd' = "DONE"
           /\ step' = 10
           /\ UNCHANGED <<pc, state, count, connlost, ret, cur, app, bufs, client, net, hist>>

OfflineCmdReady == /\ pc = "loop" /\ state = "OFFLINE" /\ step = 10
                   /\ cmd = "READY"
                   /\ cmd' = "DONE"
                   /\ pc' = "connect"
                   /\ UNCHANGED <<smVars, connlost, ret, cur, app, bufs, client, net, hist>>

OfflineCount == /\ pc = "loop" /\ state = "OFFLINE" /\ step = 10
                /\ cmd # "READY"
                /\ IF count + 1 >= CONN_COUNT
                     THEN count' = 0 /\ pc' = "connect"
                     ELSE count' = count + 1 /\ pc' = pc
                /\ UNCHANGED <<state, step, cmd, connlost, ret, cur, app, bufs, client, net, hist>>

\* mqtt_connect up to the result of MQTTClient_connect.
Connect == /\ pc = "connect"
           /\ pc' = "subscribe"
           /\ cli' = TRUE
           /\ clients' = clients + 1
           /\ \/ connected' = TRUE /\ ret' = 0 /\ UNCHANGED faults
              \/ connected' = FALSE /\ ret' = -1 /\ Fault
           /\ UNCHANGED <<smVars, cmd, connlost, cur, app, bufs, lostCalls, wire, acked,
                          stale, inbox, cloudPos, hist>>

\* MQTTClient_subscribe, called whether the connect succeeded or not: granted,
\* refused or timed out, or ended by a broken connection.
Subscribe == /\ pc = "subscribe"
             /\ pc' = "finish"
             /\ \/ /\ connected
                   /\ UNCHANGED <<ret, connected, net>>
                \/ /\ connected
                   /\ ret' = -2 /\ Fault
                   /\ UNCHANGED <<connected, lostCalls, wire, acked, stale, inbox, cloudPos>>
                \/ /\ connected
                   /\ ret' = -2 /\ Fault
                   /\ BreakConnection
                   /\ UNCHANGED cloudPos
                \/ /\ ~connected
                   /\ ret' = -2
                   /\ UNCHANGED <<connected, net>>
             /\ UNCHANGED <<smVars, cmd, connlost, cur, app, bufs, cli, clients, hist>>

\* What both branches of mqtt_sm_offline do with the result of mqtt_connect.
MutConnectFailed == /\ pc = "finish" /\ ret < 0
                    /\ pc' = "loop"
                    /\ count' = 0
                    /\ UNCHANGED <<state, step, cmd, connlost, ret, cur, app, bufs, client,
                                   net, hist>>
ConnectFailed == /\ pc = "finish" /\ ret < 0
                 /\ pc' = "loop"
                 /\ DestroyClient
                 /\ count' = 0
                 /\ UNCHANGED <<state, step, cmd, connlost, ret, cur, app, bufs,
                                lostCalls, cloudPos, faults, hist>>

MutConnectDone == /\ pc = "finish" /\ ret >= 0
                  /\ pc' = "loop"
                  /\ sm_set_state("READY")
                  /\ UNCHANGED <<cmd, connlost, ret, cur, app, bufs, client, net, hist>>
ConnectDone == /\ pc = "finish" /\ ret >= 0
               /\ pc' = "loop"
               /\ connlost' = FALSE
               /\ sm_set_state("READY")
               /\ UNCHANGED <<cmd, ret, cur, app, bufs, client, net, hist>>

Ready == pc = "loop" /\ state = "READY" /\ step = 10

ReadyCmdOffline == /\ Ready
                   /\ cmd = "OFFLINE"
                   /\ cmd' = "DONE"
                   /\ DestroyClient
                   /\ sm_set_state("OFFLINE")
                   /\ UNCHANGED <<pc, connlost, ret, cur, app, bufs,
                                  lostCalls, cloudPos, faults, hist>>

ReadyConnLost == /\ Ready
                 /\ cmd # "OFFLINE" /\ connlost
                 /\ DestroyClient
                 /\ sm_set_state("OFFLINE")
                 /\ UNCHANGED <<pc, cmd, connlost, ret, cur, app, bufs,
                                lostCalls, cloudPos, faults, hist>>

\* mqtt_peek_txbuf under the lock; the element is then published unlocked.
ReadyPeek == /\ Ready
             /\ cmd # "OFFLINE" /\ ~connlost
             /\ txbuf # <<>>
             /\ cur' = Head(txbuf)
             /\ pc' = "pub"
             /\ UNCHANGED <<smVars, cmd, connlost, ret, app, bufs, client, net, hist>>

\* MQTTClient_publishMessage: refused when disconnected, otherwise accepted;
\* copies of earlier tokens stay on the wire.
MutPubFailed == /\ pc = "pub"
                /\ ~connected
                /\ pc' = "loop"
                /\ txbuf' = Append(Pop(txbuf), cur)
                /\ UNCHANGED <<smVars, cmd, connlost, ret, cur, app, rxbuf, client, net, hist>>
PubFailed == /\ pc = "pub"
             /\ ~connected
             /\ pc' = "loop"
             /\ UNCHANGED <<smVars, cmd, connlost, ret, cur, app, bufs, client, net, hist>>

Pub == /\ pc = "pub"
       /\ connected
       /\ pc' = "wait"
       /\ wire' = Append([i \in 1..Len(wire) |-> [wire[i] EXCEPT !.live = FALSE]],
                         [id |-> cur, live |-> TRUE])
       /\ acked' = FALSE
       /\ UNCHANGED <<smVars, cmd, connlost, ret, cur, app, bufs, client, lostCalls, stale,
                      inbox, cloudPos, faults, hist>>

\* MQTTClient_waitForCompletion: failed by a disconnect or by its time limit.
MutWaitFailed == /\ pc = "wait"
                 /\ \/ ~connected /\ UNCHANGED faults
                    \/ connected /\ Fault
                 /\ pc' = "dequeue"
                 /\ UNCHANGED <<smVars, cmd, connlost, ret, cur, app, bufs, client, lostCalls,
                                wire, acked, stale, inbox, cloudPos, hist>>
WaitFailed == /\ pc = "wait"
              /\ \/ ~connected /\ UNCHANGED faults
                 \/ connected /\ Fault
              /\ pc' = "loop"
              /\ UNCHANGED <<smVars, cmd, connlost, ret, cur, app, bufs, client, lostCalls,
                             wire, acked, stale, inbox, cloudPos, hist>>

WaitDone == /\ pc = "wait"
            /\ connected /\ acked
            /\ pc' = "dequeue"
            /\ UNCHANGED <<smVars, cmd, connlost, ret, cur, app, bufs, client, net, hist>>

\* mqtt_dequeue_txbuf: whatever is the oldest element by now.
DequeueTx == /\ pc = "dequeue"
             /\ txbuf' = Pop(txbuf)
             /\ pc' = "loop"
             /\ UNCHANGED <<smVars, cmd, connlost, ret, cur, app, rxbuf, client, net, hist>>

\* mqtt_send_sm_cmd, from any thread.
mqtt_send_sm_cmd(c) == /\ cmd' = c
                       /\ UNCHANGED <<pc, smVars, connlost, ret, cur, app, bufs, client,
                                      net, hist>>
-----------------------------------------------------------------------------
(* The application thread: appl_run calls cloud_exe for ever.              *)

\* mqtt_queue_txbuf under the lock.
mqtt_queue_txbuf == /\ txbuf' = PushTo(txbuf, TxCap, queued + 1)
                    /\ overwritten' = overwritten + (IF Len(txbuf) = TxCap THEN 1 ELSE 0)
                    /\ queued' = queued + 1

\* cloud_proc_recv up to the decision to respond.
MutCloudRecv == /\ apc = "recv"
                /\ apc' = IF rxbuf # <<>> /\ Head(rxbuf) \in Answered THEN "respond" ELSE "update"
                /\ rxbuf' = IF rxbuf # <<>> /\ Head(rxbuf) = "bad" THEN rxbuf ELSE Pop(rxbuf)
                /\ UNCHANGED <<thread, timer, txbuf, client, net, hist>>
CloudRecv == /\ apc = "recv"
             /\ apc' = IF rxbuf # <<>> /\ Head(rxbuf) \in Answered THEN "respond" ELSE "update"
             /\ rxbuf' = Pop(rxbuf)
             /\ UNCHANGED <<thread, timer, txbuf, client, net, hist>>

CloudRespond == /\ apc = "respond"
                /\ apc' = "update"
                /\ mqtt_queue_txbuf
                /\ replies' = replies \cup {queued + 1}
                /\ UNCHANGED <<thread, timer, rxbuf, client, net, taken, received>>

\* The model bound: time stands still for cloud_update after MaxUploads uploads.
UploadsLeft == queued - Cardinality(replies) < MaxUploads

cloud_update == /\ apc = "update"
                /\ apc' = "recv"
                /\ \/ /\ UploadsLeft /\ timer < SYS_INTV
                      /\ timer' = timer + 1
                      /\ UNCHANGED <<txbuf, overwritten, queued>>
                   \/ /\ UploadsLeft /\ timer >= SYS_INTV
                      /\ timer' = 0
                      /\ mqtt_queue_txbuf
                   \/ /\ ~UploadsLeft
                      /\ UNCHANGED <<timer, txbuf, overwritten, queued>>
                /\ UNCHANGED <<thread, rxbuf, client, net, replies, taken, received>>
-----------------------------------------------------------------------------
(* The callbacks, on threads of the Paho client.                           *)

\* The thread of a connection lost callback runs at any later time.
MutConnlost == /\ lostCalls > 0
               /\ lostCalls' = lostCalls - 1
               /\ UNCHANGED <<thread, app, bufs, client, wire, acked, stale, inbox, cloudPos,
                              faults, hist>>
mqtt_connlost == /\ lostCalls > 0
                 /\ lostCalls' = lostCalls - 1
                 /\ connlost' = TRUE
                 /\ UNCHANGED <<pc, smVars, cmd, ret, cur, app, bufs, client, wire, acked,
                                stale, inbox, cloudPos, faults, hist>>

\* mqtt_msgarrvd frees the message and queues its content; the function ends
\* without a return statement, so its caller sees any value.  On 0 Paho keeps
\* the message at the head of its queue and delivers it again.
mqtt_msgarrvd(r) == /\ connected /\ inbox # <<>>
                    /\ rxbuf' = PushTo(rxbuf, RxCap, Head(inbox).kind)
                    /\ inbox' = IF r = 1 THEN Tail(inbox)
                                         ELSE [inbox EXCEPT ![1].freed = TRUE]
                    /\ taken' = taken + (IF Head(inbox).kind \in HasCmd THEN 1 ELSE 0)
                    /\ UNCHANGED <<thread, app, txbuf, client, lostCalls, wire, acked, stale,
                                   cloudPos, faults, queued, replies, received, overwritten>>
-----------------------------------------------------------------------------
(* The network and the broker (external).                                  *)

\* The connection breaks.
ConnectionBreaks == /\ connected /\ Fault
                    /\ pc = "finish" => LossAfterSuback
                    /\ BreakConnection
                    /\ UNCHANGED <<thread, app, bufs, cli, clients, cloudPos, hist>>

\* The broker receives a publish.  The topic of a response is the one the
\* device has subscribed to, so the broker sends the response back to it.
Echo(i) == IF i \in replies THEN <<[kind |-> "other", freed |-> FALSE]>> ELSE <<>>

BrokerReceive == /\ wire # <<>>
                 /\ wire' = Tail(wire)
                 /\ acked' = (acked \/ Head(wire).live)
                 /\ received' = received \cup {Head(wire).id}
                 /\ inbox' = inbox \o Echo(Head(wire).id)
                 /\ UNCHANGED <<thread, app, bufs, client, lostCalls, stale, cloudPos, faults,
                                queued, replies, taken, overwritten>>

\* A publish of a broken connection arrives late.
BrokerReceiveLate == \E i \in stale :
                        /\ stale' = stale \ {i}
                        /\ received' = received \cup {i}
                        /\ inbox' = IF connected THEN inbox \o Echo(i) ELSE inbox
                        /\ UNCHANGED <<thread, app, bufs, client, lostCalls, wire, acked,
                                       cloudPos, faults, queued, replies, taken, overwritten>>

\* The cloud sends its next message to the device.
CloudSends == /\ connected /\ cloudPos < Len(CloudMsgs)
              /\ cloudPos' = cloudPos + 1
              /\ inbox' = Append(inbox, [kind |-> CloudMsgs[cloudPos + 1], freed |-> FALSE])
              /\ UNCHANGED <<thread, app, bufs, client, lostCalls, wire, acked, stale,
                             faults, hist>>
-----------------------------------------------------------------------------
\* One iteration or continuation of the mqtt thread.
MqttThread == \/ ThreadStart \/ SmEntry \/ OfflineCmdReady \/ OfflineCount
              \/ Connect \/ Subscribe \/ ConnectFailed \/ ConnectDone
              \/ ReadyCmdOffline \/ ReadyConnLost \/ ReadyPeek
              \/ PubFailed \/ Pub \/ WaitFailed \/ WaitDone \/ DequeueTx

AppThread == CloudRecv \/ CloudRespond \/ cloud_update

MsgArrived == \E r \in MsgArrvdReturns : mqtt_msgarrvd(r)

Next == \/ MqttThread
        \/ \E c \in SmCmds : mqtt_send_sm_cmd(c)
        \/ AppThread
        \/ mqtt_connlost
        \/ MsgArrived
        \/ ConnectionBreaks
        \/ BrokerReceive
        \/ BrokerReceiveLate
        \/ CloudSends

Spec == Init /\ [][Next]_vars

\* Every thread of the program keeps running, a callback that was started
\* runs, and the broker reads what is sent to it.  Faults are not fair: after
\* the last one a connect succeeds and a publish is acknowledged.
FairSpec == /\ Spec
            /\ WF_vars(MqttThread)
            /\ WF_vars(AppThread)
            /\ WF_vars(mqtt_connlost)
            /\ WF_vars(MsgArrived)
            /\ WF_vars(BrokerReceive)
-----------------------------------------------------------------------------
\* At most one Paho client is allocated, the one cli points to, and the
\* program publishes only with a client: nothing is leaked or used after
\* MQTTClient_destroy on any path through connect, failure and loss.
ClientOwnership == /\ clients = IF cli THEN 1 ELSE 0
                   /\ connected => cli
                   /\ pc \in {"subscribe", "finish", "pub", "wait", "dequeue"} => cli
                   /\ pc = "loop" => (cli <=> state = "READY")

\* The elements that have left txbuf are those before the oldest one in it.
Gone == 1..(queued - Len(txbuf))

\* An element leaves txbuf only after the broker has received it, up to one
\* loss for each element a full buffer overwrote: also when the overwriting
\* happens between the peek and the dequeue of mqtt_sm_ready.
LossBounded == Cardinality(Gone \ received) <= overwritten

\* The broker meets the elements in the order they were queued: an element
\* that arrives for the first time on a connection that is up follows all
\* the elements that have arrived before.
FirstReceiptsInOrder ==
  [][BrokerReceive => \/ Head(wire).id \in received
                      \/ \A i \in received : i < Head(wire).id]_vars

\* A message is answered at most once, and the device's own responses, which
\* the broker sends back to it, are never answered.
AnsweredOnce == Cardinality(replies) <= taken

\* A lost connection is noticed: the state machine leaves READY.
LossNoticed == (state = "READY" /\ ~connected) ~> state = "OFFLINE"

\* What is queued is eventually published or overwritten: once uploads and
\* faults have come to an end txbuf is empty.
AllPublished == <>[](txbuf = <<>>)

\* Every message from the cloud is eventually taken out of rxbuf, and
\* the application thread never gets stuck on one.
CommandsProcessed == []<>(rxbuf = <<>> /\ apc = "recv")
=============================================================================
