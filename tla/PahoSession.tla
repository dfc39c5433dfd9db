----------------------------- MODULE PahoSession -----------------------------
(***************************************************************************)
(* The message flows of the Paho client (MQTTClient.c,                     *)
(* MQTTProtocolClient.c, MQTTPersistence.c; MQTT 3.1.1): publishing with   *)
(* QoS 1 and 2 in a bounded window, receiving with QoS 1 and 2, the queue  *)
(* to the application and its callback, reconnects, and restarts from the  *)
(* persistent store. The broker and the connection are external; the       *)
(* broker is one that follows the standard.                                *)
(*                                                                         *)
(* Two threads: the one of the application, which connects, publishes and  *)
(* waits, and the library's, which handles packets and calls back. Each    *)
(* step is one that holds mqttclient_mutex. A publication is a number, in  *)
(* each direction counted from 1.                                          *)
(*                                                                         *)
(* Partially written packets are the subject of PahoSocket. Not modelled:  *)
(* MQTT 5, QoS 0, and the retry interval, which is 0 (off) in the          *)
(* initializer of the connect options.                                     *)
(***************************************************************************)
EXTENDS Integers, Sequences, FiniteSets

CONSTANTS Modes,        \* of the session: [clean : BOOLEAN, persist : BOOLEAN]
          MAX_MSG_ID,   \* 65535
          MAX_INFLIGHT, \* maxInflightMessages
          FirstIds,     \* values that msgID may have when the model starts
          BrokerDup,    \* does the broker mark a repeated PUBREL as duplicate?
          Loads,        \* bound: numbers of publications <<out, in>>
          MaxFaults,    \* bound: broken connections, failed sends and connects
          MaxRestarts   \* bound: restarts of the program

ASSUME ModeAssumption == Modes \subseteq [clean : BOOLEAN, persist : BOOLEAN]
ASSUME WindowAssumption ==
  MAX_INFLIGHT \in Nat \ {0} /\ MAX_MSG_ID \in Nat /\ MAX_INFLIGHT < MAX_MSG_ID
ASSUME FirstIdAssumption == FirstIds \subseteq 0 .. MAX_MSG_ID
ASSUME DupAssumption == BrokerDup \in BOOLEAN
ASSUME SessionBoundAssumption ==
  Loads \subseteq Nat \X Nat /\ MaxFaults \in Nat /\ MaxRestarts \in Nat

VARIABLES
  mode, load,
  connected, msgID,
  outboundMsgs,   \* [id, m, qos, next]: next is the nextMessageType
  inboundMsgs,    \* [id, m]: QoS 2, waiting for PUBREL
  messageQueue,   \* publications for the application
  calling,        \* the publication messageArrived was called with
  freed,          \* was its storage freed meanwhile?
  releasing,      \* the inbound message that is answered for good, but not yet queued: its
                  \* identifier in inboundMsgs after PUBCOMP, 0 after PUBACK, or NoMsg
  store,          \* the persistent store
  pc,             \* the application: "idle", "publish" or "wait"
  work,           \* what it publishes or waits for
  tokens,         \* delivery tokens: [m, id, conn]
  confirmed,      \* publications waitForCompletion reported as complete, and
                  \* whether still in the connection they were published in
  link,           \* is the connection up?
  toBroker, toClient,
  broker,         \* the broker's session: QoS 2 identifiers and flows to the client
  received,       \* what the broker was given, in order
  delivered,      \* what the application was given, in order
  published,      \* number of publications accepted from the application
  sentQos,        \* the QoS of each
  offered,        \* the QoS of each publication the broker began to deliver
  conn, faults, restarts,
  torn,           \* did a restart interrupt a callback or the queueing of a message?
  dropped         \* publications such a restart kept from being queued

client == <<connected, msgID, outboundMsgs, inboundMsgs, messageQueue, calling, freed, releasing>>
app == <<pc, work, tokens, confirmed>>
net == <<link, toBroker, toClient>>
peer == <<broker, offered>>
hist == <<received, delivered, published, sentQos>>
count == <<conn, faults, restarts, torn, dropped>>
vars == <<mode, load, client, store, app, net, peer, hist, count>>

NoMsg == [id |-> 0, m |-> 0]
NoWork == [m |-> 0, qos |-> 0, id |-> 0, conn |-> 0]
Pkt(t, id, m, qos, dup) == [t |-> t, id |-> id, m |-> m, qos |-> qos, dup |-> dup]
EmptyStore == [sent |-> {}, rel |-> {}, rcvd |-> {}, queue |-> <<>>]
NoSession == [in |-> {}, out |-> <<>>]
Ids(msgs) == {msgs[i].id : i \in DOMAIN msgs}
Elems(s) == {s[i] : i \in DOMAIN s}
\* ListFindItem, then ListRemove: the entry with this identifier, if there is one.
Without(msgs, id) ==
  LET i == CHOOSE i \in DOMAIN msgs : msgs[i].id = id
  IN  IF id \in Ids(msgs) THEN SubSeq(msgs, 1, i - 1) \o SubSeq(msgs, i + 1, Len(msgs))
      ELSE msgs
Fault == faults < MaxFaults /\ faults' = faults + 1

Init ==
  /\ mode \in Modes /\ load \in Loads
  /\ connected = FALSE /\ msgID \in FirstIds
  /\ outboundMsgs = <<>> /\ inboundMsgs = <<>> /\ messageQueue = <<>>
  /\ calling = 0 /\ freed = FALSE /\ releasing = NoMsg
  /\ store = EmptyStore
  /\ pc = "idle" /\ work = NoWork /\ tokens = {} /\ confirmed = {}
  /\ link = FALSE /\ toBroker = <<>> /\ toClient = <<>>
  /\ broker = NoSession
  /\ received = <<>> /\ delivered = <<>> /\ published = 0 /\ sentQos = <<>> /\ offered = <<>>
  /\ conn = 0 /\ faults = 0 /\ restarts = 0 /\ torn = FALSE /\ dropped = {}

-----------------------------------------------------------------------------
(* The persistent store; without persistence all of it does nothing.       *)

Persisted(s) == store' = IF mode.persist THEN s ELSE store

\* The end of an outbound flow removes the publication and its PUBREL.
RemoveSent(s, id) ==
  [s EXCEPT !.sent = {x \in @ : x.id # id}, !.rel = @ \ {id}]
PutSent(s, id, m, qos) ==
  [s EXCEPT !.sent = {x \in @ : x.id # id} \cup {[id |-> id, m |-> m, qos |-> qos]}]

\* insertInOrder: the stored publications by identifier.
InOrder(S) ==
  CHOOSE f \in [1 .. Cardinality(S) -> S] :
    \A i, j \in 1 .. Cardinality(S) : i < j => f[i].id < f[j].id

\* The list starts after its largest gap, if the gap between its last and its first
\* identifier is smaller.
MutWrapMsgID(s) == s
MQTTPersistence_wrapMsgID(s) ==
  LET gap(i) == IF i = 1 THEN MAX_MSG_ID - s[Len(s)].id + s[1].id
                         ELSE s[i].id - s[i - 1].id
      first == CHOOSE i \in DOMAIN s :
                 \A j \in DOMAIN s : gap(j) < gap(i) \/ (gap(j) = gap(i) /\ i <= j)
  IN  IF s = <<>> THEN s ELSE SubSeq(s, first, Len(s)) \o SubSeq(s, 1, first - 1)

MQTTPersistence_restorePackets ==
  /\ outboundMsgs' = MQTTPersistence_wrapMsgID(InOrder(
       {[id |-> x.id, m |-> x.m, qos |-> x.qos,
         next |-> IF x.id \in store.rel THEN "PUBCOMP"
                  ELSE IF x.qos = 2 THEN "PUBREC" ELSE "PUBACK"] : x \in store.sent}))
  /\ inboundMsgs' = InOrder(store.rcvd)

-----------------------------------------------------------------------------
(* Ending a session.                                                       *)

\* cleanSession: also the message a callback is working on is freed.
MQTTClient_cleanSession ==
  /\ inboundMsgs' = <<>> /\ outboundMsgs' = <<>> /\ messageQueue' = <<>>
  /\ msgID' = 0 /\ store' = EmptyStore
  /\ freed' = (freed \/ calling # 0)

\* closeSession; what was on the way is lost.
MQTTClient_closeSession ==
  /\ connected' = FALSE
  /\ link' = FALSE /\ toBroker' = <<>> /\ toClient' = <<>>
  /\ IF mode.clean THEN MQTTClient_cleanSession
     ELSE UNCHANGED <<msgID, outboundMsgs, inboundMsgs, messageQueue, store, freed>>
  /\ UNCHANGED <<calling, releasing>>

-----------------------------------------------------------------------------
(* The application's thread.                                               *)

\* retries, regardless of the time: called on a reconnect.
MutRetries(msgs) ==
  LET open == SelectSeq(msgs, LAMBDA x : x.next # "PUBCOMP")
  IN  [i \in DOMAIN open |-> Pkt("PUBLISH", open[i].id, open[i].m, open[i].qos, TRUE)]
MQTTProtocol_retries(msgs) ==
  [i \in DOMAIN msgs |->
     IF msgs[i].next = "PUBCOMP" THEN Pkt("PUBREL", msgs[i].id, 0, 0, FALSE)
     ELSE Pkt("PUBLISH", msgs[i].id, msgs[i].m, msgs[i].qos, TRUE)]

\* What the broker repeats when it has kept the session (external).
BrokerRepeats(out) ==
  [i \in DOMAIN out |->
     IF out[i].next = "PUBCOMP" THEN Pkt("PUBREL", out[i].id, 0, 0, BrokerDup)
     ELSE Pkt("PUBLISH", out[i].id, out[i].m, out[i].qos, TRUE)]

MQTTClient_connect ==
  /\ pc = "idle" /\ ~connected /\ releasing = NoMsg
  /\ connected' = TRUE /\ link' = TRUE /\ conn' = conn + 1
  /\ IF mode.clean
     THEN /\ MQTTClient_cleanSession
          /\ broker' = NoSession /\ toBroker' = <<>> /\ toClient' = <<>>
     ELSE /\ toBroker' = MQTTProtocol_retries(outboundMsgs)
          /\ toClient' = BrokerRepeats(broker.out)
          /\ UNCHANGED <<msgID, outboundMsgs, inboundMsgs, messageQueue, store, freed, broker>>
  /\ UNCHANGED <<mode, load, calling, releasing, app, offered, hist, faults, restarts, torn, dropped>>

\* A failed connect ends in disconnect1.
ConnectFails ==
  /\ pc = "idle" /\ ~connected /\ releasing = NoMsg /\ Fault
  /\ MQTTClient_closeSession
  /\ UNCHANGED <<mode, load, app, peer, hist, conn, restarts, torn, dropped>>

MQTTClient_disconnect ==
  /\ pc = "idle" /\ connected /\ releasing = NoMsg /\ Fault
  /\ MQTTClient_closeSession
  /\ UNCHANGED <<mode, load, app, peer, hist, conn, restarts, torn, dropped>>

\* publish: an error unless connected; then it waits for a place in the window.
PublishBegin ==
  /\ pc = "idle" /\ connected /\ published < load[1]
  /\ \E qos \in {1, 2} : work' = [NoWork EXCEPT !.m = published + 1, !.qos = qos]
  /\ pc' = "publish"
  /\ UNCHANGED <<mode, load, client, store, tokens, confirmed, net, peer, hist, count>>

\* assignMsgId: the next identifier that is not in use; the search ends when it is
\* back at the last one.
MQTTProtocol_assignMsgId ==
  LET free == ((1 .. MAX_MSG_ID) \ Ids(outboundMsgs)) \ {msgID}
      dist(i) == (i - msgID - 1) % MAX_MSG_ID
  IN  IF free = {} THEN 0
      ELSE CHOOSE i \in free : \A j \in free : dist(i) <= dist(j)

\* startPublish: listed, persisted, and sent. When the send fails the session is
\* closed, and publish reports success all the same.
Publish ==
  /\ pc = "publish" /\ connected /\ releasing = NoMsg
  /\ Len(outboundMsgs) < MAX_INFLIGHT
  /\ LET id == MQTTProtocol_assignMsgId
         msg == [id |-> id, m |-> work.m, qos |-> work.qos,
                 next |-> IF work.qos = 2 THEN "PUBREC" ELSE "PUBACK"]
     IN  /\ id # 0
         /\ tokens' = tokens \cup {[m |-> work.m, id |-> id, conn |-> conn]}
         /\ work' = NoWork
         /\ \/ /\ toBroker' = IF link THEN Append(toBroker, Pkt("PUBLISH", id, work.m, work.qos, FALSE))
                                      ELSE toBroker
               /\ msgID' = id /\ outboundMsgs' = Append(outboundMsgs, msg)
               /\ Persisted(PutSent(store, id, work.m, work.qos))
               /\ UNCHANGED <<connected, inboundMsgs, messageQueue, calling, freed, releasing,
                              link, toClient, faults>>
            \/ /\ IF link THEN Fault ELSE UNCHANGED faults
               /\ connected' = FALSE
               /\ link' = FALSE /\ toBroker' = <<>> /\ toClient' = <<>>
               /\ IF mode.clean THEN MQTTClient_cleanSession
                  ELSE /\ msgID' = id /\ outboundMsgs' = Append(outboundMsgs, msg)
                       /\ Persisted(PutSent(store, id, work.m, work.qos))
                       /\ UNCHANGED <<inboundMsgs, messageQueue, freed>>
               /\ UNCHANGED <<calling, releasing>>
  /\ published' = work.m /\ sentQos' = Append(sentQos, work.qos)
  /\ pc' = "idle"
  /\ UNCHANGED <<mode, load, confirmed, peer, received, delivered, conn, restarts, torn, dropped>>

\* Disconnected while it waited.
PublishFails ==
  /\ pc = "publish" /\ ~connected
  /\ pc' = "idle" /\ work' = NoWork
  /\ UNCHANGED <<mode, load, client, store, tokens, confirmed, net, peer, hist, count>>

WaitBegin ==
  /\ pc = "idle" /\ connected
  /\ \E t \in tokens :
       /\ \A c \in confirmed : c.m # t.m
       /\ work' = [m |-> t.m, qos |-> 0, id |-> t.id, conn |-> t.conn]
  /\ pc' = "wait"
  /\ UNCHANGED <<mode, load, client, store, tokens, confirmed, net, peer, hist, count>>

\* waitForCompletion: complete when the token is in flight no more.
MutWaitSucceeds == work.id \notin Ids(outboundMsgs)
WaitSucceeds == connected /\ work.id \notin Ids(outboundMsgs)

WaitEnds ==
  /\ pc = "wait" /\ releasing = NoMsg
  /\ \/ WaitSucceeds /\ confirmed' = confirmed \cup {[m |-> work.m, current |-> work.conn = conn]} /\ UNCHANGED faults
     \/ ~connected /\ ~WaitSucceeds /\ UNCHANGED <<confirmed, faults>>
     \/ connected /\ ~WaitSucceeds /\ Fault /\ UNCHANGED confirmed     \* time-out
  /\ pc' = "idle" /\ work' = NoWork
  /\ UNCHANGED <<mode, load, client, store, tokens, net, peer, hist, conn, restarts, torn, dropped>>

-----------------------------------------------------------------------------
(* The library's thread: MQTTClient_cycle takes one packet.                *)

Take(t) ==
  /\ connected /\ calling = 0 /\ releasing = NoMsg
  /\ toClient # <<>> /\ Head(toClient).t = t
  /\ toClient' = Tail(toClient)
  /\ UNCHANGED <<mode, load, connected, msgID, calling, freed, app, link, peer, published,
                 sentQos, received, delivered, count>>
Reply(t, id) == toBroker' = Append(toBroker, Pkt(t, id, 0, 0, FALSE))

\* PUBACK is sent before the message is queued. A QoS 2 publication with the
\* identifier of a listed one replaces it.
HandlePublish ==
  LET p == Head(toClient) IN
  /\ Take("PUBLISH")
  /\ \/ /\ p.qos = 1 /\ Reply("PUBACK", p.id)
        /\ releasing' = [id |-> 0, m |-> p.m]
        /\ UNCHANGED <<inboundMsgs, store>>
     \/ /\ p.qos = 2 /\ Reply("PUBREC", p.id) /\ releasing' = NoMsg
        /\ inboundMsgs' = IF p.id \in Ids(inboundMsgs)
                          THEN [i \in DOMAIN inboundMsgs |->
                                  IF inboundMsgs[i].id = p.id THEN [id |-> p.id, m |-> p.m]
                                  ELSE inboundMsgs[i]]
                          ELSE Append(inboundMsgs, [id |-> p.id, m |-> p.m])
        /\ Persisted([store EXCEPT !.rcvd = {x \in @ : x.id # p.id}
                                            \cup {[id |-> p.id, m |-> p.m]}])
  /\ UNCHANGED <<outboundMsgs, messageQueue>>

\* Is p about a listed message of this QoS that waits for it?
Expected(p, qos) ==
  \E i \in DOMAIN outboundMsgs :
    outboundMsgs[i].id = p.id /\ outboundMsgs[i].qos = qos /\ outboundMsgs[i].next = p.t

FlowEnds(p, qos) ==
  /\ IF Expected(p, qos)
     THEN outboundMsgs' = Without(outboundMsgs, p.id) /\ Persisted(RemoveSent(store, p.id))
     ELSE UNCHANGED <<outboundMsgs, store>>
  /\ UNCHANGED <<inboundMsgs, messageQueue, releasing, toBroker>>

HandlePuback == Take("PUBACK") /\ FlowEnds(Head(toClient), 1)
HandlePubcomp == Take("PUBCOMP") /\ FlowEnds(Head(toClient), 2)

MutHandlePubrec ==
  LET p == Head(toClient) IN
  /\ Take("PUBREC")
  /\ IF Expected(p, 2)
     THEN /\ Reply("PUBREL", p.id)
          /\ Persisted([store EXCEPT !.rel = @ \cup {p.id}])
     ELSE UNCHANGED <<toBroker, store>>
  /\ UNCHANGED <<outboundMsgs, inboundMsgs, messageQueue, releasing>>
HandlePubrec ==
  LET p == Head(toClient) IN
  /\ Take("PUBREC")
  /\ IF Expected(p, 2)
     THEN /\ Reply("PUBREL", p.id)
          /\ Persisted([store EXCEPT !.rel = @ \cup {p.id}])
          /\ outboundMsgs' = [i \in DOMAIN outboundMsgs |->
               IF outboundMsgs[i].id = p.id THEN [outboundMsgs[i] EXCEPT !.next = "PUBCOMP"]
               ELSE outboundMsgs[i]]
     ELSE UNCHANGED <<toBroker, store, outboundMsgs>>
  /\ UNCHANGED <<inboundMsgs, messageQueue, releasing>>

MutHandlePubrel ==
  LET p == Head(toClient) IN
  /\ Take("PUBREL")
  /\ \/ p.id \notin Ids(inboundMsgs) /\ releasing' = NoMsg /\ UNCHANGED toBroker
     \/ /\ p.id \in Ids(inboundMsgs) /\ Reply("PUBCOMP", p.id)
        /\ releasing' = CHOOSE x \in Elems(inboundMsgs) : x.id = p.id
  /\ UNCHANGED <<outboundMsgs, inboundMsgs, messageQueue, store>>
\* PUBCOMP is sent before the message is queued; an unknown identifier is answered
\* only when the packet says it is a duplicate.
HandlePubrel ==
  LET p == Head(toClient) IN
  /\ Take("PUBREL")
  /\ \/ /\ p.id \notin Ids(inboundMsgs) /\ releasing' = NoMsg
        /\ IF p.dup THEN Reply("PUBCOMP", p.id) ELSE UNCHANGED toBroker
     \/ /\ p.id \in Ids(inboundMsgs) /\ Reply("PUBCOMP", p.id)
        /\ releasing' = CHOOSE x \in Elems(inboundMsgs) : x.id = p.id
  /\ UNCHANGED <<outboundMsgs, inboundMsgs, messageQueue, store>>

\* Protocol_processPublication; a message with an identifier leaves inboundMsgs.
Release ==
  /\ releasing # NoMsg /\ releasing' = NoMsg
  /\ messageQueue' = Append(messageQueue, releasing.m)
  /\ inboundMsgs' = Without(inboundMsgs, releasing.id)
  /\ Persisted([store EXCEPT !.queue = Append(@, releasing.m),
                             !.rcvd = {x \in @ : x.id # releasing.id}])
  /\ UNCHANGED <<mode, load, connected, msgID, outboundMsgs, calling, freed, app, net, peer,
                 hist, count>>

\* A read or a ping fails: the library closes the session itself.
ConnectionLost ==
  /\ connected /\ ~link /\ calling = 0 /\ releasing = NoMsg
  /\ MQTTClient_closeSession
  /\ UNCHANGED <<mode, load, app, peer, hist, count>>

\* MQTTClient_run calls messageArrived without the lock, and removes the entry
\* afterwards unless the application declined it.
CallArrived ==
  /\ calling = 0 /\ releasing = NoMsg /\ messageQueue # <<>>
  /\ calling' = Head(messageQueue) /\ freed' = FALSE
  /\ UNCHANGED <<mode, load, connected, msgID, outboundMsgs, inboundMsgs, messageQueue,
                 releasing, store, app, net, peer, hist, count>>
ArrivedReturns ==
  /\ calling # 0
  /\ \/ /\ delivered' = Append(delivered, calling)
        /\ IF freed THEN UNCHANGED <<messageQueue, store>>
           ELSE messageQueue' = Tail(messageQueue)
                /\ Persisted([store EXCEPT !.queue = Tail(@)])
        /\ UNCHANGED faults
     \/ Fault /\ UNCHANGED <<delivered, messageQueue, store>>
  /\ calling' = 0
  /\ UNCHANGED <<mode, load, connected, msgID, outboundMsgs, inboundMsgs, freed, releasing,
                 app, net, peer, received, published, sentQos, conn, restarts, torn, dropped>>

\* The program ends at any moment and starts again: create, with what is stored.
Restart ==
  /\ restarts < MaxRestarts /\ restarts' = restarts + 1
  /\ connected' = FALSE /\ msgID' = 0
  /\ MQTTPersistence_restorePackets
  /\ calling' = 0 /\ freed' = FALSE /\ releasing' = NoMsg
  /\ torn' = (torn \/ calling # 0 \/ releasing # NoMsg)
  /\ \/ calling # 0 /\ delivered' = Append(delivered, calling)
     \/ UNCHANGED delivered
  /\ \/ /\ releasing # NoMsg /\ mode.persist /\ UNCHANGED dropped
        /\ store' = [store EXCEPT !.queue = Append(@, releasing.m)]
     \/ UNCHANGED store /\ dropped' = dropped \cup ({releasing.m} \ {0})
  /\ messageQueue' = store'.queue
  /\ pc' = "idle" /\ work' = NoWork /\ tokens' = {} /\ UNCHANGED confirmed
  /\ link' = FALSE /\ toBroker' = <<>> /\ toClient' = <<>>
  /\ UNCHANGED <<mode, load, peer, received, published, sentQos, conn, faults>>

-----------------------------------------------------------------------------
(* The connection and a broker that follows the standard: external.        *)

BreakConnection ==
  /\ link /\ Fault
  /\ link' = FALSE /\ toBroker' = <<>> /\ toClient' = <<>>
  /\ UNCHANGED <<mode, load, client, store, app, peer, hist, conn, restarts, torn, dropped>>

\* A publication to the client takes the lowest free identifier.
BrokerOffers ==
  /\ link /\ Len(offered) < load[2]
  /\ LET id == CHOOSE i \in 1 .. Len(offered) + 1 :
                 /\ i \notin Ids(broker.out)
                 /\ \A j \in 1 .. i - 1 : j \in Ids(broker.out)
         m == Len(offered) + 1
     IN  \E qos \in {1, 2} :
           /\ offered' = Append(offered, qos)
           /\ broker' = [broker EXCEPT !.out = Append(@,
                          [id |-> id, m |-> m, qos |-> qos,
                           next |-> IF qos = 2 THEN "PUBREC" ELSE "PUBACK"])]
           /\ toClient' = Append(toClient, Pkt("PUBLISH", id, m, qos, FALSE))
  /\ UNCHANGED <<mode, load, client, store, app, link, toBroker, hist, count>>

BrokerAnswer(p) ==
  CASE p.t = "PUBLISH" -> <<Pkt(IF p.qos = 1 THEN "PUBACK" ELSE "PUBREC", p.id, 0, 0, FALSE)>>
    [] p.t = "PUBREL" -> <<Pkt("PUBCOMP", p.id, 0, 0, FALSE)>>
    [] p.t = "PUBREC" -> <<Pkt("PUBREL", p.id, 0, 0, FALSE)>>
    [] OTHER -> <<>>
BrokerAfter(p) ==
  CASE p.t = "PUBLISH" -> [broker EXCEPT !.in = IF p.qos = 2 THEN @ \cup {p.id} ELSE @]
    [] p.t = "PUBREL" -> [broker EXCEPT !.in = @ \ {p.id}]
    [] p.t = "PUBREC" -> [broker EXCEPT !.out = [i \in DOMAIN @ |->
                            IF @[i].id = p.id THEN [@[i] EXCEPT !.next = "PUBCOMP"] ELSE @[i]]]
    [] OTHER -> [broker EXCEPT !.out = Without(@, p.id)]

BrokerReceives ==
  /\ link /\ toBroker # <<>>
  /\ LET p == Head(toBroker) IN
       /\ toBroker' = Tail(toBroker)
       /\ toClient' = toClient \o BrokerAnswer(p)
       /\ broker' = BrokerAfter(p)
       /\ received' = IF p.t = "PUBLISH" /\ ~(p.qos = 2 /\ p.id \in broker.in)
                      THEN Append(received, p.m) ELSE received
  /\ UNCHANGED <<mode, load, client, store, app, link, offered, delivered, published, sentQos,
                 count>>

-----------------------------------------------------------------------------
Application ==
  MQTTClient_connect \/ PublishBegin \/ Publish \/ PublishFails \/ WaitBegin \/ WaitEnds

MQTTClient_run ==
  \/ HandlePublish \/ HandlePuback \/ HandlePubrec \/ HandlePubrel \/ Release
  \/ HandlePubcomp \/ ConnectionLost \/ CallArrived \/ ArrivedReturns

Broker == BrokerOffers \/ BrokerReceives

Next ==
  \/ Application \/ ConnectFails \/ MQTTClient_disconnect
  \/ MQTTClient_run \/ Restart \/ Broker \/ BreakConnection

Spec == Init /\ [][Next]_vars

\* Both threads run, the application reconnects, and the broker reads what it is sent.
FairSpec ==
  /\ Spec
  /\ WF_vars(MQTTClient_run) /\ WF_vars(BrokerReceives)
  /\ WF_vars(MQTTClient_connect) /\ WF_vars(Publish \/ PublishFails) /\ WF_vars(WaitEnds)

-----------------------------------------------------------------------------
Count(m, s) == Cardinality({i \in DOMAIN s : s[i] = m})

\* A QoS 2 publication of either side reaches the other at most once, whatever breaks
\* between its four packets and wherever the program is restarted: a message that was
\* given a PUBREC is never sent again (handlePubrecs, retries, restorePackets), and one
\* that was sent again is given to the application once (handlePublishes,
\* handlePubrels), unless the program ends in the middle of handlePubrels or of a
\* callback.
NeverTwice ==
  /\ \A m \in 1 .. published : sentQos[m] = 2 => Count(m, received) <= 1
  /\ \A m \in DOMAIN offered :
       offered[m] = 2 /\ ~torn => Count(m, delivered) + Count(m, messageQueue) <= 1

\* Publications first reach the broker in the order of their publish calls, also
\* those sent again after a reconnect or a restart (retries, insertInOrder and
\* wrapMsgID, where identifiers may have wrapped around). A second restart may
\* break the order, because msgID is not restored.
FirstReceiptsInOrder ==
  restarts <= 1 =>
    \A i \in DOMAIN received :
      \/ \E j \in 1 .. i - 1 : received[j] = received[i]
      \/ \A j \in 1 .. i - 1 : received[j] < received[i]

\* waitForCompletion reports success only for what the broker has received. With a
\* clean session that is said of tokens of the present connection only: one from
\* before a reconnect is reported as complete although it is lost.
CompletionTrue ==
  \A c \in confirmed : c.m \in Elems(received) \/ (mode.clean /\ ~c.current)

Kept == ~mode.clean /\ mode.persist

\* In a session that is kept, with persistence, the accepted publications reach the broker and their
\* flows end, through broken connections and restarts (retries, restorePackets).
AcceptedArrives ==
  Kept /\ published > 0 ~>
    outboundMsgs = <<>> /\ \A m \in 1 .. published : m \in Elems(received)

\* In a session that is kept, with persistence, everything the broker sends reaches
\* the application and the broker's flows end, if it marks a repeated PUBREL; one that
\* does not, as MQTT 3.1.1 has it, is left without an answer (handlePubrels). What can
\* be lost is only a message that handlePublishes or handlePubrels had answered, and
\* Protocol_processPublication not yet stored, when the program ended.
OfferedArrives ==
  Kept /\ offered # <<>> ~>
    broker.out = <<>> /\ DOMAIN offered \subseteq Elems(delivered) \cup dropped
=============================================================================
