----------------------------- MODULE Mqtt_proof -----------------------------
(***************************************************************************)
(* Proofs about the cloud link for every buffer size, every number of      *)
(* uploads and faults, and every sequence of messages to the device: the   *)
(* ownership of the Paho client and the bound on lost elements; and about  *)
(* the ring buffer its queues are.                                         *)
(***************************************************************************)
EXTENDS Mqtt, RingBuffer, FiniteSetTheorems, SequenceTheorems, TLAPS
-----------------------------------------------------------------------------
(* Client ownership.                                                       *)

\* Where the thread can be in each state of the state machine, and that no
\* client exists when mqtt_connect is about to create one.
Phase == /\ pc \in {"start", "loop", "connect", "subscribe", "finish", "pub", "wait", "dequeue"}
         /\ pc \in {"start", "connect"} => ~cli
         /\ pc \in {"connect", "subscribe", "finish"} => state = "OFFLINE"
         /\ pc \in {"pub", "wait", "dequeue"} => state = "READY"
         /\ cli \in BOOLEAN /\ connected \in BOOLEAN

OwnInv == Phase /\ ClientOwnership

\* The three ways to split a step of the system.
LEMMA NextSplit ==
  ASSUME [Next]_vars
  PROVE  \/ ThreadStart \/ SmEntry \/ OfflineCmdReady \/ OfflineCount
         \/ Connect \/ Subscribe \/ ConnectFailed \/ ConnectDone
         \/ ReadyCmdOffline \/ ReadyConnLost \/ ReadyPeek
         \/ PubFailed \/ Pub \/ WaitFailed \/ WaitDone \/ DequeueTx
         \/ CloudRecv \/ CloudRespond \/ cloud_update
         \/ mqtt_connlost \/ ConnectionBreaks
         \/ BrokerReceive \/ BrokerReceiveLate \/ CloudSends
         \/ \E c \in SmCmds : mqtt_send_sm_cmd(c)
         \/ \E r \in MsgArrvdReturns : mqtt_msgarrvd(r)
         \/ UNCHANGED vars
  BY DEF Next, MqttThread, AppThread, MsgArrived

\* Ownership only depends on these variables.
LEMMA OwnFrame ==
  ASSUME OwnInv, UNCHANGED <<pc, state, client>>
  PROVE  OwnInv'
  BY DEF OwnInv, Phase, ClientOwnership, client

\* Destroying the client leaves none.
LEMMA DestroyLeavesNone ==
  ASSUME OwnInv, cli, DestroyClient
  PROVE  cli' = FALSE /\ clients' = 0 /\ connected' = FALSE
<1>1. cli' = FALSE /\ clients' = clients - 1 /\ connected' = FALSE
  BY DEF DestroyClient, MQTTClient_destroy
<1>2. clients = 1
  BY DEF OwnInv, ClientOwnership
<1> QED BY <1>1, <1>2

\* Ownership of the Paho client is preserved by every step.
LEMMA OwnStep ==
  ASSUME OwnInv, [Next]_vars
  PROVE  OwnInv'
<1> USE DEF OwnInv, Phase, ClientOwnership, client
<1>1. CASE ThreadStart
  BY <1>1 DEF ThreadStart, sm_set_state
<1>2. CASE SmEntry \/ CloudRecv \/ CloudRespond \/ cloud_update \/ mqtt_connlost
           \/ BrokerReceive \/ BrokerReceiveLate \/ CloudSends \/ UNCHANGED vars
  <2>1. UNCHANGED <<pc, state, client>>
    BY <1>2 DEF SmEntry, CloudRecv, CloudRespond, cloud_update, mqtt_connlost, BrokerReceive,
                BrokerReceiveLate, CloudSends, vars, thread, smVars
  <2> QED BY <2>1, OwnFrame
<1>3. ASSUME NEW c \in SmCmds, mqtt_send_sm_cmd(c)
      PROVE  OwnInv'
  BY <1>3, OwnFrame DEF mqtt_send_sm_cmd, smVars
<1>4. ASSUME NEW r \in MsgArrvdReturns, mqtt_msgarrvd(r)
      PROVE  OwnInv'
  BY <1>4, OwnFrame DEF mqtt_msgarrvd, thread
<1>5. CASE OfflineCmdReady
  BY <1>5 DEF OfflineCmdReady, smVars
<1>6. CASE OfflineCount
  BY <1>6 DEF OfflineCount
<1>7. CASE Connect
  <2>1. clients = 0 /\ clients' = clients + 1 /\ cli' = TRUE /\ connected' \in BOOLEAN
        /\ state' = state /\ pc' = "subscribe" /\ pc = "connect"
    BY <1>7 DEF Connect, smVars
  <2>2. clients' = 1
    BY <2>1
  <2> QED BY <2>1, <2>2
<1>8. CASE Subscribe
  BY <1>8 DEF Subscribe, smVars, BreakConnection
<1>9. CASE ConnectFailed
  <2>1. pc = "finish" /\ state' = state /\ pc' = "loop" /\ DestroyClient
    BY <1>9 DEF ConnectFailed
  <2>2. cli' = FALSE /\ clients' = 0 /\ connected' = FALSE
    BY <2>1, DestroyLeavesNone
  <2> QED BY <2>1, <2>2
<1>10. CASE ConnectDone
  BY <1>10 DEF ConnectDone, sm_set_state
<1>11. CASE ReadyCmdOffline
  <2>1. pc = "loop" /\ state = "READY" /\ state' = "OFFLINE" /\ pc' = "loop" /\ DestroyClient
    BY <1>11 DEF ReadyCmdOffline, Ready, sm_set_state
  <2>2. cli' = FALSE /\ clients' = 0 /\ connected' = FALSE
    BY <2>1, DestroyLeavesNone
  <2> QED BY <2>1, <2>2
<1>12. CASE ReadyConnLost
  <2>1. pc = "loop" /\ state = "READY" /\ state' = "OFFLINE" /\ pc' = "loop" /\ DestroyClient
    BY <1>12 DEF ReadyConnLost, Ready, sm_set_state
  <2>2. cli' = FALSE /\ clients' = 0 /\ connected' = FALSE
    BY <2>1, DestroyLeavesNone
  <2> QED BY <2>1, <2>2
<1>13. CASE ReadyPeek
  BY <1>13 DEF ReadyPeek, Ready, smVars
<1>14. CASE PubFailed \/ Pub
  BY <1>14 DEF PubFailed, Pub, smVars
<1>15. CASE WaitFailed \/ WaitDone
  BY <1>15 DEF WaitFailed, WaitDone, smVars
<1>16. CASE DequeueTx
  BY <1>16 DEF DequeueTx, smVars
<1>17. CASE ConnectionBreaks
  BY <1>17 DEF ConnectionBreaks, BreakConnection, thread
<1> HIDE DEF OwnInv, Phase, ClientOwnership, client
<1> QED BY NextSplit, <1>1, <1>2, <1>3, <1>4, <1>5, <1>6, <1>7, <1>8, <1>9, <1>10, <1>11, <1>12,
           <1>13, <1>14, <1>15, <1>16, <1>17

\* On every path through connect, failure, loss and command the program owns
\* exactly the one client that cli points to: it leaks none and uses none
\* after MQTTClient_destroy (mqtt_sm.c:46-60, 122-136).
THEOREM ClientOwned == Spec => []ClientOwnership
<1>1. Init => OwnInv
  BY DEF Init, OwnInv, Phase, ClientOwnership
<1>2. OwnInv /\ [Next]_vars => OwnInv'
  BY OwnStep
<1>3. OwnInv => ClientOwnership
  BY DEF OwnInv
<1> QED BY <1>1, <1>2, <1>3, PTL DEF Spec
-----------------------------------------------------------------------------
(* The bound on lost elements.                                             *)

\* The number of elements among the first g that are not in r.
Miss(g, r) == Cardinality((1..g) \ r)

\* Miss counts a finite set.
LEMMA MissType ==
  ASSUME NEW g \in Nat, NEW r
  PROVE  Miss(g, r) \in Nat /\ IsFiniteSet((1..g) \ r)
<1>1. IsFiniteSet(1..g)
  BY FS_Interval
<1>2. IsFiniteSet((1..g) \ r)
  BY <1>1, FS_Subset
<1> QED BY <1>2, FS_CardinalityType DEF Miss

\* What is received is missed no more.
LEMMA MissReceive ==
  ASSUME NEW g \in Nat, NEW r, NEW s, r \subseteq s
  PROVE  Miss(g, s) <= Miss(g, r)
<1>1. (1..g) \ s \in SUBSET ((1..g) \ r)
  OBVIOUS
<1> QED BY <1>1, MissType, FS_Subset DEF Miss

\* One element more is missed at most once, and not at all if it is in r.
LEMMA MissOneMore ==
  ASSUME NEW g \in Nat, NEW r
  PROVE  /\ Miss(g + 1, r) <= Miss(g, r) + 1
         /\ g + 1 \in r => Miss(g + 1, r) = Miss(g, r)
<1> DEFINE S == (1..g) \ r
<1>1. IsFiniteSet(S) /\ Cardinality(S) \in Nat
  BY MissType DEF Miss
<1>2. 1..(g + 1) = (1..g) \cup {g + 1}
  OBVIOUS
<1>3. CASE g + 1 \in r
  <2>1. (1..(g + 1)) \ r = S
    BY <1>2, <1>3
  <2> QED BY <1>1, <2>1 DEF Miss
<1>4. CASE g + 1 \notin r
  <2>1. (1..(g + 1)) \ r = S \cup {g + 1}
    BY <1>2, <1>4
  <2> HIDE DEF S
  <2>2. Cardinality(S \cup {g + 1}) <= Cardinality(S) + 1
    <3>1. Cardinality(S \cup {g + 1}) =
            IF g + 1 \in S THEN Cardinality(S) ELSE Cardinality(S) + 1
      BY <1>1, FS_AddElement
    <3> QED BY <1>1, <3>1
  <2> QED BY <1>4, <2>1, <2>2 DEF Miss, S
<1> QED BY <1>3, <1>4

\* Forgetting n elements misses at most n more.
LEMMA MissMany ==
  ASSUME NEW g \in Nat, NEW n \in Nat, NEW r
  PROVE  Miss(g + n, r) <= Miss(g, r) + n
<1> DEFINE S == (1..g) \ r
           T == (g + 1)..(g + n)
<1>1. IsFiniteSet(S) /\ Cardinality(S) \in Nat
  BY MissType DEF Miss
<1>2. IsFiniteSet(T) /\ Cardinality(T) = n
  <2>1. g + 1 \in Int /\ g + n \in Int
    OBVIOUS
  <2> QED BY <2>1, FS_Interval
<1>3. (1..(g + n)) \ r \in SUBSET (S \cup T)
  OBVIOUS
<1> HIDE DEF S, T
<1>4. IsFiniteSet(S \cup T) /\ Cardinality(S \cup T) <= Cardinality(S) + Cardinality(T)
  <2>1. /\ IsFiniteSet(S \cup T)
        /\ Cardinality(S \cup T) = Cardinality(S) + Cardinality(T) - Cardinality(S \cap T)
    BY <1>1, <1>2, FS_Union
  <2>2. IsFiniteSet(S \cap T)
    BY <1>1, FS_Intersection
  <2>3. Cardinality(S \cap T) \in Nat
    BY <2>2, FS_CardinalityType
  <2> QED BY <1>1, <1>2, <2>1, <2>3
<1>5. IsFiniteSet((1..(g + n)) \ r) /\ Cardinality((1..(g + n)) \ r) <= Cardinality(S \cup T)
  BY <1>3, <1>4, FS_Subset
<1>6. Cardinality((1..(g + n)) \ r) \in Nat /\ Cardinality(S \cup T) \in Nat
  BY <1>4, <1>5, FS_CardinalityType
<1> QED BY <1>1, <1>2, <1>4, <1>5, <1>6 DEF Miss, S


\* The elements of txbuf carry consecutive numbers up to the last one queued.
Base == queued - Len(txbuf)

Numbered == /\ queued \in Nat
            /\ txbuf \in Seq(Nat)
            /\ Len(txbuf) <= queued
            /\ \A i \in 1..Len(txbuf) : txbuf[i] = Base + i

\* The thread is between its peek and the end of the publish.
InPub == pc \in {"pub", "wait", "dequeue"}

\* What the thread publishes is a queued element and was not behind the oldest
\* one when it was peeked.
Window == /\ cur \in Nat
          /\ InPub => cur \in 1..(Base + 1)
          /\ InPub => cur <= queued

\* A token is acknowledged only after the broker received its element.
Tokens == /\ acked \in BOOLEAN
          /\ wire \in Seq([id : Nat, live : BOOLEAN])
          /\ \A i \in 1..Len(wire) : wire[i].id \in 1..queued
          /\ stale \subseteq 1..queued
          /\ received \subseteq 1..queued
          /\ pc = "wait" => \A i \in 1..Len(wire) : wire[i].live => wire[i].id = cur
          /\ pc = "wait" /\ acked => cur \in received
          /\ pc = "dequeue" => cur \in received

\* When the peeked element was overwritten while it was being published, that
\* overwriting has not cost an element yet: the dequeue to come will.
WindowLoss == InPub /\ cur <= Base =>
                Cardinality(Gone \ (received \cup {cur})) + 1 <= overwritten

LossInv == /\ Numbered /\ Window /\ Tokens
           /\ overwritten \in Nat
           /\ LossBounded /\ WindowLoss

\* The invariant in terms of Miss.
LEMMA LossAsMiss ==
  /\ LossBounded <=> Miss(Base, received) <= overwritten
  /\ WindowLoss <=> (InPub /\ cur <= Base => Miss(Base, received \cup {cur}) + 1 <= overwritten)
  BY DEF LossBounded, WindowLoss, Gone, Base, Miss

\* The same in the next state.
LEMMA LossAsMissNext ==
  /\ LossBounded' <=> Miss(Base', received') <= overwritten'
  /\ WindowLoss' <=> (InPub' /\ cur' <= Base' =>
                        Miss(Base', received' \cup {cur'}) + 1 <= overwritten')
  BY DEF LossBounded, WindowLoss, Gone, Base, Miss

\* Base is a number.
LEMMA BaseType ==
  ASSUME Numbered
  PROVE  Base \in Nat /\ Len(txbuf) \in Nat /\ queued = Base + Len(txbuf)
<1>1. Len(txbuf) \in Nat /\ Len(txbuf) <= queued /\ queued \in Nat
  BY LenProperties DEF Numbered
<1> QED BY <1>1 DEF Base

\* The same in the next state.
LEMMA BaseTypeNext ==
  ASSUME Numbered'
  PROVE  Base' \in Nat /\ Len(txbuf') \in Nat /\ queued' = Base' + Len(txbuf')
<1>1. Len(txbuf') \in Nat /\ Len(txbuf') <= queued' /\ queued' \in Nat
  BY LenProperties DEF Numbered
<1> QED BY <1>1 DEF Base

\* Steps that leave the queue, the broker's receipts and the count alone.
LEMMA Quiet ==
  ASSUME LossInv, UNCHANGED <<queued, txbuf, received, overwritten>>
  PROVE  /\ Numbered' /\ Base' = Base /\ overwritten' \in Nat /\ LossBounded'
         /\ (InPub' => (InPub /\ cur' = cur) \/ cur' = Base + 1) => WindowLoss'
<1>1. Numbered' /\ Base' = Base /\ overwritten' \in Nat
  BY DEF LossInv, Numbered, Base
<1>2. LossBounded'
  BY <1>1, LossAsMiss, LossAsMissNext DEF LossInv
<1>3. ASSUME InPub' => (InPub /\ cur' = cur) \/ cur' = Base + 1
      PROVE  WindowLoss'
  <2>1. CASE InPub' /\ cur' = Base + 1
    <3>1. ~(cur' <= Base')
      BY <1>1, <2>1, BaseType DEF LossInv
    <3> QED BY <3>1, LossAsMissNext
  <2>2. CASE InPub /\ cur' = cur
    BY <1>1, <2>2, LossAsMiss, LossAsMissNext DEF LossInv
  <2> QED BY <1>3, <2>1, <2>2, LossAsMissNext
<1> QED BY <1>1, <1>2, <1>3

\* Steps that change none of the variables of the invariant, or only leave
\* the publish.
LEMMA LossFrame ==
  ASSUME LossInv, UNCHANGED <<queued, txbuf, received, overwritten, cur, acked, wire, stale>>,
         pc' = pc \/ pc' \notin {"pub", "wait", "dequeue"}
  PROVE  LossInv'
<1>1. Numbered' /\ Base' = Base /\ overwritten' \in Nat /\ LossBounded' /\ WindowLoss'
  BY Quiet DEF InPub
<1>2. Window'
  BY <1>1 DEF LossInv, Window, InPub
<1>3. Tokens'
  BY DEF LossInv, Tokens
<1> QED BY <1>1, <1>2, <1>3 DEF LossInv

\* Steps that end the client or its connection.
LEMMA LossBreak ==
  ASSUME LossInv, UNCHANGED <<queued, txbuf, received, overwritten, cur>>,
         \E n \in 0..Len(wire) : stale' = stale \cup {wire[i].id : i \in 1..n},
         wire' = <<>>, acked' = FALSE,
         pc' = pc \/ pc' \notin {"pub", "wait", "dequeue"}
  PROVE  LossInv'
<1>1. Numbered' /\ Base' = Base /\ overwritten' \in Nat /\ LossBounded' /\ WindowLoss'
  BY Quiet DEF InPub
<1>2. Window'
  BY <1>1 DEF LossInv, Window, InPub
<1>3. Tokens'
  <2>1. stale' \subseteq 1..queued
    <3>1. PICK n \in 0..Len(wire) : stale' = stale \cup {wire[i].id : i \in 1..n}
      OBVIOUS
    <3>2. Len(wire) \in Nat
      BY LenProperties DEF LossInv, Tokens
    <3>3. \A i \in 1..n : i \in 1..Len(wire)
      BY <3>2
    <3> QED BY <3>1, <3>3 DEF LossInv, Tokens
  <2>2. wire' \in Seq([id : Nat, live : BOOLEAN]) /\ acked' \in BOOLEAN
    BY EmptySeq
  <2>3. \A i \in 1..Len(wire') : FALSE
    OBVIOUS
  <2>4. pc' = "dequeue" => cur' \in received'
    BY DEF LossInv, Tokens
  <2>5. received' \subseteq 1..queued' /\ stale' \subseteq 1..queued'
    BY <2>1 DEF LossInv, Tokens
  <2> QED BY <2>2, <2>3, <2>4, <2>5 DEF Tokens
<1> QED BY <1>1, <1>2, <1>3 DEF LossInv

\* Queueing an element.
LEMMA LossQueue ==
  ASSUME LossInv, mqtt_queue_txbuf, UNCHANGED <<pc, cur, acked, wire, stale, received>>
  PROVE  LossInv'
<1>1. /\ queued \in Nat /\ Len(txbuf) \in Nat /\ Base \in Nat
      /\ queued = Base + Len(txbuf) /\ txbuf \in Seq(Nat)
  BY BaseType DEF LossInv, Numbered
<1>2. queued' = queued + 1 /\ queued + 1 \in Nat /\ InPub' = InPub
  BY <1>1 DEF mqtt_queue_txbuf, InPub
<1>3. Tokens'
  <2>1. \A k \in 1..queued : k \in 1..queued'
    BY <1>1, <1>2
  <2> QED BY <2>1 DEF LossInv, Tokens
<1>4. CASE Len(txbuf) # TxCap
  <2>1. txbuf' = Append(txbuf, queued + 1) /\ overwritten' = overwritten
    BY <1>4 DEF mqtt_queue_txbuf, PushTo, LossInv
  <2>2. /\ txbuf' \in Seq(Nat) /\ Len(txbuf') = Len(txbuf) + 1
        /\ \A i \in 1..Len(txbuf) : txbuf'[i] = txbuf[i]
        /\ txbuf'[Len(txbuf) + 1] = queued + 1
    BY <1>1, <1>2, <2>1, AppendProperties
  <2>3. Base' = Base
    BY <1>1, <1>2, <2>2 DEF Base
  <2>4. Numbered'
    <3>1. \A i \in 1..Len(txbuf') : i \in 1..Len(txbuf) \/ i = Len(txbuf) + 1
      BY <1>1, <2>2
    <3>2. \A i \in 1..Len(txbuf) : txbuf'[i] = Base + i
      BY <2>2 DEF LossInv, Numbered
    <3>3. txbuf'[Len(txbuf) + 1] = Base + (Len(txbuf) + 1)
      BY <1>1, <2>2
    <3>4. \A i \in 1..Len(txbuf') : txbuf'[i] = Base' + i
      BY <2>3, <3>1, <3>2, <3>3
    <3> QED BY <1>1, <1>2, <2>2, <3>4 DEF LossInv, Numbered
  <2>5. Window'
    BY <1>1, <1>2, <2>3 DEF LossInv, Window
  <2>6. LossBounded' /\ WindowLoss'
    BY <1>2, <2>1, <2>3, LossAsMiss, LossAsMissNext DEF LossInv
  <2> QED BY <1>3, <2>1, <2>4, <2>5, <2>6 DEF LossInv
<1>5. CASE Len(txbuf) = TxCap
  <2>0. txbuf # <<>>
    BY <1>5, CapAssumption, EmptySeq
  <2>1. txbuf' = Append(Tail(txbuf), queued + 1) /\ overwritten' = overwritten + 1
    BY <1>5 DEF mqtt_queue_txbuf, PushTo
  <2> DEFINE t == Tail(txbuf)
  <2>2. /\ t \in Seq(Nat) /\ Len(t) = Len(txbuf) - 1
        /\ \A i \in 1..Len(t) : t[i] = txbuf[i + 1]
    BY <1>1, <2>0, HeadTailProperties
  <2>3. Len(txbuf) > 0
    BY <1>1, <1>5, CapAssumption
  <2>4. /\ txbuf' \in Seq(Nat) /\ Len(txbuf') = Len(t) + 1
        /\ \A i \in 1..Len(t) : txbuf'[i] = t[i]
        /\ txbuf'[Len(t) + 1] = queued + 1
    BY <1>1, <1>2, <2>1, <2>2, AppendProperties
  <2> HIDE DEF t
  <2>5. Len(txbuf') = Len(txbuf)
    BY <1>1, <2>2, <2>4
  <2>6. Base' = Base + 1
    BY <1>1, <1>2, <2>5 DEF Base
  <2>7. Numbered'
    <3>1. \A i \in 1..Len(txbuf') : (i \in 1..Len(t) /\ i + 1 \in 1..Len(txbuf)) \/ i = Len(t) + 1
      BY <1>1, <2>2, <2>4
    <3>2. \A i \in 1..Len(t) : i + 1 \in 1..Len(txbuf) => txbuf'[i] = Base + (i + 1)
      BY <2>2, <2>4 DEF LossInv, Numbered
    <3>3. txbuf'[Len(t) + 1] = Base + 1 + (Len(t) + 1)
      BY <1>1, <2>2, <2>4
    <3>4. \A i \in 1..Len(txbuf') : txbuf'[i] = Base' + i
      <4> SUFFICES ASSUME NEW i \in 1..Len(txbuf')
                   PROVE  txbuf'[i] = Base + 1 + i
        BY <2>6
      <4>1. CASE i = Len(t) + 1
        BY <3>3, <4>1
      <4>2. CASE i \in 1..Len(t) /\ i + 1 \in 1..Len(txbuf)
        <5>1. txbuf'[i] = Base + (i + 1)
          BY <3>2, <4>2
        <5>2. i \in Int
          OBVIOUS
        <5> QED BY <1>1, <5>1, <5>2
      <4> QED BY <3>1, <4>1, <4>2
    <3> QED BY <1>1, <1>2, <2>4, <2>5, <3>4 DEF LossInv, Numbered
  <2>8. Window'
    BY <1>1, <1>2, <2>6 DEF LossInv, Window
  <2>9. overwritten \in Nat /\ overwritten' \in Nat
    BY <2>1 DEF LossInv
  <2>10. LossBounded'
    <3>1. Miss(Base + 1, received) <= Miss(Base, received) + 1
      BY <1>1, MissOneMore
    <3>2. Miss(Base, received) \in Nat /\ Miss(Base + 1, received) \in Nat
      <4>1. Base + 1 \in Nat
        BY <1>1
      <4> QED BY <1>1, <4>1, MissType
    <3>3. Miss(Base, received) <= overwritten
      BY LossAsMiss DEF LossInv
    <3>4. Miss(Base + 1, received) <= overwritten'
      BY <2>1, <2>9, <3>1, <3>2, <3>3
    <3> QED BY <2>6, <3>4, LossAsMissNext
  <2>11. WindowLoss'
    <3> SUFFICES ASSUME InPub, cur <= Base + 1
                 PROVE  Miss(Base + 1, received \cup {cur}) + 1 <= overwritten + 1
      BY <1>2, <2>1, <2>6, LossAsMissNext
    <3> DEFINE a == Miss(Base, received \cup {cur})
               b == Miss(Base + 1, received \cup {cur})
               c == Miss(Base, received)
    <3>1. a \in Nat /\ b \in Nat /\ c \in Nat
      <4>1. Base + 1 \in Nat
        BY <1>1
      <4> QED BY <1>1, <4>1, MissType
    <3>2. cur \in Nat
      BY DEF LossInv, Window
    <3>3. CASE cur = Base + 1
      <4>1. b = a
        BY <1>1, <3>3, MissOneMore
      <4>2. a <= c
        BY <1>1, MissReceive
      <4>3. c <= overwritten
        BY LossAsMiss DEF LossInv
      <4> HIDE DEF a, b, c
      <4>4. b + 1 <= overwritten + 1
        BY <2>9, <3>1, <4>1, <4>2, <4>3
      <4> QED BY <4>4 DEF b
    <3>4. CASE cur <= Base
      <4>1. b <= a + 1
        BY <1>1, MissOneMore
      <4>2. a + 1 <= overwritten
        BY <3>4, LossAsMiss DEF LossInv
      <4> HIDE DEF a, b, c
      <4>3. b + 1 <= overwritten + 1
        BY <2>9, <3>1, <4>1, <4>2
      <4> QED BY <4>3 DEF b
    <3> QED BY <1>1, <3>2, <3>3, <3>4
  <2> QED BY <1>3, <2>7, <2>8, <2>9, <2>10, <2>11 DEF LossInv
<1> QED BY <1>4, <1>5

\* The broker receives element k of a publish that was under way.
LEMMA LossReceive ==
  ASSUME LossInv, UNCHANGED <<queued, txbuf, overwritten, pc, cur>>,
         NEW k \in 1..queued, received' = received \cup {k}
  PROVE  /\ Numbered' /\ Window' /\ overwritten' \in Nat
         /\ LossBounded' /\ WindowLoss'
         /\ received' \subseteq 1..queued' /\ received \subseteq received'
<1>1. Numbered' /\ Base' = Base /\ overwritten' \in Nat /\ InPub' = InPub
  BY DEF LossInv, Numbered, Base, InPub
<1>2. Window'
  BY <1>1 DEF LossInv, Window
<1>3. Base \in Nat /\ overwritten \in Nat
  BY BaseType DEF LossInv
<1>4. received \subseteq received' /\ (received \cup {cur}) \subseteq (received' \cup {cur})
  OBVIOUS
<1>5. LossBounded'
  <2>1. Miss(Base, received') <= Miss(Base, received)
    BY <1>3, <1>4, MissReceive
  <2>2. Miss(Base, received') \in Nat /\ Miss(Base, received) \in Nat
    BY <1>3, MissType
  <2>3. Miss(Base, received) <= overwritten
    BY LossAsMiss DEF LossInv
  <2>4. Miss(Base, received') <= overwritten
    BY <1>3, <2>1, <2>2, <2>3
  <2> QED BY <1>1, <2>4, LossAsMissNext
<1>6. WindowLoss'
  <2> SUFFICES ASSUME InPub, cur <= Base
               PROVE  Miss(Base, received' \cup {cur}) + 1 <= overwritten
    BY <1>1, LossAsMissNext
  <2>1. Miss(Base, received' \cup {cur}) <= Miss(Base, received \cup {cur})
    BY <1>3, <1>4, MissReceive
  <2>2. Miss(Base, received' \cup {cur}) \in Nat /\ Miss(Base, received \cup {cur}) \in Nat
    BY <1>3, MissType
  <2>3. Miss(Base, received \cup {cur}) + 1 <= overwritten
    BY LossAsMiss DEF LossInv
  <2> QED BY <1>3, <2>1, <2>2, <2>3
<1>7. received' \subseteq 1..queued'
  BY DEF LossInv, Tokens
<1> QED BY <1>1, <1>2, <1>4, <1>5, <1>6, <1>7

\* The dequeue after a publish: the element published, or, when that was
\* overwritten meanwhile, one that the overwriting has paid for.
LEMMA LossDequeue ==
  ASSUME LossInv, DequeueTx
  PROVE  LossInv'
<1>1. /\ pc = "dequeue" /\ pc' = "loop" /\ txbuf' = Pop(txbuf)
      /\ UNCHANGED <<queued, received, overwritten, cur, acked, wire, stale>>
  BY DEF DequeueTx, net, hist
<1>2. /\ queued \in Nat /\ Len(txbuf) \in Nat /\ Base \in Nat /\ Base + 1 \in Nat
      /\ queued = Base + Len(txbuf) /\ txbuf \in Seq(Nat) /\ overwritten \in Nat
  BY BaseType DEF LossInv, Numbered
<1>3. CASE txbuf = <<>>
  BY <1>1, <1>3, LossFrame DEF Pop
<1>4. CASE txbuf # <<>>
  <2>1. /\ txbuf' \in Seq(Nat) /\ Len(txbuf') = Len(txbuf) - 1
        /\ \A i \in 1..Len(txbuf') : txbuf'[i] = txbuf[i + 1]
    BY <1>1, <1>2, <1>4, HeadTailProperties DEF Pop
  <2>2. Base' = Base + 1
    BY <1>1, <1>2, <2>1 DEF Base
  <2>3. Numbered'
    <3> SUFFICES ASSUME NEW i \in 1..Len(txbuf')
                 PROVE  txbuf'[i] = Base + 1 + i
      BY <1>1, <1>2, <2>1, <2>2 DEF Numbered
    <3>1. i + 1 \in 1..Len(txbuf) /\ i \in Int
      BY <1>2, <2>1
    <3>2. txbuf[i + 1] = Base + (i + 1)
      BY <3>1 DEF LossInv, Numbered
    <3>3. txbuf'[i] = txbuf[i + 1]
      BY <2>1
    <3> QED BY <1>2, <3>1, <3>2, <3>3
  <2>4. Window' /\ WindowLoss' /\ Tokens'
    BY <1>1 DEF LossInv, Window, WindowLoss, Tokens, InPub
  <2>5. cur \in received /\ cur \in 1..(Base + 1) /\ InPub /\ cur \in Nat
    BY <1>1 DEF LossInv, Tokens, Window, InPub
  <2> DEFINE c == Miss(Base, received)
             d == Miss(Base + 1, received)
  <2>6. c \in Nat /\ d \in Nat
    BY <1>2, MissType
  <2>7. d <= overwritten
    <3>1. CASE cur = Base + 1
      <4>1. d = c
        BY <1>2, <2>5, <3>1, MissOneMore
      <4>2. c <= overwritten
        BY LossAsMiss DEF LossInv
      <4> QED BY <4>1, <4>2
    <3>2. CASE cur <= Base
      <4>1. received \cup {cur} = received
        BY <2>5
      <4>2. c + 1 <= overwritten
        BY <2>5, <3>2, <4>1, LossAsMiss DEF LossInv
      <4>3. d <= c + 1
        BY <1>2, MissOneMore
      <4> HIDE DEF c, d
      <4> QED BY <1>2, <2>6, <4>2, <4>3
    <3> QED BY <1>2, <2>5, <3>1, <3>2
  <2>8. LossBounded'
    BY <1>1, <2>2, <2>7, LossAsMissNext
  <2> QED BY <1>1, <1>2, <2>3, <2>4, <2>8 DEF LossInv
<1> QED BY <1>3, <1>4

\* Every step of the system preserves the invariant.
LEMMA LossStep ==
  ASSUME LossInv, [Next]_vars
  PROVE  LossInv'
<1> USE DEF net, hist, thread, app, bufs
<1>1. CASE ThreadStart
  <2>1. /\ pc' = "loop" /\ txbuf' = <<>> /\ overwritten' = overwritten + Len(txbuf)
        /\ UNCHANGED <<queued, received, cur, acked, wire, stale>>
    BY <1>1 DEF ThreadStart
  <2>2. Base \in Nat /\ Len(txbuf) \in Nat /\ queued = Base + Len(txbuf) /\ overwritten \in Nat
        /\ queued \in Nat
    BY BaseType DEF LossInv, Numbered
  <2>3. Len(txbuf') = 0 /\ txbuf' \in Seq(Nat)
    BY <2>1, EmptySeq
  <2>4. Base' = Base + Len(txbuf) /\ overwritten' \in Nat
    BY <2>1, <2>2, <2>3 DEF Base
  <2>5. Numbered'
    BY <2>1, <2>2, <2>3 DEF Numbered
  <2>6. Window' /\ WindowLoss' /\ Tokens'
    BY <2>1 DEF LossInv, Window, WindowLoss, Tokens, InPub
  <2> DEFINE c == Miss(Base, received)
             d == Miss(Base + Len(txbuf), received)
  <2>7. c \in Nat /\ d \in Nat
    <3>1. Base + Len(txbuf) \in Nat
      BY <2>2
    <3> QED BY <2>2, <3>1, MissType
  <2>8. d <= c + Len(txbuf)
    BY <2>2, MissMany
  <2>9. c <= overwritten
    BY LossAsMiss DEF LossInv
  <2> HIDE DEF c, d
  <2>10. d <= overwritten'
    BY <2>1, <2>2, <2>7, <2>8, <2>9
  <2>11. LossBounded'
    BY <2>1, <2>4, <2>10, LossAsMissNext DEF d
  <2> QED BY <2>4, <2>5, <2>6, <2>11 DEF LossInv
<1>2. CASE SmEntry \/ OfflineCmdReady \/ OfflineCount \/ Connect \/ ConnectDone
           \/ PubFailed \/ WaitFailed
  <2>1. /\ UNCHANGED <<queued, txbuf, received, overwritten, cur, acked, wire, stale>>
        /\ pc' = pc \/ pc' \notin {"pub", "wait", "dequeue"}
    BY <1>2 DEF SmEntry, OfflineCmdReady, OfflineCount, Connect, ConnectDone, PubFailed, WaitFailed
  <2> QED BY <2>1, LossFrame
<1>3. CASE CloudRecv \/ mqtt_connlost \/ CloudSends \/ UNCHANGED vars
  <2>1. UNCHANGED <<queued, txbuf, received, overwritten, cur, acked, wire, stale, pc>>
    BY <1>3 DEF CloudRecv, mqtt_connlost, CloudSends, vars
  <2> QED BY <2>1, LossFrame
<1>4. ASSUME NEW c \in SmCmds, mqtt_send_sm_cmd(c)
      PROVE  LossInv'
  BY <1>4, LossFrame DEF mqtt_send_sm_cmd
<1>5. ASSUME NEW r \in MsgArrvdReturns, mqtt_msgarrvd(r)
      PROVE  LossInv'
  BY <1>5, LossFrame DEF mqtt_msgarrvd
<1>6. CASE Subscribe
  <2>1. UNCHANGED <<queued, txbuf, received, overwritten, cur>> /\ pc' = "finish"
    BY <1>6 DEF Subscribe
  <2>2. CASE BreakConnection
    BY <2>1, <2>2, LossBreak DEF BreakConnection
  <2>3. CASE UNCHANGED <<acked, wire, stale>>
    BY <2>1, <2>3, LossFrame
  <2> QED BY <1>6, <2>2, <2>3 DEF Subscribe
<1>7. CASE ConnectionBreaks
  BY <1>7, LossBreak DEF ConnectionBreaks, BreakConnection
<1>8. CASE ConnectFailed \/ ReadyCmdOffline \/ ReadyConnLost
  <2>1. UNCHANGED <<queued, txbuf, received, overwritten, cur>> /\ pc' = "loop" /\ DestroyClient
    BY <1>8 DEF ConnectFailed, ReadyCmdOffline, ReadyConnLost, Ready
  <2>2. CASE cli
    BY <2>1, <2>2, LossBreak DEF DestroyClient, MQTTClient_destroy
  <2>3. CASE ~cli
    BY <2>1, <2>3, LossFrame DEF DestroyClient
  <2> QED BY <2>2, <2>3
<1>9. CASE ReadyPeek
  <2>1. /\ UNCHANGED <<queued, txbuf, received, overwritten, acked, wire, stale>>
        /\ cur' = Head(txbuf) /\ pc' = "pub" /\ txbuf # <<>>
    BY <1>9 DEF ReadyPeek
  <2>2. /\ queued \in Nat /\ Len(txbuf) \in Nat /\ Base \in Nat
        /\ queued = Base + Len(txbuf) /\ txbuf \in Seq(Nat)
    BY BaseType DEF LossInv, Numbered
  <2>3. Len(txbuf) > 0
    BY <2>1, <2>2, EmptySeq
  <2>4. Head(txbuf) = txbuf[1] /\ 1 \in 1..Len(txbuf)
    BY <2>2, <2>3
  <2>5. cur' = Base + 1
    BY <2>1, <2>4 DEF LossInv, Numbered
  <2>6. Numbered' /\ Base' = Base /\ overwritten' \in Nat /\ LossBounded' /\ WindowLoss'
    BY <2>1, <2>5, Quiet
  <2>7. Window'
    BY <2>1, <2>2, <2>3, <2>5, <2>6 DEF Window
  <2>8. Tokens'
    BY <2>1 DEF LossInv, Tokens
  <2> QED BY <2>6, <2>7, <2>8 DEF LossInv
<1>10. CASE Pub
  <2> DEFINE old == [i \in 1..Len(wire) |-> [wire[i] EXCEPT !.live = FALSE]]
             new == [id |-> cur, live |-> TRUE]
             P == [id : Nat, live : BOOLEAN]
  <2>1. /\ UNCHANGED <<queued, txbuf, received, overwritten, cur, stale>>
        /\ pc = "pub" /\ pc' = "wait" /\ acked' = FALSE /\ wire' = Append(old, new)
    BY <1>10 DEF Pub
  <2>2. Numbered' /\ Base' = Base /\ overwritten' \in Nat /\ LossBounded' /\ WindowLoss'
    BY <2>1, Quiet DEF InPub
  <2>3. Window' /\ cur \in 1..queued
    BY <2>1, <2>2, BaseType DEF LossInv, Window, InPub, Numbered
  <2>4. Len(wire) \in Nat /\ \A i \in 1..Len(wire) : wire[i] \in P /\ wire[i].id \in 1..queued
    BY LenProperties, ElementOfSeq DEF LossInv, Tokens
  <2>5. old \in Seq(P) /\ Len(old) = Len(wire)
    <3>1. old \in [1..Len(wire) -> P]
      BY <2>4
    <3>2. old \in Seq(P)
      BY <2>4, <3>1, SeqDef
    <3>3. DOMAIN old = 1..Len(old) /\ Len(old) \in Nat
      BY <3>2, LenProperties
    <3>4. DOMAIN old = 1..Len(wire)
      OBVIOUS
    <3> HIDE DEF old
    <3> QED BY <2>4, <3>2, <3>3, <3>4
  <2>6. \A i \in 1..Len(wire) : old[i].id \in 1..queued /\ ~old[i].live
    BY <2>4
  <2>7. new \in P /\ new.id = cur
    BY <2>3 DEF LossInv, Numbered
  <2> HIDE DEF old, new, P
  <2>8. /\ wire' \in Seq(P) /\ Len(wire') = Len(wire) + 1
        /\ \A i \in 1..Len(wire) : wire'[i] = old[i]
        /\ wire'[Len(wire) + 1] = new
    BY <2>1, <2>5, <2>7, AppendProperties
  <2>9. \A i \in 1..Len(wire') : i \in 1..Len(wire) \/ i = Len(wire) + 1
    BY <2>4, <2>8
  <2>10. \A i \in 1..Len(wire') : wire'[i].id \in 1..queued /\ (wire'[i].live => wire'[i].id = cur)
    BY <2>3, <2>6, <2>7, <2>8, <2>9
  <2>11. Tokens'
    BY <2>1, <2>8, <2>10 DEF LossInv, Tokens, P
  <2> QED BY <2>2, <2>3, <2>11 DEF LossInv
<1>11. CASE WaitDone
  <2>1. /\ UNCHANGED <<queued, txbuf, received, overwritten, cur, acked, wire, stale>>
        /\ pc = "wait" /\ pc' = "dequeue" /\ acked
    BY <1>11 DEF WaitDone
  <2>2. Numbered' /\ Base' = Base /\ overwritten' \in Nat /\ LossBounded' /\ WindowLoss'
    BY <2>1, Quiet DEF InPub
  <2>3. Window' /\ Tokens'
    BY <2>1, <2>2 DEF LossInv, Window, Tokens, InPub
  <2> QED BY <2>2, <2>3 DEF LossInv
<1>12. CASE DequeueTx
  BY <1>12, LossDequeue
<1>13. CASE CloudRespond
  BY <1>13, LossQueue DEF CloudRespond
<1>14. CASE cloud_update
  <2>1. UNCHANGED <<pc, cur, acked, wire, stale, received>>
    BY <1>14 DEF cloud_update
  <2>2. CASE mqtt_queue_txbuf
    BY <2>1, <2>2, LossQueue
  <2>3. CASE UNCHANGED <<txbuf, overwritten, queued>>
    BY <2>1, <2>3, LossFrame
  <2> QED BY <1>14, <2>2, <2>3 DEF cloud_update
<1>15. CASE BrokerReceive
  <2> DEFINE h == Head(wire)
  <2>1. /\ UNCHANGED <<queued, txbuf, overwritten, pc, cur, stale>>
        /\ wire # <<>> /\ wire' = Tail(wire) /\ acked' = (acked \/ h.live)
        /\ received' = received \cup {h.id}
    BY <1>15 DEF BrokerReceive
  <2>2. /\ wire \in Seq([id : Nat, live : BOOLEAN]) /\ Len(wire) \in Nat
        /\ Tail(wire) \in Seq([id : Nat, live : BOOLEAN]) /\ Len(Tail(wire)) = Len(wire) - 1
        /\ \A i \in 1..Len(Tail(wire)) : Tail(wire)[i] = wire[i + 1]
        /\ h \in [id : Nat, live : BOOLEAN]
    BY <2>1, HeadTailProperties, LenProperties DEF LossInv, Tokens
  <2>3. h = wire[1] /\ 1 \in 1..Len(wire)
    BY <2>1, <2>2, EmptySeq
  <2>4. h.id \in 1..queued /\ (pc = "wait" /\ h.live => h.id = cur)
    BY <2>3 DEF LossInv, Tokens
  <2>5. /\ Numbered' /\ Window' /\ overwritten' \in Nat /\ LossBounded' /\ WindowLoss'
        /\ received' \subseteq 1..queued' /\ received \subseteq received'
    BY <2>1, <2>4, LossReceive
  <2>6. \A i \in 1..Len(wire') : i + 1 \in 1..Len(wire)
    BY <2>1, <2>2
  <2>7. \A i \in 1..Len(wire') :
          wire'[i].id \in 1..queued /\ (pc = "wait" /\ wire'[i].live => wire'[i].id = cur)
    BY <2>1, <2>2, <2>6 DEF LossInv, Tokens
  <2>8. acked' \in BOOLEAN
    BY <2>1 DEF LossInv, Tokens
  <2>9. pc = "wait" /\ acked' => cur \in received'
    BY <2>1, <2>4, <2>5 DEF LossInv, Tokens
  <2>10. pc = "dequeue" => cur \in received'
    BY <2>5 DEF LossInv, Tokens
  <2>11. Tokens'
    BY <2>1, <2>2, <2>5, <2>7, <2>8, <2>9, <2>10 DEF LossInv, Tokens
  <2> QED BY <2>5, <2>11 DEF LossInv
<1>16. CASE BrokerReceiveLate
  <2>1. PICK k \in stale :
          /\ stale' = stale \ {k} /\ received' = received \cup {k}
          /\ UNCHANGED <<queued, txbuf, overwritten, pc, cur, acked, wire>>
    BY <1>16 DEF BrokerReceiveLate
  <2>2. k \in 1..queued
    BY DEF LossInv, Tokens
  <2>3. /\ Numbered' /\ Window' /\ overwritten' \in Nat /\ LossBounded' /\ WindowLoss'
        /\ received' \subseteq 1..queued' /\ received \subseteq received'
    BY <2>1, <2>2, LossReceive
  <2>4. Tokens'
    BY <2>1, <2>3 DEF LossInv, Tokens
  <2> QED BY <2>3, <2>4 DEF LossInv
<1> QED BY NextSplit, <1>1, <1>2, <1>3, <1>4, <1>5, <1>6, <1>7, <1>8, <1>9, <1>10, <1>11, <1>12,
           <1>13, <1>14, <1>15, <1>16

\* The initial states satisfy it.
LEMMA LossInit == Init => LossInv
<1> SUFFICES ASSUME Init PROVE LossInv
  OBVIOUS
<1>1. /\ queued = 0 /\ txbuf = <<>> /\ pc = "start" /\ cur = 0 /\ acked = FALSE /\ wire = <<>>
      /\ stale = {} /\ received = {} /\ overwritten = 0
  BY DEF Init
<1>2. txbuf \in Seq(Nat) /\ Len(txbuf) = 0 /\ wire \in Seq([id : Nat, live : BOOLEAN])
      /\ Len(wire) = 0
  BY <1>1, EmptySeq
<1>3. Numbered /\ Window /\ Tokens
  <2>1. Numbered
    BY <1>1, <1>2 DEF Numbered
  <2>2. Window
    BY <1>1 DEF Window, InPub
  <2>3. \A i \in 1..Len(wire) : FALSE
    BY <1>2
  <2>4. acked \in BOOLEAN
    BY <1>1
  <2>5. Tokens
    BY <1>1, <1>2, <2>3, <2>4 DEF Tokens
  <2> QED BY <2>1, <2>2, <2>5
<1>4. Gone \ received = {}
  BY <1>1, <1>2 DEF Gone
<1>5. LossBounded /\ WindowLoss
  BY <1>1, <1>4, FS_EmptySet DEF LossBounded, WindowLoss, InPub
<1> QED BY <1>1, <1>3, <1>5 DEF LossInv

\* The buffer, the peek, the publish and the dequeue of mqtt_sm_ready
\* (mqtt_sm.c:161-175) lose at most one element for each element that a full
\* buffer overwrote, whatever the capacity, the number of faults and the
\* interleaving with cloud_update and the callbacks.
THEOREM LossIsBounded == Spec => []LossBounded
<1>1. Init => LossInv
  BY LossInit
<1>2. LossInv /\ [Next]_vars => LossInv'
  BY LossStep
<1>3. LossInv => LossBounded
  BY DEF LossInv
<1> QED BY <1>1, <1>2, <1>3, PTL DEF Spec
-----------------------------------------------------------------------------
(* The order of first receipts.                                            *)

\* What was published is never ahead of what is peeked next, copies on the
\* wire follow each other in the order of their numbers, and what a broken
\* connection left behind, or the broker has, is not ahead of them.
Ordered == /\ cur <= Base + 1
           /\ \A i \in 1..Len(wire) : wire[i].id <= cur
           /\ \A i, j \in 1..Len(wire) : i <= j => wire[i].id <= wire[j].id
           /\ \A x \in stale \cup received : x <= cur
           /\ \A x \in stale \cup received : \A i \in 1..Len(wire) : x <= wire[i].id

\* Ordered does not look at the buffer itself, only at the oldest number in it.
LEMMA OrderFrame ==
  ASSUME LossInv, LossInv', Ordered, Base <= Base',
         UNCHANGED <<cur, wire, stale, received>>
  PROVE  Ordered'
<1>1. Base \in Nat /\ Base' \in Nat /\ cur \in Nat
  BY BaseType, BaseTypeNext DEF LossInv, Window
<1>2. cur <= Base + 1 /\ cur' = cur
  BY DEF Ordered
<1>3. \A a, b, c \in Nat : c <= a + 1 /\ a <= b => c <= b + 1
  OBVIOUS
<1>4. cur' <= Base' + 1
  BY <1>1, <1>2, <1>3, Zenon
<1> QED BY <1>4 DEF Ordered

\* A connection that ends leaves some of the wire behind.
LEMMA OrderBreak ==
  ASSUME LossInv, Ordered, UNCHANGED <<cur, received, txbuf, queued>>,
         \E n \in 0..Len(wire) : stale' = stale \cup {wire[i].id : i \in 1..n},
         wire' = <<>>
  PROVE  Ordered'
<1>1. PICK n \in 0..Len(wire) : stale' = stale \cup {wire[i].id : i \in 1..n}
  OBVIOUS
<1>2. Len(wire) \in Nat /\ \A i \in 1..n : i \in 1..Len(wire)
  <2>1. Len(wire) \in Nat
    BY LenProperties DEF LossInv, Tokens
  <2> QED BY <2>1
<1>3. \A x \in stale' \cup received' : x <= cur'
  BY <1>1, <1>2 DEF Ordered
<1>4. \A i \in 1..Len(wire') : FALSE
  OBVIOUS
<1>5. cur' <= Base' + 1
  BY DEF Ordered, Base
<1> QED BY <1>3, <1>4, <1>5 DEF Ordered

\* Queueing and dequeueing never bring an older number to the head.
LEMMA BaseGrows ==
  ASSUME LossInv,
         \/ txbuf' = Pop(txbuf) /\ UNCHANGED queued
         \/ mqtt_queue_txbuf
         \/ txbuf' = <<>> /\ UNCHANGED queued
         \/ UNCHANGED <<txbuf, queued>>
  PROVE  Base <= Base'
<1>1. txbuf \in Seq(Nat) /\ queued \in Nat /\ Len(txbuf) \in Nat /\ Len(txbuf) <= queued
      /\ Base \in Nat
  BY BaseType DEF LossInv, Numbered
<1>2. txbuf # <<>> => Tail(txbuf) \in Seq(Nat) /\ Len(Tail(txbuf)) = Len(txbuf) - 1 /\ Len(txbuf) > 0
  BY <1>1, HeadTailProperties, EmptySeq
<1>3. CASE txbuf' = Pop(txbuf) /\ UNCHANGED queued
  BY <1>1, <1>2, <1>3 DEF Pop, Base
<1>4. CASE mqtt_queue_txbuf
  <2>1. txbuf' = PushTo(txbuf, TxCap, queued + 1) /\ queued' = queued + 1
    BY <1>4 DEF mqtt_queue_txbuf
  <2>2. CASE Len(txbuf) = TxCap
    <3>1. txbuf # <<>>
      BY <2>2, CapAssumption
    <3>2. txbuf' = Append(Tail(txbuf), queued + 1)
      BY <2>1, <2>2 DEF PushTo
    <3>3. Len(txbuf') = Len(Tail(txbuf)) + 1
      BY <1>1, <1>2, <3>1, <3>2, AppendProperties
    <3> QED BY <1>1, <1>2, <2>1, <3>1, <3>3 DEF Base
  <2>3. CASE Len(txbuf) # TxCap
    <3>1. Len(txbuf') = Len(txbuf) + 1
      BY <1>1, <2>1, <2>3, AppendProperties DEF PushTo
    <3> QED BY <1>1, <2>1, <3>1 DEF Base
  <2> QED BY <2>2, <2>3
<1>5. CASE txbuf' = <<>> /\ UNCHANGED queued
  <2>1. Len(txbuf') = 0
    BY <1>5
  <2> QED BY <1>1, <1>5, <2>1 DEF Base
<1>6. CASE UNCHANGED <<txbuf, queued>>
  BY <1>1, <1>6 DEF Base
<1> QED BY <1>3, <1>4, <1>5, <1>6

\* A broken or destroyed connection, as the actions state it.
LEMMA OrderClient ==
  ASSUME LossInv, Ordered, UNCHANGED <<cur, received, txbuf, queued>>, DestroyClient
  PROVE  Ordered'
<1>1. CASE cli
  BY <1>1, OrderBreak DEF DestroyClient, MQTTClient_destroy
<1>2. CASE ~cli
  <2>1. UNCHANGED <<wire, stale>>
    BY <1>2 DEF DestroyClient
  <2> QED BY <2>1 DEF Ordered, Base
<1> QED BY <1>1, <1>2

\* The order is preserved by every step.
LEMMA OrderStep ==
  ASSUME LossInv, LossInv', Ordered, [Next]_vars
  PROVE  Ordered'
<1> USE DEF net, hist, thread, app, bufs
<1>1. CASE SmEntry \/ OfflineCmdReady \/ OfflineCount \/ Connect \/ ConnectDone
           \/ PubFailed \/ WaitFailed \/ WaitDone \/ CloudRecv \/ mqtt_connlost \/ CloudSends
           \/ UNCHANGED vars
  <2>1. UNCHANGED <<cur, wire, stale, received, txbuf, queued>>
    BY <1>1 DEF SmEntry, OfflineCmdReady, OfflineCount, Connect, ConnectDone, PubFailed,
                WaitFailed, WaitDone, CloudRecv, mqtt_connlost, CloudSends, vars
  <2> QED BY <2>1 DEF Ordered, Base
<1>2. ASSUME NEW c \in SmCmds, mqtt_send_sm_cmd(c)
      PROVE  Ordered'
  BY <1>2 DEF mqtt_send_sm_cmd, Ordered, Base
<1>3. ASSUME NEW r \in MsgArrvdReturns, mqtt_msgarrvd(r)
      PROVE  Ordered'
  BY <1>3 DEF mqtt_msgarrvd, Ordered, Base
<1>4. CASE ThreadStart \/ DequeueTx \/ CloudRespond \/ cloud_update
  <2>1. UNCHANGED <<cur, wire, stale, received>>
    BY <1>4 DEF ThreadStart, DequeueTx, CloudRespond, cloud_update
  <2>2. \/ txbuf' = Pop(txbuf) /\ UNCHANGED queued
        \/ mqtt_queue_txbuf
        \/ txbuf' = <<>> /\ UNCHANGED queued
        \/ UNCHANGED <<txbuf, queued>>
    BY <1>4 DEF ThreadStart, DequeueTx, CloudRespond, cloud_update
  <2> QED BY <2>1, <2>2, BaseGrows, OrderFrame
<1>5. CASE ConnectFailed \/ ReadyCmdOffline \/ ReadyConnLost
  <2>1. DestroyClient /\ UNCHANGED <<cur, received, txbuf, queued>>
    BY <1>5 DEF ConnectFailed, ReadyCmdOffline, ReadyConnLost
  <2> QED BY <2>1, OrderClient
<1>6. CASE Subscribe
  <2>1. UNCHANGED <<cur, received, txbuf, queued>>
    BY <1>6 DEF Subscribe
  <2>2. UNCHANGED <<wire, stale>> \/ BreakConnection
    BY <1>6 DEF Subscribe
  <2>3. CASE UNCHANGED <<wire, stale>>
    BY <2>1, <2>3 DEF Ordered, Base
  <2>4. CASE BreakConnection
    BY <2>1, <2>4, OrderBreak DEF BreakConnection
  <2> QED BY <2>2, <2>3, <2>4
<1>7. CASE ConnectionBreaks
  BY <1>7, OrderBreak DEF ConnectionBreaks, BreakConnection
<1>8. CASE ReadyPeek
  <2>1. cur' = Head(txbuf) /\ txbuf # <<>> /\ UNCHANGED <<txbuf, queued, wire, stale, received>>
    BY <1>8 DEF ReadyPeek
  <2>2. cur' = Base + 1
    <3>1. txbuf \in Seq(Nat) /\ 1 \in 1..Len(txbuf) /\ Head(txbuf) = txbuf[1]
      BY <2>1, EmptySeq, LenProperties DEF LossInv, Numbered
    <3> QED BY <2>1, <3>1 DEF LossInv, Numbered
  <2>3. Base \in Nat /\ cur \in Nat /\ cur <= cur'
    BY <2>2, BaseType DEF LossInv, Window, Ordered
  <2>4. \A x \in Nat : x <= cur => x <= cur'
    BY <2>2, <2>3
  <2>5. \A i \in 1..Len(wire) : wire[i].id \in Nat
    BY DEF LossInv, Tokens
  <2>6. \A x \in stale \cup received : x \in Nat
    BY DEF LossInv, Tokens, Numbered
  <2>7. Base' = Base
    BY <2>1 DEF Base
  <2>8. cur' <= Base' + 1
    BY <2>2, <2>3, <2>7
  <2> QED BY <2>1, <2>4, <2>5, <2>6, <2>8 DEF Ordered
<1>9. CASE Pub
  <2> DEFINE old == [i \in 1..Len(wire) |-> [wire[i] EXCEPT !.live = FALSE]]
             R == [id : Nat, live : BOOLEAN]
  <2>1. wire' = Append(old, [id |-> cur, live |-> TRUE])
        /\ UNCHANGED <<cur, stale, received, txbuf, queued>>
    BY <1>9 DEF Pub
  <2>2. wire \in Seq(R) /\ Len(wire) \in Nat /\ cur \in Nat
    BY LenProperties DEF LossInv, Tokens, Window
  <2>3. old \in Seq(R) /\ Len(old) = Len(wire)
        /\ \A i \in 1..Len(wire) : old[i].id = wire[i].id
    <3>1. \A i \in 1..Len(wire) : wire[i] \in R
      BY <2>2, ElementOfSeq
    <3>2. old \in [1..Len(wire) -> R]
      BY <3>1
    <3>3. old \in Seq(R) /\ Len(old) = Len(wire)
      BY <2>2, <3>2, SeqDef
    <3>4. \A i \in 1..Len(wire) : old[i].id = wire[i].id
      BY <3>1
    <3> QED BY <3>3, <3>4
  <2>4. /\ Len(wire') = Len(wire) + 1
        /\ \A i \in 1..Len(wire) : wire'[i].id = wire[i].id
        /\ wire'[Len(wire) + 1].id = cur
    <3> HIDE DEF old
    <3>1. [id |-> cur, live |-> TRUE] \in R
      BY <2>2
    <3>2. /\ Len(wire') = Len(old) + 1
          /\ \A i \in 1..Len(old) : wire'[i] = old[i]
          /\ wire'[Len(old) + 1] = [id |-> cur, live |-> TRUE]
      BY <2>1, <2>3, <3>1, AppendProperties
    <3> QED BY <2>3, <3>2
  <2>5. \A i \in 1..Len(wire') : i \in 1..Len(wire) \/ i = Len(wire) + 1
    BY <2>2, <2>4
  <2>6. \A i \in 1..Len(wire') : wire'[i].id <= cur'
    BY <2>1, <2>2, <2>4, <2>5 DEF Ordered
  <2>7. \A i, j \in 1..Len(wire') : i <= j => wire'[i].id <= wire'[j].id
    <3> SUFFICES ASSUME NEW i \in 1..Len(wire'), NEW j \in 1..Len(wire'), i <= j
                 PROVE  wire'[i].id <= wire'[j].id
      OBVIOUS
    <3>1. CASE j = Len(wire) + 1
      BY <2>1, <2>4, <2>6, <3>1
    <3>2. CASE j \in 1..Len(wire)
      <4>1. i \in 1..Len(wire)
        BY <2>2, <2>4, <3>2
      <4> QED BY <2>4, <3>2, <4>1 DEF Ordered
    <3> QED BY <2>5, <3>1, <3>2
  <2>8. \A x \in stale' \cup received' : \A i \in 1..Len(wire') : x <= wire'[i].id
    BY <2>1, <2>4, <2>5 DEF Ordered
  <2>9. cur' <= Base' + 1
    BY <2>1 DEF Ordered, Base
  <2>10. \A x \in stale' \cup received' : x <= cur'
    BY <2>1 DEF Ordered
  <2> QED BY <2>6, <2>7, <2>8, <2>9, <2>10 DEF Ordered
<1>10. CASE BrokerReceive
  <2>1. wire # <<>> /\ wire' = Tail(wire) /\ received' = received \cup {Head(wire).id}
        /\ UNCHANGED <<cur, stale, txbuf, queued>>
    BY <1>10 DEF BrokerReceive
  <2>2. /\ Len(wire) \in Nat /\ 1 \in 1..Len(wire) /\ Head(wire) = wire[1]
        /\ Len(wire') = Len(wire) - 1
        /\ \A i \in 1..Len(wire') : wire'[i] = wire[i + 1] /\ i + 1 \in 1..Len(wire) /\ 1 <= i + 1
    <3>1. wire \in Seq([id : Nat, live : BOOLEAN])
      BY DEF LossInv, Tokens
    <3>2. Len(wire) \in Nat /\ Len(wire) # 0
      BY <2>1, <3>1, LenProperties, EmptySeq
    <3>3. Len(wire') = Len(wire) - 1 /\ \A i \in 1..Len(wire') : wire'[i] = wire[i + 1]
      BY <2>1, <3>1, HeadTailProperties
    <3>4. Head(wire) = wire[1]
      BY <3>1, <2>1, HeadTailProperties
    <3> QED BY <3>2, <3>3, <3>4
  <2>3. \A i \in 1..Len(wire') : wire'[i].id <= cur' /\ Head(wire).id <= wire'[i].id
    BY <2>1, <2>2 DEF Ordered
  <2>4. \A i, j \in 1..Len(wire') : i <= j => wire'[i].id <= wire'[j].id
    <3> SUFFICES ASSUME NEW i \in 1..Len(wire'), NEW j \in 1..Len(wire'), i <= j
                 PROVE  wire'[i].id <= wire'[j].id
      OBVIOUS
    <3>1. i + 1 <= j + 1
      BY <2>2
    <3> QED BY <2>2, <3>1 DEF Ordered
  <2>5. \A x \in stale' \cup received' : x <= cur'
    BY <2>1, <2>2 DEF Ordered
  <2>6. \A x \in stale' \cup received' : \A i \in 1..Len(wire') : x <= wire'[i].id
    BY <2>1, <2>2, <2>3 DEF Ordered
  <2>7. cur' <= Base' + 1
    BY <2>1 DEF Ordered, Base
  <2> QED BY <2>3, <2>4, <2>5, <2>6, <2>7 DEF Ordered
<1>11. CASE BrokerReceiveLate
  <2>1. stale' \cup received' \subseteq stale \cup received
        /\ UNCHANGED <<cur, wire, txbuf, queued>>
    BY <1>11 DEF BrokerReceiveLate
  <2> QED BY <2>1 DEF Ordered, Base
<1> QED BY NextSplit, <1>1, <1>2, <1>3, <1>4, <1>5, <1>6, <1>7, <1>8, <1>9, <1>10, <1>11

\* A publish that reaches the broker on a connection that is up, and whose
\* element has not been received yet, is newer than everything received: also
\* after retries of the same element, overwritten elements, time-outs that
\* leave copies on the wire and late arrivals from broken connections
\* (mqtt_sm.c:155-185).
THEOREM ReceiptsInOrder == Spec => FirstReceiptsInOrder
<1>1. Init => LossInv /\ Ordered
  <2> SUFFICES ASSUME Init PROVE LossInv /\ Ordered
    OBVIOUS
  <2>1. queued = 0 /\ txbuf = <<>> /\ cur = 0 /\ wire = <<>> /\ stale = {} /\ received = {}
    BY DEF Init
  <2>2. Len(txbuf) = 0 /\ Len(wire) = 0
    BY <2>1
  <2>3. Ordered
    BY <2>1, <2>2 DEF Ordered, Base
  <2> QED BY <2>3, LossInit
<1>2. LossInv /\ Ordered /\ [Next]_vars => (LossInv /\ Ordered)'
  BY LossStep, OrderStep
<1>3. LossInv /\ Ordered /\ [Next]_vars =>
        [BrokerReceive => \/ Head(wire).id \in received
                          \/ \A i \in received : i < Head(wire).id]_vars
  <2> SUFFICES ASSUME LossInv, Ordered, BrokerReceive, Head(wire).id \notin received,
                      NEW i \in received
               PROVE  i < Head(wire).id
    OBVIOUS
  <2>1. wire # <<>> /\ wire \in Seq([id : Nat, live : BOOLEAN])
    BY DEF BrokerReceive, LossInv, Tokens
  <2>2. 1 \in 1..Len(wire) /\ Head(wire) = wire[1]
    BY <2>1, LenProperties, EmptySeq, HeadTailProperties
  <2>3. wire[1].id \in Nat
    BY <2>2 DEF LossInv, Tokens
  <2>4. i \in Nat /\ i # Head(wire).id
    BY DEF LossInv, Tokens, Numbered
  <2>5. i <= Head(wire).id
    BY <2>2 DEF Ordered
  <2> QED BY <2>2, <2>3, <2>4, <2>5
<1> QED BY <1>1, <1>2, <1>3, PTL DEF Spec, FirstReceiptsInOrder
-----------------------------------------------------------------------------
(* Messages are answered once.                                             *)

\* The places of s that hold a message with a "cmd".
CmdsIn(s) == {i \in 1..Len(s) : s[i] \in HasCmd}

\* A sequence has finitely many places.
LEMMA CmdsFinite ==
  ASSUME NEW S, NEW s \in Seq(S)
  PROVE  IsFiniteSet(CmdsIn(s)) /\ Cardinality(CmdsIn(s)) \in Nat
<1>1. Len(s) \in Nat
  BY LenProperties
<1>2. IsFiniteSet(1..Len(s))
  BY <1>1, FS_Interval
<1>3. IsFiniteSet(CmdsIn(s))
  BY <1>2, FS_Subset DEF CmdsIn
<1> QED BY <1>3, FS_CardinalityType

\* A message that is queued is one more, if it has a "cmd".
LEMMA CmdsAppend ==
  ASSUME NEW S, NEW s \in Seq(S), NEW x \in S
  PROVE  Cardinality(CmdsIn(Append(s, x)))
           = Cardinality(CmdsIn(s)) + (IF x \in HasCmd THEN 1 ELSE 0)
<1> DEFINE t == Append(s, x)
<1>1. /\ t \in Seq(S) /\ Len(s) \in Nat /\ Len(t) = Len(s) + 1
      /\ \A i \in 1..Len(s) : t[i] = s[i]
      /\ t[Len(s) + 1] = x
  BY AppendProperties, LenProperties
<1> HIDE DEF t
<1>2. CmdsIn(t) = IF x \in HasCmd THEN CmdsIn(s) \cup {Len(s) + 1} ELSE CmdsIn(s)
  <2>1. \A i : i \in 1..Len(t) <=> i \in 1..Len(s) \/ i = Len(s) + 1
    BY <1>1
  <2> QED BY <1>1, <2>1 DEF CmdsIn
<1>3. Len(s) + 1 \notin CmdsIn(s)
  BY <1>1 DEF CmdsIn
<1>4. IsFiniteSet(CmdsIn(s)) /\ Cardinality(CmdsIn(s)) \in Nat
  BY CmdsFinite
<1>5. Cardinality(CmdsIn(s) \cup {Len(s) + 1}) = Cardinality(CmdsIn(s)) + 1
  BY <1>3, <1>4, FS_AddElement
<1> QED BY <1>2, <1>4, <1>5 DEF t

\* A message that is dequeued is one less, if it has a "cmd".
LEMMA CmdsTail ==
  ASSUME NEW S, NEW s \in Seq(S), s # <<>>
  PROVE  Cardinality(CmdsIn(Tail(s))) + (IF Head(s) \in HasCmd THEN 1 ELSE 0)
           <= Cardinality(CmdsIn(s))
<1> DEFINE t == Tail(s)
           B == CmdsIn(s) \ {1}
           f == [i \in CmdsIn(t) |-> i + 1]
<1>1. /\ t \in Seq(S) /\ Len(s) \in Nat /\ Len(s) # 0 /\ Len(t) = Len(s) - 1
      /\ \A i \in 1..Len(t) : t[i] = s[i + 1]
      /\ Head(s) = s[1]
  BY HeadTailProperties, LenProperties, EmptySeq
<1>2. IsFiniteSet(CmdsIn(s)) /\ Cardinality(CmdsIn(s)) \in Nat /\ Cardinality(CmdsIn(t)) \in Nat
  BY <1>1, CmdsFinite
<1> HIDE DEF t
<1>3. f \in [CmdsIn(t) -> B] /\ \A i, j \in CmdsIn(t) : f[i] = f[j] => i = j
  BY <1>1 DEF CmdsIn
<1>4. f \in Injection(CmdsIn(t), B)
  BY <1>3 DEF Injection, IsInjective
<1>5. /\ IsFiniteSet(B)
      /\ Cardinality(B) = IF 1 \in CmdsIn(s) THEN Cardinality(CmdsIn(s)) - 1
                                             ELSE Cardinality(CmdsIn(s))
  BY <1>2, FS_RemoveElement
<1>6. Cardinality(CmdsIn(t)) <= Cardinality(B)
  BY <1>4, <1>5, FS_Injection
<1>7. 1 \in CmdsIn(s) <=> Head(s) \in HasCmd
  BY <1>1 DEF CmdsIn
<1> HIDE DEF B
<1> QED BY <1>2, <1>5, <1>6, <1>7 DEF t

Inbound == [kind : Kinds, freed : BOOLEAN]

Debt == IF apc = "respond" THEN 1 ELSE 0

\* Of the messages with a "cmd" that reached the callback, some are answered,
\* one is about to be, and some wait in rxbuf.
AnswerInv == /\ inbox \in Seq(Inbound) /\ rxbuf \in Seq(Kinds)
             /\ queued \in Nat /\ taken \in Nat /\ cloudPos \in Nat
             /\ replies \subseteq 1..queued
             /\ Cardinality(replies) + Debt + Cardinality(CmdsIn(rxbuf)) <= taken

\* The responses are finitely many.
LEMMA RepliesFinite ==
  ASSUME AnswerInv
  PROVE  /\ IsFiniteSet(replies) /\ Cardinality(replies) \in Nat
         /\ Cardinality(CmdsIn(rxbuf)) \in Nat
         /\ Debt \in {0, 1}
<1>1. IsFiniteSet(1..queued)
  BY FS_Interval DEF AnswerInv
<1>2. IsFiniteSet(replies)
  BY <1>1, FS_Subset DEF AnswerInv
<1>3. Cardinality(CmdsIn(rxbuf)) \in Nat
  BY CmdsFinite DEF AnswerInv
<1> QED BY <1>2, <1>3, FS_CardinalityType DEF Debt

\* Steps that leave the answering alone and keep the numbers.
LEMMA AnswerFrame ==
  ASSUME AnswerInv, UNCHANGED <<apc, rxbuf, replies, taken>>,
         queued' \in Nat, queued <= queued', inbox' \in Seq(Inbound), cloudPos' \in Nat
  PROVE  AnswerInv'
<1>1. 1..queued \subseteq 1..queued'
  BY DEF AnswerInv
<1> QED BY <1>1 DEF AnswerInv, Debt, CmdsIn

\* A message is queued to rxbuf; a full buffer drops its oldest one.
LEMMA AnswerArrived ==
  ASSUME AnswerInv, NEW r \in MsgArrvdReturns, mqtt_msgarrvd(r)
  PROVE  AnswerInv'
<1> DEFINE k == Head(inbox).kind
           n == IF k \in HasCmd THEN 1 ELSE 0
<1>1. /\ inbox # <<>> /\ rxbuf' = PushTo(rxbuf, RxCap, k) /\ taken' = taken + n
      /\ inbox' = (IF r = 1 THEN Tail(inbox) ELSE [inbox EXCEPT ![1].freed = TRUE])
      /\ UNCHANGED <<apc, replies, queued, cloudPos>>
  BY DEF mqtt_msgarrvd, app
<1>2. Head(inbox) \in Inbound /\ Tail(inbox) \in Seq(Inbound) /\ Head(inbox) = inbox[1]
      /\ 1 \in 1..Len(inbox)
  BY <1>1, HeadTailProperties, EmptySeq, LenProperties DEF AnswerInv
<1>3. inbox' \in Seq(Inbound)
  <2>1. [inbox[1] EXCEPT !.freed = TRUE] \in Inbound
    BY <1>2 DEF Inbound
  <2>2. [inbox EXCEPT ![1].freed = TRUE] = [inbox EXCEPT ![1] = [inbox[1] EXCEPT !.freed = TRUE]]
    OBVIOUS
  <2>3. [inbox EXCEPT ![1].freed = TRUE] \in Seq(Inbound)
    BY <1>2, <2>1, <2>2, ExceptSeq DEF AnswerInv
  <2> QED BY <1>1, <1>2, <2>3
<1>4. k \in Kinds
  BY <1>2 DEF Inbound
<1> DEFINE base == IF Len(rxbuf) = RxCap THEN Tail(rxbuf) ELSE rxbuf
<1>5. base \in Seq(Kinds) /\ Cardinality(CmdsIn(base)) <= Cardinality(CmdsIn(rxbuf))
      /\ Cardinality(CmdsIn(base)) \in Nat
  <2>1. CASE Len(rxbuf) = RxCap
    <3>1. rxbuf # <<>> /\ rxbuf \in Seq(Kinds)
      BY <2>1, CapAssumption DEF AnswerInv
    <3>2. Tail(rxbuf) \in Seq(Kinds)
      BY <3>1, HeadTailProperties
    <3>3. Cardinality(CmdsIn(Tail(rxbuf))) \in Nat
      BY <3>2, CmdsFinite
    <3>4. Cardinality(CmdsIn(Tail(rxbuf))) + (IF Head(rxbuf) \in HasCmd THEN 1 ELSE 0)
            <= Cardinality(CmdsIn(rxbuf))
      BY <3>1, CmdsTail
    <3> QED BY <2>1, <3>2, <3>3, <3>4, RepliesFinite
  <2>2. CASE Len(rxbuf) # RxCap
    BY <2>2, RepliesFinite DEF AnswerInv
  <2> QED BY <2>1, <2>2
<1>6. rxbuf' = Append(base, k)
  BY <1>1 DEF PushTo
<1> HIDE DEF base
<1>7. rxbuf' \in Seq(Kinds)
  BY <1>4, <1>5, <1>6, AppendProperties
<1>8. Cardinality(CmdsIn(rxbuf')) = Cardinality(CmdsIn(base)) + n
  BY <1>4, <1>5, <1>6, CmdsAppend
<1>9. Cardinality(replies) + Debt + Cardinality(CmdsIn(rxbuf)) <= taken /\ taken \in Nat
  BY DEF AnswerInv
<1>10. n \in {0, 1}
  OBVIOUS
<1> HIDE DEF n
<1>11. Cardinality(replies) + Debt + Cardinality(CmdsIn(rxbuf')) <= taken' /\ taken' \in Nat
  BY <1>1, <1>5, <1>8, <1>9, <1>10, RepliesFinite
<1> QED BY <1>1, <1>3, <1>7, <1>11 DEF AnswerInv, Debt

\* The application takes a message and decides to respond.
LEMMA AnswerRecv ==
  ASSUME AnswerInv, CloudRecv
  PROVE  AnswerInv'
<1>1. /\ apc = "recv"
      /\ apc' = IF rxbuf # <<>> /\ Head(rxbuf) \in Answered THEN "respond" ELSE "update"
      /\ rxbuf' = Pop(rxbuf)
      /\ UNCHANGED <<replies, taken, queued, inbox, cloudPos>>
  BY DEF CloudRecv, hist, net
<1>2. CASE rxbuf = <<>>
  BY <1>1, <1>2 DEF AnswerInv, Pop, Debt, CmdsIn
<1>3. CASE rxbuf # <<>>
  <2>1. rxbuf' = Tail(rxbuf) /\ rxbuf' \in Seq(Kinds)
    BY <1>1, <1>3, HeadTailProperties DEF Pop, AnswerInv
  <2>2. Cardinality(CmdsIn(rxbuf')) + (IF Head(rxbuf) \in HasCmd THEN 1 ELSE 0)
          <= Cardinality(CmdsIn(rxbuf))
    BY <1>3, <2>1, CmdsTail DEF AnswerInv
  <2>3. Cardinality(CmdsIn(rxbuf')) \in Nat
    BY <2>1, CmdsFinite
  <2>4. Debt = 0 /\ Debt' = (IF Head(rxbuf) \in Answered THEN 1 ELSE 0)
    BY <1>1, <1>3 DEF Debt
  <2>5. Head(rxbuf) \in Answered => Head(rxbuf) \in HasCmd
    BY DEF Answered, HasCmd
  <2>6. Cardinality(replies) + Debt + Cardinality(CmdsIn(rxbuf)) <= taken /\ taken \in Nat
    BY DEF AnswerInv
  <2>7. Cardinality(replies) + Debt' + Cardinality(CmdsIn(rxbuf')) <= taken
    BY <2>2, <2>3, <2>4, <2>5, <2>6, RepliesFinite
  <2>8. /\ queued' \in Nat /\ inbox' \in Seq(Inbound) /\ taken' \in Nat /\ cloudPos' \in Nat
        /\ replies' \subseteq 1..queued'
    BY <1>1 DEF AnswerInv
  <2>9. Cardinality(replies') + Debt' + Cardinality(CmdsIn(rxbuf')) <= taken'
    BY <1>1, <2>7
  <2> QED BY <2>1, <2>8, <2>9 DEF AnswerInv
<1> QED BY <1>2, <1>3

\* The response is queued under a number of its own.
LEMMA AnswerRespond ==
  ASSUME AnswerInv, CloudRespond
  PROVE  AnswerInv'
<1>1. /\ apc = "respond" /\ apc' = "update" /\ queued' = queued + 1
      /\ replies' = replies \cup {queued + 1}
      /\ UNCHANGED <<rxbuf, inbox, taken, cloudPos>>
  BY DEF CloudRespond, mqtt_queue_txbuf, net
<1>2. queued + 1 \notin replies /\ replies' \subseteq 1..queued' /\ queued' \in Nat
  BY <1>1 DEF AnswerInv
<1>3. Cardinality(replies') = Cardinality(replies) + 1
  BY <1>1, <1>2, RepliesFinite, FS_AddElement
<1>4. Debt = 1 /\ Debt' = 0
  BY <1>1 DEF Debt
<1>5. Cardinality(replies) + Debt + Cardinality(CmdsIn(rxbuf)) <= taken
  BY DEF AnswerInv
<1>6. Cardinality(replies') + Debt' + Cardinality(CmdsIn(rxbuf)) <= taken
  BY <1>3, <1>4, <1>5, RepliesFinite
<1>7. CmdsIn(rxbuf') = CmdsIn(rxbuf)
  BY <1>1 DEF CmdsIn
<1> QED BY <1>1, <1>2, <1>6, <1>7 DEF AnswerInv

\* The response that the broker sends back has no "cmd".
LEMMA EchoType ==
  ASSUME AnswerInv, NEW i
  PROVE  inbox \o Echo(i) \in Seq(Inbound)
<1>1. [kind |-> "other", freed |-> FALSE] \in Inbound
  BY DEF Inbound, Kinds
<1>2. Echo(i) \in Seq(Inbound)
  BY <1>1, EmptySeq DEF Echo
<1> QED BY <1>2, ConcatProperties DEF AnswerInv

\* The invariant is preserved by every step.
LEMMA AnswerStep ==
  ASSUME AnswerInv, [Next]_vars
  PROVE  AnswerInv'
<1> USE DEF net, hist, app, bufs
<1>1. <<>> \in Seq(Inbound) /\ inbox \in Seq(Inbound) /\ queued \in Nat /\ cloudPos \in Nat
  BY EmptySeq DEF AnswerInv
<1>2. CASE SmEntry \/ OfflineCmdReady \/ OfflineCount \/ Connect \/ Subscribe \/ ConnectFailed
           \/ ConnectDone \/ ReadyCmdOffline \/ ReadyConnLost \/ ReadyPeek \/ PubFailed \/ Pub
           \/ WaitFailed \/ WaitDone \/ DequeueTx \/ mqtt_connlost \/ ConnectionBreaks
           \/ (\E c \in SmCmds : mqtt_send_sm_cmd(c)) \/ UNCHANGED vars
  <2>1. UNCHANGED <<apc, rxbuf, replies, taken, queued, cloudPos>>
    BY <1>2 DEF SmEntry, OfflineCmdReady, OfflineCount, Connect, Subscribe, ConnectFailed,
                ConnectDone, ReadyCmdOffline, ReadyConnLost, ReadyPeek, PubFailed, Pub,
                WaitFailed, WaitDone, DequeueTx, mqtt_connlost, ConnectionBreaks,
                mqtt_send_sm_cmd, vars
  <2>2. inbox' = inbox \/ inbox' = <<>>
    BY <1>2 DEF SmEntry, OfflineCmdReady, OfflineCount, Connect, Subscribe, ConnectFailed,
                ConnectDone, ReadyCmdOffline, ReadyConnLost, ReadyPeek, PubFailed, Pub,
                WaitFailed, WaitDone, DequeueTx, mqtt_connlost, ConnectionBreaks,
                mqtt_send_sm_cmd, vars, BreakConnection, DestroyClient, MQTTClient_destroy
  <2>3. queued' \in Nat /\ queued <= queued' /\ cloudPos' \in Nat
    BY <1>1, <2>1
  <2>4. inbox' \in Seq(Inbound)
    BY <1>1, <2>2
  <2> QED BY <2>1, <2>3, <2>4, AnswerFrame
<1>3. CASE ThreadStart
  <2>1. rxbuf' = <<>> /\ UNCHANGED <<apc, replies, taken, queued, inbox, cloudPos>>
    BY <1>3 DEF ThreadStart
  <2>2. CmdsIn(rxbuf') = {} /\ rxbuf' \in Seq(Kinds)
    BY <2>1, EmptySeq DEF CmdsIn
  <2>3. Cardinality(CmdsIn(rxbuf')) = 0
    BY <2>2, FS_EmptySet
  <2>4. Cardinality(replies) + Debt + Cardinality(CmdsIn(rxbuf)) <= taken /\ taken \in Nat
    BY DEF AnswerInv
  <2>5. Cardinality(replies) + Debt + 0 <= taken
    BY <2>4, RepliesFinite
  <2> QED BY <2>1, <2>2, <2>3, <2>5 DEF AnswerInv, Debt
<1>4. ASSUME NEW r \in MsgArrvdReturns, mqtt_msgarrvd(r)
      PROVE  AnswerInv'
  BY <1>4, AnswerArrived
<1>5. CASE CloudRecv
  BY <1>5, AnswerRecv
<1>6. CASE CloudRespond
  BY <1>6, AnswerRespond
<1>7. CASE cloud_update
  <2>1. apc = "update" /\ apc' = "recv" /\ (queued' = queued \/ queued' = queued + 1)
        /\ UNCHANGED <<rxbuf, replies, taken, inbox, cloudPos>>
    BY <1>7 DEF cloud_update, mqtt_queue_txbuf
  <2>2. Debt = 0 /\ Debt' = 0
    BY <2>1 DEF Debt
  <2>3. replies' \subseteq 1..queued' /\ queued' \in Nat
    BY <1>1, <2>1 DEF AnswerInv
  <2> QED BY <2>1, <2>2, <2>3 DEF AnswerInv, CmdsIn
<1>8. CASE BrokerReceive
  <2>1. inbox' \in Seq(Inbound)
    BY <1>8, EchoType DEF BrokerReceive
  <2> QED BY <1>1, <1>8, <2>1, AnswerFrame DEF BrokerReceive
<1>9. CASE BrokerReceiveLate
  <2>1. PICK i \in stale : inbox' = IF connected THEN inbox \o Echo(i) ELSE inbox
    BY <1>9 DEF BrokerReceiveLate
  <2>2. inbox' \in Seq(Inbound)
    BY <1>1, <2>1, EchoType
  <2> QED BY <1>1, <1>9, <2>2, AnswerFrame DEF BrokerReceiveLate
<1>10. CASE CloudSends
  <2>1. /\ cloudPos < Len(CloudMsgs) /\ cloudPos' = cloudPos + 1
        /\ inbox' = Append(inbox, [kind |-> CloudMsgs[cloudPos + 1], freed |-> FALSE])
        /\ UNCHANGED <<apc, rxbuf, replies, taken, queued>>
    BY <1>10 DEF CloudSends
  <2>2. Len(CloudMsgs) \in Nat
    BY CloudAssumption, LenProperties
  <2>3. cloudPos + 1 \in 1..Len(CloudMsgs)
    BY <1>1, <2>1, <2>2
  <2>4. CloudMsgs[cloudPos + 1] \in Kinds
    BY <2>3, CloudAssumption, ElementOfSeq
  <2>5. [kind |-> CloudMsgs[cloudPos + 1], freed |-> FALSE] \in Inbound
    BY <2>4 DEF Inbound
  <2>6. inbox' \in Seq(Inbound)
    BY <1>1, <2>1, <2>5, AppendProperties
  <2> QED BY <1>1, <2>1, <2>6, AnswerFrame
<1> QED BY NextSplit, <1>2, <1>3, <1>4, <1>5, <1>6, <1>7, <1>8, <1>9, <1>10

\* The program responds at most as often as messages with a "cmd" reached
\* mqtt_msgarrvd, whatever the broker, the network and the callback's
\* undefined result make of them, and never to its own responses.
THEOREM RespondsOnce == Spec => []AnsweredOnce
<1>1. Init => AnswerInv
  <2> SUFFICES ASSUME Init PROVE AnswerInv
    OBVIOUS
  <2>1. CmdsIn(rxbuf) = {} /\ rxbuf \in Seq(Kinds) /\ inbox \in Seq(Inbound)
    BY EmptySeq DEF Init, CmdsIn
  <2>2. Cardinality(CmdsIn(rxbuf)) = 0 /\ Cardinality(replies) = 0
    BY <2>1, FS_EmptySet DEF Init
  <2> QED BY <2>1, <2>2 DEF Init, AnswerInv, Debt
<1>2. AnswerInv /\ [Next]_vars => AnswerInv'
  BY AnswerStep
<1>3. AnswerInv => AnsweredOnce
  <2> SUFFICES ASSUME AnswerInv PROVE AnsweredOnce
    OBVIOUS
  <2>1. Cardinality(replies) + Debt + Cardinality(CmdsIn(rxbuf)) <= taken /\ taken \in Nat
    BY DEF AnswerInv
  <2> QED BY <2>1, RepliesFinite DEF AnsweredOnce
<1> QED BY <1>1, <1>2, <1>3, PTL DEF Spec
-----------------------------------------------------------------------------
(* The queue under the link, for every SIZE and every element type: its    *)
(* index arithmetic implements the drop-oldest queue, and the dequeue_arr  *)
(* loop neither reorders nor loses elements.                               *)

\* At most one of the two loops is under way.
OneLoop == todo # <<>> => want = 0

IInv == TypeOK /\ Written /\ OneLoop /\ DequeueArrKeepsAll
-----------------------------------------------------------------------------
(* Arithmetic of "& MASK", for arbitrary head h and tail t.                *)

\* Masked values, without the remainder, in the range the code uses.
LEMMA MaskValue ==
  ASSUME NEW i \in (1 - SIZE)..(2 * SIZE - 1)
  PROVE  /\ Mask(i) = IF i < 0 THEN i + SIZE ELSE IF i < SIZE THEN i ELSE i - SIZE
         /\ Mask(i) \in Slot
<1>1. CASE i < 0
  BY <1>1, SizeAssumption DEF Mask, Slot
<1>2. CASE i >= 0 /\ i < SIZE
  BY <1>2, SizeAssumption DEF Mask, Slot
<1>3. CASE i >= SIZE
  BY <1>3, SizeAssumption DEF Mask, Slot
<1> QED BY <1>1, <1>2, <1>3, SizeAssumption

\* num_items, as a function of the two indices.
LEMMA CountValue ==
  ASSUME NEW h \in Slot, NEW t \in Slot
  PROVE  /\ Mask(h - t) = IF h < t THEN h - t + SIZE ELSE h - t
         /\ Mask(h - t) \in Slot
<1>1. h - t \in (1 - SIZE)..(2 * SIZE - 1)
  BY SizeAssumption DEF Slot
<1> QED BY <1>1, MaskValue, SizeAssumption DEF Slot

\* The slot of the i-th oldest element.
LEMMA SlotValue ==
  ASSUME NEW t \in Slot, NEW i \in 1..SIZE
  PROVE  /\ Mask(t + (i - 1)) = IF t + (i - 1) < SIZE THEN t + (i - 1) ELSE t + (i - 1) - SIZE
         /\ Mask(t + (i - 1)) \in Slot
<1>1. t + (i - 1) \in (1 - SIZE)..(2 * SIZE - 1)
  BY SizeAssumption DEF Slot
<1> QED BY <1>1, MaskValue, SizeAssumption DEF Slot

\* The slot after a slot.
LEMMA SuccValue ==
  ASSUME NEW h \in Slot
  PROVE  /\ Mask(h + 1) = IF h + 1 < SIZE THEN h + 1 ELSE 0
         /\ Mask(h + 1) \in Slot
<1>1. h + 1 \in (1 - SIZE)..(2 * SIZE - 1)
  BY SizeAssumption DEF Slot
<1> QED BY <1>1, MaskValue, SizeAssumption DEF Slot

\* Queueing into a buffer that is not full: one element more, in slot h.
LEMMA GrowArith ==
  ASSUME NEW h \in Slot, NEW t \in Slot, Mask(h - t) # SIZE - 1
  PROVE  /\ Mask(Mask(h + 1) - t) = Mask(h - t) + 1
         /\ Mask(t + ((Mask(h - t) + 1) - 1)) = h
         /\ \A i \in 1..Mask(h - t) : Mask(t + (i - 1)) \in Slot \ {h}
<1> DEFINE u == Mask(h + 1)
           n == Mask(h - t)
<1>1. u \in Slot /\ u = IF h + 1 < SIZE THEN h + 1 ELSE 0
  BY SuccValue
<1>2. n \in Slot /\ n = IF h < t THEN h - t + SIZE ELSE h - t
  BY CountValue
<1>3. n # SIZE - 1
  OBVIOUS
<1> HIDE DEF u, n
<1>4. Mask(u - t) = n + 1
  <2>1. Mask(u - t) = IF u < t THEN u - t + SIZE ELSE u - t
    BY <1>1, CountValue
  <2> QED BY <2>1, <1>1, <1>2, <1>3, SizeAssumption DEF Slot
<1>5. Mask(t + ((n + 1) - 1)) = h
  <2>1. n + 1 \in 1..SIZE
    BY <1>2, SizeAssumption DEF Slot
  <2>2. Mask(t + ((n + 1) - 1)) =
          IF t + ((n + 1) - 1) < SIZE THEN t + ((n + 1) - 1) ELSE t + ((n + 1) - 1) - SIZE
    BY <2>1, SlotValue
  <2> QED BY <2>2, <1>2, SizeAssumption DEF Slot
<1>6. ASSUME NEW i \in 1..n
      PROVE  Mask(t + (i - 1)) \in Slot \ {h}
  <2>1. i \in 1..SIZE
    BY <1>2, SizeAssumption DEF Slot
  <2>2. /\ Mask(t + (i - 1)) = IF t + (i - 1) < SIZE THEN t + (i - 1) ELSE t + (i - 1) - SIZE
        /\ Mask(t + (i - 1)) \in Slot
    BY <2>1, SlotValue
  <2> QED BY <2>2, <1>2, SizeAssumption DEF Slot
<1> QED BY <1>4, <1>5, <1>6 DEF u, n

\* Giving up the oldest element: the others keep their slots.
LEMMA ShrinkArith ==
  ASSUME NEW h \in Slot, NEW t \in Slot, h # t
  PROVE  /\ Mask(h - t) \in 1..(SIZE - 1)
         /\ Mask(h - Mask(t + 1)) = Mask(h - t) - 1
         /\ \A i \in 1..(Mask(h - t) - 1) : Mask(Mask(t + 1) + (i - 1)) = Mask(t + ((i + 1) - 1))
         /\ Mask(t + (1 - 1)) = t
<1>1. Mask(h - t) \in 1..(SIZE - 1)
  <2>1. Mask(h - t) = IF h < t THEN h - t + SIZE ELSE h - t
    BY CountValue
  <2> QED BY <2>1, SizeAssumption DEF Slot
<1>2. Mask(h - Mask(t + 1)) = Mask(h - t) - 1
  <2> DEFINE u == Mask(t + 1)
  <2>1. u \in Slot /\ u = IF t + 1 < SIZE THEN t + 1 ELSE 0
    BY SuccValue
  <2> HIDE DEF u
  <2>2. Mask(h - u) = IF h < u THEN h - u + SIZE ELSE h - u
    BY <2>1, CountValue
  <2>3. Mask(h - t) = IF h < t THEN h - t + SIZE ELSE h - t
    BY CountValue
  <2>4. Mask(h - u) = Mask(h - t) - 1
    BY <2>1, <2>2, <2>3, SizeAssumption DEF Slot
  <2> QED BY <2>4 DEF u
<1>3. ASSUME NEW i \in 1..(Mask(h - t) - 1)
      PROVE  Mask(Mask(t + 1) + (i - 1)) = Mask(t + ((i + 1) - 1))
  <2>1. i \in 1..SIZE /\ i + 1 \in 1..SIZE
    BY <1>1, SizeAssumption
  <2> QED BY <2>1, SlotValue, SuccValue, SizeAssumption DEF Slot
<1>4. Mask(t + (1 - 1)) = t
  <2>1. 1 \in 1..SIZE /\ t + (1 - 1) = t
    BY SizeAssumption DEF Slot
  <2> QED BY <2>1, SlotValue, SizeAssumption DEF Slot
<1> QED BY <1>1, <1>2, <1>3, <1>4
-----------------------------------------------------------------------------
(* The elements of a buffer b with head h and tail t, whatever its state.  *)

Items(b, h, t) == [i \in 1..Mask(h - t) |-> b[Mask(t + (i - 1))]]

AllWritten(b, h, t) == \A i \in 1..Mask(h - t) : b[Mask(t + (i - 1))] \in Elem

Buffers == [Slot -> Elem \cup {Garbage}]

\* A function on 1..n is a sequence of length n.
LEMMA FunIsSeq ==
  ASSUME NEW S, NEW n \in Nat, NEW f \in [1..n -> S]
  PROVE  f \in Seq(S) /\ Len(f) = n
<1>1. f \in Seq(S)
  BY SeqDef
<1>2. DOMAIN f = 1..n /\ DOMAIN f = 1..Len(f) /\ Len(f) \in Nat
  BY <1>1, LenProperties
<1> QED BY <1>1, <1>2

\* The items are a sequence as long as the masked index difference.
LEMMA ItemsSeq ==
  ASSUME NEW b \in Buffers, NEW h \in Slot, NEW t \in Slot, AllWritten(b, h, t)
  PROVE  /\ Items(b, h, t) \in Seq(Elem)
         /\ Len(Items(b, h, t)) = Mask(h - t)
         /\ Mask(h - t) \in Slot
         /\ Mask(h - t) \in Nat
<1>1. Mask(h - t) \in Slot
  BY CountValue
<1>2. Mask(h - t) \in Nat
  BY <1>1, SizeAssumption DEF Slot
<1>3. Items(b, h, t) \in [1..Mask(h - t) -> Elem]
  BY DEF Items, AllWritten
<1>4. Items(b, h, t) \in Seq(Elem) /\ Len(Items(b, h, t)) = Mask(h - t)
  BY <1>2, <1>3, FunIsSeq
<1> QED BY <1>1, <1>2, <1>4

\* Equal indices are an empty sequence.
LEMMA ItemsEmpty ==
  ASSUME NEW b \in Buffers, NEW h \in Slot, NEW t \in Slot, AllWritten(b, h, t)
  PROVE  h = t <=> Items(b, h, t) = <<>>
<1>1. Mask(h - t) = IF h < t THEN h - t + SIZE ELSE h - t
  BY CountValue
<1>2. Mask(h - t) = 0 <=> h = t
  BY <1>1, SizeAssumption DEF Slot
<1> QED BY <1>2, ItemsSeq, EmptySeq

\* Writing slot h of a buffer that is not full and moving the head appends.
LEMMA Grow ==
  ASSUME NEW b \in Buffers, NEW h \in Slot, NEW t \in Slot, AllWritten(b, h, t),
         NEW d \in Elem, Mask(h - t) # SIZE - 1
  PROVE  /\ AllWritten([b EXCEPT ![h] = d], Mask(h + 1), t)
         /\ Items([b EXCEPT ![h] = d], Mask(h + 1), t) = Append(Items(b, h, t), d)
<1> DEFINE n == Mask(h - t)
           c == [b EXCEPT ![h] = d]
           s == Items(b, h, t)
           r == Items(c, Mask(h + 1), t)
<1>1. n \in Nat /\ s \in Seq(Elem) /\ Len(s) = n
  BY ItemsSeq
<1>2. /\ Mask(Mask(h + 1) - t) = n + 1
      /\ Mask(t + ((n + 1) - 1)) = h
      /\ \A i \in 1..n : Mask(t + (i - 1)) \in Slot \ {h}
  BY GrowArith
<1>3. /\ \A i \in 1..n : c[Mask(t + (i - 1))] = b[Mask(t + (i - 1))]
      /\ c[Mask(t + ((n + 1) - 1))] = d
  BY <1>2 DEF Buffers
<1>4. \A i \in 1..n : b[Mask(t + (i - 1))] \in Elem /\ s[i] = b[Mask(t + (i - 1))]
  BY DEF AllWritten, Items
<1>5. r = [i \in 1..(n + 1) |-> c[Mask(t + (i - 1))]]
  BY <1>2 DEF Items
<1>6. AllWritten(c, Mask(h + 1), t) <=> \A i \in 1..(n + 1) : c[Mask(t + (i - 1))] \in Elem
  BY <1>2 DEF AllWritten
<1> HIDE DEF n, c, s, r
<1>7. \A i \in 1..(n + 1) : i \in 1..n \/ i = n + 1
  BY <1>1
<1>8. AllWritten(c, Mask(h + 1), t)
  BY <1>3, <1>4, <1>6, <1>7
<1>9. r \in Seq(Elem) /\ Len(r) = n + 1
  <2>1. r \in [1..(n + 1) -> Elem]
    BY <1>3, <1>4, <1>5, <1>7
  <2> QED BY <2>1, <1>1, FunIsSeq
<1>10. /\ Append(s, d) \in Seq(Elem)
       /\ Len(Append(s, d)) = n + 1
       /\ \A i \in 1..n : Append(s, d)[i] = s[i]
       /\ Append(s, d)[n + 1] = d
  BY <1>1, AppendProperties
<1>11. \A i \in 1..(n + 1) : r[i] = Append(s, d)[i]
  BY <1>3, <1>4, <1>5, <1>7, <1>10
<1>12. r = Append(s, d)
  BY <1>9, <1>10, <1>11, SeqEqual
<1> QED BY <1>8, <1>12 DEF n, c, s, r

\* Moving the tail of a buffer that is not empty takes its oldest element.
LEMMA Shrink ==
  ASSUME NEW b \in Buffers, NEW h \in Slot, NEW t \in Slot, AllWritten(b, h, t), h # t
  PROVE  /\ AllWritten(b, h, Mask(t + 1))
         /\ Items(b, h, Mask(t + 1)) = Tail(Items(b, h, t))
         /\ b[t] = Items(b, h, t)[1]
         /\ b[t] = Head(Items(b, h, t))
         /\ b[t] \in Elem
<1> DEFINE n == Mask(h - t)
           u == Mask(t + 1)
           s == Items(b, h, t)
           r == Items(b, h, u)
<1>1. n \in Nat /\ n \in 1..(SIZE - 1) /\ s \in Seq(Elem) /\ Len(s) = n /\ s # <<>>
  BY ItemsSeq, ItemsEmpty, ShrinkArith
<1>2. u \in Slot
  BY SuccValue
<1>3. /\ Mask(h - u) = n - 1
      /\ \A i \in 1..(n - 1) : Mask(u + (i - 1)) = Mask(t + ((i + 1) - 1))
      /\ Mask(t + (1 - 1)) = t
  BY ShrinkArith
<1>4. \A i \in 1..n : b[Mask(t + (i - 1))] \in Elem /\ s[i] = b[Mask(t + (i - 1))]
  BY DEF AllWritten, Items
<1>5. AllWritten(b, h, u) <=> \A i \in 1..(n - 1) : b[Mask(u + (i - 1))] \in Elem
  BY <1>3 DEF AllWritten
<1>6. r = [i \in 1..(n - 1) |-> b[Mask(u + (i - 1))]]
  BY <1>3 DEF Items
<1> HIDE DEF n, u, s, r
<1>7. \A i \in 1..(n - 1) : i + 1 \in 1..n
  BY <1>1
<1>8. \A i \in 1..(n - 1) : b[Mask(u + (i - 1))] \in Elem /\ b[Mask(u + (i - 1))] = s[i + 1]
  BY <1>3, <1>4, <1>7
<1>9. AllWritten(b, h, u)
  BY <1>5, <1>8
<1>10. r \in Seq(Elem) /\ Len(r) = n - 1
  <2>1. r \in [1..(n - 1) -> Elem] /\ n - 1 \in Nat
    BY <1>1, <1>6, <1>8
  <2> QED BY <2>1, FunIsSeq
<1>11. /\ Tail(s) \in Seq(Elem)
       /\ Len(Tail(s)) = n - 1
       /\ \A i \in 1..(n - 1) : Tail(s)[i] = s[i + 1]
  BY <1>1, HeadTailProperties
<1>12. \A i \in 1..(n - 1) : r[i] = Tail(s)[i]
  BY <1>6, <1>8, <1>11
<1>13. r = Tail(s)
  BY <1>10, <1>11, <1>12, SeqEqual
<1>14. 1 \in 1..n
  BY <1>1
<1>15. b[t] = s[1] /\ b[t] \in Elem
  BY <1>3, <1>4, <1>14
<1>16. Head(s) = s[1]
  BY <1>1
<1> QED BY <1>9, <1>13, <1>15, <1>16 DEF n, u, s, r
-----------------------------------------------------------------------------
(* The operations, seen as operations on the contents.                     *)

\* The facts the operations need about the current state.
LEMMA StateFacts ==
  ASSUME TypeOK, Written
  PROVE  /\ buffer \in Buffers /\ head_index \in Slot /\ tail_index \in Slot
         /\ AllWritten(buffer, head_index, tail_index)
         /\ Contents = Items(buffer, head_index, tail_index)
         /\ Contents \in Seq(Elem)
         /\ Len(Contents) = num_items
         /\ num_items \in Slot
         /\ is_full <=> Len(Contents) = SIZE - 1
         /\ is_empty <=> Contents = <<>>
<1>1. buffer \in Buffers /\ head_index \in Slot /\ tail_index \in Slot
  BY DEF TypeOK, Buffers
<1>2. /\ AllWritten(buffer, head_index, tail_index)
      /\ Contents = Items(buffer, head_index, tail_index)
      /\ num_items = Mask(head_index - tail_index)
  BY DEF Written, AllWritten, Contents, Items, num_items
<1>3. Contents \in Seq(Elem) /\ Len(Contents) = num_items /\ num_items \in Slot
  BY <1>1, <1>2, ItemsSeq
<1>4. is_empty <=> Contents = <<>>
  BY <1>1, <1>2, ItemsEmpty DEF is_empty
<1> QED BY <1>1, <1>2, <1>3, <1>4 DEF is_full

\* Contents and Written depend on the buffer and the two indices only.
LEMMA NextState ==
  /\ Contents' = Items(buffer', head_index', tail_index')
  /\ Written' <=> AllWritten(buffer', head_index', tail_index')
  BY DEF num_items, Contents, Written, Items, AllWritten, Mask

\* queue is Push.
LEMMA PlaceIsPush ==
  ASSUME TypeOK, Written, NEW d \in Elem, Place(d)
  PROVE  /\ Contents' = Fifo!Push(Contents, d)
         /\ Written'
         /\ buffer' \in Buffers /\ head_index' \in Slot /\ tail_index' \in Slot
<1>1. buffer' \in Buffers /\ head_index' \in Slot /\ buffer' = [buffer EXCEPT ![head_index] = d]
      /\ head_index' = Mask(head_index + 1)
  BY StateFacts, SuccValue DEF Place, Buffers
<1>2. CASE is_full
  <2>1. tail_index' = Mask(tail_index + 1) /\ tail_index' \in Slot
    BY <1>2, StateFacts, SuccValue DEF Place
  <2>2. head_index # tail_index
    <3>1. Contents # <<>>
      BY <1>2, StateFacts, EmptySeq, SizeAssumption
    <3> QED BY <3>1, StateFacts DEF is_empty
  <2>3. /\ AllWritten(buffer, head_index, tail_index')
        /\ Items(buffer, head_index, tail_index') = Tail(Contents)
    BY <2>1, <2>2, StateFacts, Shrink
  <2>4. Mask(head_index - tail_index') # SIZE - 1
    <3>1. Mask(head_index - tail_index') = num_items - 1
      BY <2>1, <2>2, StateFacts, ShrinkArith DEF num_items
    <3> QED BY <3>1, StateFacts, SizeAssumption DEF Slot
  <2>5. /\ AllWritten(buffer', head_index', tail_index')
        /\ Items(buffer', head_index', tail_index') = Append(Tail(Contents), d)
    <3>1. /\ AllWritten([buffer EXCEPT ![head_index] = d], Mask(head_index + 1), tail_index')
          /\ Items([buffer EXCEPT ![head_index] = d], Mask(head_index + 1), tail_index')
               = Append(Items(buffer, head_index, tail_index'), d)
      BY <2>1, <2>3, <2>4, StateFacts, Grow
    <3> QED BY <1>1, <2>3, <3>1, StateFacts
  <2>6. Fifo!Push(Contents, d) = Append(Tail(Contents), d)
    BY <1>2, StateFacts DEF Fifo!Push, Fifo!PushTo
  <2> QED BY <1>1, <2>1, <2>5, <2>6, NextState
<1>3. CASE ~is_full
  <2>1. tail_index' = tail_index /\ tail_index' \in Slot
    BY <1>3, StateFacts DEF Place
  <2>2. Mask(head_index - tail_index) # SIZE - 1
    BY <1>3 DEF is_full, num_items
  <2>3. /\ AllWritten(buffer', head_index', tail_index')
        /\ Items(buffer', head_index', tail_index') = Append(Contents, d)
    <3>1. /\ AllWritten([buffer EXCEPT ![head_index] = d], Mask(head_index + 1), tail_index)
          /\ Items([buffer EXCEPT ![head_index] = d], Mask(head_index + 1), tail_index)
               = Append(Items(buffer, head_index, tail_index), d)
      BY <2>2, StateFacts, Grow
    <3> QED BY <1>1, <2>1, <3>1, StateFacts
  <2>4. Fifo!Push(Contents, d) = Append(Contents, d)
    BY <1>3, StateFacts DEF Fifo!Push, Fifo!PushTo
  <2> QED BY <1>1, <2>1, <2>3, <2>4, NextState
<1> QED BY <1>2, <1>3

\* dequeue is Pop, and answers with the oldest element.
LEMMA TakeIsPop ==
  ASSUME TypeOK, Written, Take
  PROVE  /\ Contents' = Fifo!Pop(Contents)
         /\ out' = Fifo!ItemAt(Contents, 0)
         /\ Written'
         /\ buffer' \in Buffers /\ head_index' \in Slot /\ tail_index' \in Slot
         /\ out' \in Seq(Elem)
         /\ ~is_empty => out' = <<Head(Contents)>> /\ Contents' = Tail(Contents)
<1>1. buffer' = buffer /\ head_index' = head_index
  BY DEF Take
<1>2. CASE is_empty
  <2>1. tail_index' = tail_index /\ out' = <<>>
    BY <1>2 DEF Take
  <2>2. Contents = <<>> /\ Len(Contents) = 0
    BY <1>2, StateFacts
  <2>3. Contents' = Contents /\ Written'
    BY <1>1, <2>1, StateFacts, NextState
  <2>4. Fifo!Pop(Contents) = Contents /\ Fifo!ItemAt(Contents, 0) = <<>>
    BY <2>2 DEF Fifo!Pop, Fifo!ItemAt
  <2> QED BY <1>1, <1>2, <2>1, <2>3, <2>4, StateFacts, EmptySeq
<1>3. CASE ~is_empty
  <2>1. tail_index' = Mask(tail_index + 1) /\ tail_index' \in Slot /\ out' = <<buffer[tail_index]>>
    BY <1>3, StateFacts, SuccValue DEF Take
  <2>2. /\ AllWritten(buffer', head_index', tail_index')
        /\ Items(buffer', head_index', tail_index') = Tail(Contents)
        /\ buffer[tail_index] = Contents[1]
        /\ buffer[tail_index] = Head(Contents)
        /\ buffer[tail_index] \in Elem
    BY <1>1, <1>3, <2>1, StateFacts, Shrink DEF is_empty
  <2>3. Contents # <<>> /\ Len(Contents) > 0
    BY <1>3, StateFacts, EmptySeq, LenProperties
  <2>4. Fifo!Pop(Contents) = Tail(Contents) /\ Fifo!ItemAt(Contents, 0) = <<Contents[1]>>
    BY <2>3 DEF Fifo!Pop, Fifo!ItemAt
  <2>5. out' \in Seq(Elem)
    BY <2>1, <2>2
  <2> QED BY <1>1, <2>1, <2>2, <2>4, <2>5, StateFacts, NextState
<1> QED BY <1>2, <1>3

\* peek reads the item at its index.
LEMMA PeekIsItemAt ==
  ASSUME TypeOK, Written, NEW i \in 0..(SIZE - 1), Peek(i)
  PROVE  out' = Fifo!ItemAt(Contents, i) /\ out' \in Seq(Elem)
<1>1. num_items \in Nat /\ Len(Contents) = num_items
  BY StateFacts, SizeAssumption DEF Slot
<1>2. CASE i >= num_items
  BY <1>1, <1>2 DEF Peek, Fifo!ItemAt
<1>3. CASE i < num_items
  <2>1. i + 1 \in 1..num_items /\ (i + 1) - 1 = i
    BY <1>1, <1>3, SizeAssumption
  <2>2. Contents[i + 1] = buffer[Mask(tail_index + i)]
    BY <2>1 DEF Contents
  <2>3. buffer[Mask(tail_index + i)] \in Elem
    BY <2>1 DEF Written
  <2>4. out' = <<buffer[Mask(tail_index + i)]>>
    BY <1>1, <1>3, SizeAssumption DEF Peek
  <2> QED BY <1>1, <1>3, <2>2, <2>3, <2>4 DEF Fifo!ItemAt
<1> QED BY <1>1, <1>2, <1>3, SizeAssumption
-----------------------------------------------------------------------------
(* The inductive invariant.                                                *)

\* A sequence is its head followed by its tail.
LEMMA HeadTail ==
  ASSUME NEW S, NEW g \in Seq(S), NEW c \in Seq(S), c # <<>>
  PROVE  (g \o <<Head(c)>>) \o Tail(c) = g \o c
<1>1. Head(c) \in S /\ Tail(c) \in Seq(S) /\ <<Head(c)>> \in Seq(S)
  BY HeadTailProperties
<1>2. <<Head(c)>> \o Tail(c) = c
  BY <1>1
<1> QED BY <1>1, <1>2, ConcatAssociative

\* Steps that touch neither the buffer nor its indices.
LEMMA SameContents ==
  ASSUME TypeOK, Written, UNCHANGED <<buffer, head_index, tail_index>>
  PROVE  Contents' = Contents /\ Written'
  BY StateFacts, NextState

\* The inductive invariant is preserved by every step of the code.
LEMMA IInvStep ==
  ASSUME IInv, [RingNext]_ringvars
  PROVE  IInv'
<1> USE DEF IInv
<1>1. TypeOK /\ Written
  OBVIOUS
<1>2. <<>> \in Seq(Elem)
  BY EmptySeq
<1>3. Contents \in Seq(Elem)
  BY StateFacts
<1>0. OneLoop'
  BY DEF RingNext, OneLoop, Idle, RbInit, Queue, Dequeue, Peek, QueueArr, QueueArrStep,
         DequeueArr, DequeueArrStep, loop, ringvars
<1>4. CASE RbInit
  <2>1. buffer' \in Buffers /\ head_index' \in Slot /\ tail_index' \in Slot
    BY <1>4, StateFacts, SizeAssumption DEF RbInit, Slot
  <2>2. TypeOK'
    BY <1>4, <1>2, <2>1 DEF RbInit, TypeOK, Buffers
  <2>3. Written'
    <3>1. Mask(head_index' - tail_index') = 0
      BY <1>4, SizeAssumption DEF RbInit, Mask
    <3> QED BY <3>1, NextState DEF AllWritten
  <2>4. want' = 0
    BY <1>4 DEF RbInit, Idle
  <2> QED BY <1>0, <2>2, <2>3, <2>4 DEF DequeueArrKeepsAll
<1>5. ASSUME NEW d \in Elem, Queue(d)
      PROVE  IInv'
  <2>1. Place(d) /\ UNCHANGED loop /\ want = 0
    BY <1>5 DEF Queue, Idle
  <2>2. Written' /\ buffer' \in Buffers /\ head_index' \in Slot /\ tail_index' \in Slot
    BY <2>1, PlaceIsPush
  <2>3. TypeOK'
    BY <1>2, <2>1, <2>2 DEF TypeOK, Buffers, loop, Place
  <2> QED BY <1>0, <2>1, <2>2, <2>3 DEF DequeueArrKeepsAll, loop
<1>6. CASE Dequeue
  <2>1. Take /\ UNCHANGED loop /\ want = 0
    BY <1>6 DEF Dequeue, Idle
  <2>2. Written' /\ buffer' \in Buffers /\ head_index' \in Slot /\ tail_index' \in Slot
        /\ out' \in Seq(Elem)
    BY <2>1, TakeIsPop
  <2>3. TypeOK'
    BY <2>1, <2>2 DEF TypeOK, Buffers, loop, Take
  <2> QED BY <1>0, <2>1, <2>2, <2>3 DEF DequeueArrKeepsAll, loop
<1>7. ASSUME NEW i \in 0..(SIZE - 1), Peek(i)
      PROVE  IInv'
  <2>1. /\ UNCHANGED <<buffer, head_index, tail_index, todo, want, got, atCall>>
        /\ want = 0 /\ op' = "peek"
    BY <1>7 DEF Peek, idx, loop, Idle
  <2>2. out' \in Seq(Elem)
    BY <1>7, PeekIsItemAt
  <2>3. TypeOK'
    BY <2>1, <2>2 DEF TypeOK
  <2> QED BY <1>0, <2>1, <2>3, SameContents DEF DequeueArrKeepsAll
<1>8. ASSUME NEW n \in 0..MaxArr, NEW ds \in [1..n -> Elem], QueueArr(ds)
      PROVE  IInv'
  <2>1. ds \in Seq(Elem)
    BY FunIsSeq, MaxArrAssumption
  <2>2. UNCHANGED <<buffer, head_index, tail_index, out, op, want, got, atCall>> /\ todo' = ds /\ want = 0
    BY <1>8 DEF QueueArr, idx, Idle
  <2>3. TypeOK'
    BY <2>1, <2>2 DEF TypeOK
  <2> QED BY <1>0, <2>2, <2>3, SameContents DEF DequeueArrKeepsAll
<1>9. CASE QueueArrStep
  <2>1. Head(todo) \in Elem /\ Tail(todo) \in Seq(Elem)
    BY <1>9, HeadTailProperties DEF TypeOK, QueueArrStep
  <2>2. Place(Head(todo)) /\ todo' = Tail(todo) /\ UNCHANGED <<want, got, atCall>>
    BY <1>9 DEF QueueArrStep
  <2>3. Written' /\ buffer' \in Buffers /\ head_index' \in Slot /\ tail_index' \in Slot
    BY <2>1, <2>2, PlaceIsPush
  <2>4. TypeOK'
    BY <1>2, <2>1, <2>2, <2>3 DEF TypeOK, Buffers, Place
  <2>5. want = 0
    BY <1>9 DEF QueueArrStep, OneLoop
  <2> QED BY <1>0, <2>2, <2>3, <2>4, <2>5 DEF DequeueArrKeepsAll
<1>10. ASSUME NEW n \in 0..MaxArr, DequeueArr(n)
       PROVE  IInv'
  <2>1. UNCHANGED <<buffer, head_index, tail_index, out, op, todo>> /\ got' = <<>> /\ atCall' = Contents
    BY <1>10 DEF DequeueArr, idx
  <2>2. want' \in Nat
    BY <1>10, MaxArrAssumption DEF DequeueArr
  <2>3. TypeOK'
    BY <1>2, <1>3, <2>1, <2>2 DEF TypeOK
  <2>4. Contents' = Contents /\ Written'
    BY <2>1, SameContents
  <2>5. got' \o Contents' = atCall'
    BY <1>3, <2>1, <2>4, ConcatEmptySeq
  <2> QED BY <1>0, <2>3, <2>4, <2>5 DEF DequeueArrKeepsAll
<1>11. CASE DequeueArrStep
  <2>1. Take /\ want > 0 /\ got' = got \o out' /\ UNCHANGED <<todo, atCall>>
    BY <1>11 DEF DequeueArrStep
  <2>2. /\ Written' /\ buffer' \in Buffers /\ head_index' \in Slot /\ tail_index' \in Slot
        /\ out' \in Seq(Elem)
        /\ ~is_empty => out' = <<Head(Contents)>> /\ Contents' = Tail(Contents)
    BY <2>1, TakeIsPop
  <2>3. got' \in Seq(Elem) /\ want' \in Nat
    BY <1>11, <2>1, <2>2, ConcatProperties DEF TypeOK, DequeueArrStep
  <2>4. TypeOK'
    BY <2>1, <2>2, <2>3 DEF TypeOK, Buffers, Take
  <2>5. ASSUME want' > 0
        PROVE  got' \o Contents' = atCall'
    <3>1. ~is_empty
      BY <1>11, <2>5 DEF DequeueArrStep
    <3>2. Contents # <<>>
      BY <3>1, StateFacts
    <3>3. got' \o Contents' = got \o Contents
      BY <1>3, <2>1, <2>2, <3>1, <3>2, HeadTail DEF TypeOK
    <3> QED BY <2>1, <3>3 DEF DequeueArrKeepsAll
  <2> QED BY <1>0, <2>2, <2>4, <2>5 DEF DequeueArrKeepsAll
<1>12. CASE UNCHANGED ringvars
  <2>1. UNCHANGED <<buffer, head_index, tail_index>>
    BY <1>12 DEF ringvars
  <2>2. Contents' = Contents /\ Written'
    BY <2>1, SameContents
  <2>3. TypeOK'
    BY <1>12 DEF ringvars, TypeOK
  <2> QED BY <1>0, <1>12, <2>2, <2>3 DEF ringvars, DequeueArrKeepsAll
<1> QED BY <1>4, <1>5, <1>6, <1>7, <1>8, <1>9, <1>10, <1>11, <1>12 DEF RingNext

\* A fresh buffer satisfies the inductive invariant.
LEMMA IInvInit == RingInit => IInv
<1> SUFFICES ASSUME RingInit PROVE IInv
  OBVIOUS
<1>1. TypeOK
  BY SizeAssumption, EmptySeq DEF RingInit, TypeOK, Slot
<1>2. num_items = 0
  BY SizeAssumption DEF RingInit, num_items, Mask
<1>3. Written
  BY <1>2 DEF Written
<1>4. OneLoop /\ DequeueArrKeepsAll
  BY DEF RingInit, OneLoop, DequeueArrKeepsAll
<1> QED BY <1>1, <1>3, <1>4 DEF IInv

\* The indices of mqtt_ringbuffer.c stay inside the buffer and what it
\* returns are elements.
THEOREM TypeCorrect == RingSpec => []TypeOK
<1>1. IInv /\ [RingNext]_ringvars => IInv'
  BY IInvStep
<1>2. IInv => TypeOK
  BY DEF IInv
<1> QED BY IInvInit, <1>1, <1>2, PTL DEF RingSpec

\* No operation of mqtt_ringbuffer.c ever returns a slot that was not
\* written, whatever the indices have wrapped around to.
THEOREM NeverGarbage == RingSpec => []Written
<1>1. IInv /\ [RingNext]_ringvars => IInv'
  BY IInvStep
<1>2. IInv => Written
  BY DEF IInv
<1> QED BY IInvInit, <1>1, <1>2, PTL DEF RingSpec

\* mqtt_ringbuffer_dequeue_arr takes the elements in order and loses none,
\* for every size of the buffer and of the caller's array.
THEOREM DequeueArrSound == RingSpec => []DequeueArrKeepsAll
<1>1. IInv /\ [RingNext]_ringvars => IInv'
  BY IInvStep
<1>2. IInv => DequeueArrKeepsAll
  BY DEF IInv
<1> QED BY IInvInit, <1>1, <1>2, PTL DEF RingSpec
-----------------------------------------------------------------------------
(* The refinement.                                                         *)

\* Every step of the ring buffer is a step of the drop-oldest queue on its
\* contents, or a stutter.
LEMMA FifoStep ==
  ASSUME IInv, [RingNext]_ringvars
  PROVE  [Fifo!Next]_(Fifo!vars)
<1>1. TypeOK /\ Written
  BY DEF IInv
<1> USE DEF Fifo!Next, Fifo!vars
<1>2. CASE RbInit
  <2>1. Mask(head_index' - tail_index') = 0
    BY <1>2, SizeAssumption DEF RbInit, Mask
  <2>2. Contents' = <<>>
    BY <2>1, NextState DEF Items
  <2> QED BY <1>2, <2>2 DEF RbInit, Fifo!Reset
<1>3. ASSUME NEW d \in Elem, Queue(d)
      PROVE  Fifo!Queue(d)
  BY <1>1, <1>3, PlaceIsPush DEF Queue, Place, Fifo!Queue
<1>4. CASE Dequeue
  BY <1>1, <1>4, TakeIsPop DEF Dequeue, Take, Fifo!Dequeue
<1>5. ASSUME NEW i \in 0..(SIZE - 1), Peek(i)
      PROVE  Fifo!Peek(i)
  <2>1. Contents' = Contents
    BY <1>1, <1>5, SameContents DEF Peek, idx
  <2> QED BY <1>1, <1>5, <2>1, PeekIsItemAt DEF Peek, Fifo!Peek
<1>6. ASSUME NEW n \in 0..MaxArr, NEW ds \in [1..n -> Elem], QueueArr(ds)
      PROVE  UNCHANGED Fifo!vars
  BY <1>1, <1>6, SameContents DEF QueueArr, idx
<1>7. CASE QueueArrStep
  <2>1. Head(todo) \in Elem
    BY <1>1, <1>7, HeadTailProperties DEF TypeOK, QueueArrStep
  <2> QED BY <1>1, <1>7, <2>1, PlaceIsPush DEF QueueArrStep, Place, Fifo!Queue
<1>8. ASSUME NEW n \in 0..MaxArr, DequeueArr(n)
      PROVE  UNCHANGED Fifo!vars
  BY <1>1, <1>8, SameContents DEF DequeueArr, idx
<1>9. CASE DequeueArrStep
  BY <1>1, <1>9, TakeIsPop DEF DequeueArrStep, Take, Fifo!Dequeue
<1>10. CASE UNCHANGED ringvars
  BY <1>1, <1>10, SameContents DEF ringvars
<1> QED BY <1>2, <1>3, <1>4, <1>5, <1>6, <1>7, <1>8, <1>9, <1>10 DEF RingNext

\* The index arithmetic of mqtt_ringbuffer.c implements a first-in first-out
\* queue of SIZE - 1 elements that drops its oldest element when it is full.
THEOREM ImplementsFifo == RingSpec => FifoSpec
<1>1. RingInit => Fifo!Init
  <2> SUFFICES ASSUME RingInit PROVE Fifo!Init
    OBVIOUS
  <2>1. num_items = 0
    BY SizeAssumption DEF RingInit, num_items, Mask
  <2>2. Contents = <<>>
    BY <2>1 DEF Contents
  <2> QED BY <2>2 DEF RingInit, Fifo!Init
<1>2. IInv /\ [RingNext]_ringvars => [Fifo!Next]_(Fifo!vars)
  BY FifoStep
<1>3. IInv /\ [RingNext]_ringvars => IInv'
  BY IInvStep
<1> QED BY IInvInit, <1>1, <1>2, <1>3, PTL DEF RingSpec, FifoSpec, Fifo!Spec
=============================================================================
