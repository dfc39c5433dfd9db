-------------------------- MODULE PahoThreads_proof --------------------------
(***************************************************************************)
(* Proofs about the threads of the Paho client: a loss is reported once,   *)
(* the background thread serves a connected client, and a packet that      *)
(* waitfor returns is the answer that was waited for.                      *)
(***************************************************************************)
EXTENDS PahoThreads, SequenceTheorems, TLAPS

-----------------------------------------------------------------------------
(* Types.                                                                  *)

PacketTypes == {"CONNACK", "SUBACK", "PUBLISH"}
Packets == [t : PacketTypes, sock : Nat, ok : BOOLEAN]
Signals == [t : {"none", "error", "ready", "keepalive", "late"}, sock : {0}, ok : {FALSE}]
Connecting == {"tcp", "waitConnect", "waitConnack", "connack"}
Serving == {"subscribe", "waitSuback", "suback", "ready"}
AfterStop == {"none", "destroy", "lostDestroy", "lostReady"}
Apcs == {"connect", "stopping"} \cup Connecting \cup Serving \cup AfterStop

AppType ==
  /\ apc \in Apcs /\ ver \in {3, 4} /\ (apc = "stopping" => next \in AfterStop)
  /\ socks \in Nat /\ sock \in {0, socks}
  /\ sem \in [{"connect", "connack", "suback"} -> {0, 1}]
PacketType ==
  /\ hold \in Packets \cup Signals
  /\ pack \in Packets \cup {None} /\ got \in Packets \cup {None}
  /\ inq \in Seq(Packets)
  /\ line \in {"none", "connecting", "failed", "up", "dead"}
  /\ asked \in {"none", "CONNACK", "SUBACK"}
ThreadType == AppType /\ PacketType

LEMMA NoneType == None \in Signals /\ None.t = "none" /\ None \notin Packets
  BY DEF None, Signals, Packets, PacketTypes
LEMMA SignalType ==
  ASSUME NEW x \in {"none", "error", "ready", "keepalive", "late"}
  PROVE  [None EXCEPT !.t = x] \in Signals /\ [None EXCEPT !.t = x].t = x
  BY DEF None, Signals
\* A packet is told from a signal by its type.
LEMMA HeldType ==
  ASSUME NEW x \in Packets \cup Signals, x.t \in PacketTypes
  PROVE  x \in Packets /\ x # None
<1>1. x \notin Signals
  BY DEF Signals, PacketTypes
<1> QED BY <1>1, NoneType
LEMMA Arrived ==
  ASSUME NEW q \in Seq(Packets), q # <<>>
  PROVE  /\ Head(q) \in Packets /\ Head(q) = q[1] /\ Tail(q) \in Seq(Packets)
         /\ Len(q) \in Nat \ {0} /\ Len(Tail(q)) = Len(q) - 1
         /\ \A i \in 1..Len(Tail(q)) : Tail(q)[i] = q[i + 1]
  BY HeadTailProperties, EmptySeq

LEMMA NextSplit ==
  ASSUME [Next]_vars
  PROVE  \/ MQTTClient_create \/ StartRun \/ TcpConnect \/ TcpFails \/ WaitConnect
         \/ WaitConnack \/ Connack \/ Subscribe \/ SubscribeFails \/ WaitSuback \/ Suback
         \/ PublishFails \/ MQTTClient_destroy \/ Stopped \/ Disconnected
         \/ RunEnds \/ Cycle \/ HandlePacket \/ HandleReady \/ HandleError
         \/ CallArrived \/ ArrivedReturns \/ Keepalive \/ ConnectionLost
         \/ TcpDone \/ Answers \/ Publication \/ Breaks \/ UNCHANGED vars
  BY DEF Next, Application, MQTTClient_run

\* What a failed attempt leaves.
LEMMA FailedLeaves ==
  ASSUME ThreadType, Failed
  PROVE  /\ connected' = FALSE /\ connect_state' = "NOT_IN_PROGRESS" /\ sock' = 0
         /\ line' = "none" /\ inq' = <<>> /\ asked' = "none"
         /\ \/ ver = 4 /\ ver' = 3 /\ apc' = "connect" /\ UNCHANGED <<tostop, next>>
            \/ /\ ver = 3 /\ ver' = 3
               /\ \/ running /\ ~tostop /\ tostop' = TRUE /\ apc' = "stopping" /\ next' = "destroy"
                  \/ (~running \/ tostop) /\ apc' = "destroy" /\ UNCHANGED <<tostop, next>>
         /\ UNCHANGED <<poll, owed, handle, mrc, rpc, hold, running, told, socks, clients, handover>>
  BY DEF Failed, MQTTClient_closeSession, MQTTClient_stop

LEMMA TypeInit ==
  ASSUME Init
  PROVE  ThreadType
<1>1. AppType
  BY DEF Init, AppType, Apcs, AfterStop, NoSems
<1>2. PacketType
  BY NoneType, EmptySeq DEF Init, PacketType
<1> QED BY <1>1, <1>2 DEF ThreadType

LEMMA TypeStep ==
  ASSUME ThreadType, [Next]_vars
  PROVE  ThreadType'
<1> USE DEF ThreadType, Apcs, Connecting, Serving, AfterStop
<1> SUFFICES AppType' /\ PacketType'
  OBVIOUS
<1>0. <<>> \in Seq(Packets) /\ NoSems \in [{"connect", "connack", "suback"} -> {0, 1}]
  BY EmptySeq DEF NoSems
<1>1. CASE MQTTClient_create
  <2>1. AppType'
    BY <1>0, <1>1 DEF MQTTClient_create, AppType, runner
  <2>2. PacketType'
    BY <1>0, <1>1 DEF MQTTClient_create, PacketType, runner
  <2> QED BY <2>1, <2>2
<1>2. CASE StartRun
  <2>1. AppType'
    BY <1>2 DEF StartRun, AppType, state, meet, net, told
  <2>2. PacketType'
    BY <1>2 DEF StartRun, PacketType, state, meet, net, told
  <2> QED BY <2>1, <2>2
<1>3. CASE TcpConnect
  <2>1. AppType'
    BY <1>0, <1>3 DEF TcpConnect, AppType, meet, runner, told
  <2>2. PacketType'
    BY <1>0, <1>3 DEF TcpConnect, PacketType, meet, runner, told
  <2> QED BY <2>1, <2>2
<1>4. CASE TcpFails
  <2>1. AppType'
    BY <1>0, <1>4, FailedLeaves DEF TcpFails, AppType, told
  <2>2. PacketType'
    BY <1>0, <1>4, FailedLeaves DEF TcpFails, PacketType, told
  <2> QED BY <2>1, <2>2
<1>5. CASE WaitConnect
  <2>1. AppType'
    BY <1>0, <1>5, FailedLeaves DEF WaitConnect, ConnectSent, TakeSem, TimeOut, AppType, told
  <2>2. PacketType'
    BY <1>0, <1>5, FailedLeaves DEF WaitConnect, ConnectSent, TakeSem, TimeOut, PacketType, told
  <2> QED BY <2>1, <2>2
<1>6. CASE WaitConnack
  <2>1. AppType'
    BY <1>6, Arrived DEF WaitConnack, WaitPacket, TakeSem, TimeOut, AppType, told, state, runner
  <2>2. PacketType'
    BY <1>6, Arrived DEF WaitConnack, WaitPacket, TakeSem, TimeOut, PacketType, told, state, runner
  <2> QED BY <2>1, <2>2
<1>7. CASE WaitSuback
  <2>1. AppType'
    BY <1>7, Arrived DEF WaitSuback, WaitPacket, TakeSem, TimeOut, AppType, told, state, runner
  <2>2. PacketType'
    BY <1>7, Arrived DEF WaitSuback, WaitPacket, TakeSem, TimeOut, PacketType, told, state, runner
  <2> QED BY <2>1, <2>2
<1>8. CASE Connack
  <2>1. AppType'
    BY <1>0, <1>8, FailedLeaves DEF Connack, AppType, told, runner, net
  <2>2. PacketType'
    BY <1>0, <1>8, FailedLeaves DEF Connack, PacketType, told, runner, net
  <2> QED BY <2>1, <2>2
<1>9. CASE Subscribe
  <2>1. AppType'
    BY <1>9 DEF Subscribe, AppType, state, meet, runner, told
  <2>2. PacketType'
    BY <1>9 DEF Subscribe, PacketType, state, meet, runner, told
  <2> QED BY <2>1, <2>2
<1>10. CASE SubscribeFails \/ PublishFails \/ Suback
  <2>1. AppType'
    BY <1>0, <1>10 DEF SubscribeFails, PublishFails, Suback, DisconnectInternal,
       MQTTClient_closeSession, MQTTClient_stop, AppType, state, meet, runner, told, net
  <2>2. PacketType'
    BY <1>0, <1>10 DEF SubscribeFails, PublishFails, Suback, DisconnectInternal,
       MQTTClient_closeSession, MQTTClient_stop, PacketType, state, meet, runner, told, net
  <2> QED BY <2>1, <2>2
<1>11. CASE MQTTClient_destroy
  <2>1. AppType'
    BY <1>11 DEF MQTTClient_destroy, MQTTClient_stop, AppType, state, meet, net, told
  <2>2. PacketType'
    BY <1>11 DEF MQTTClient_destroy, MQTTClient_stop, PacketType, state, meet, net, told
  <2> QED BY <2>1, <2>2
<1>12. CASE Stopped
  <2>1. AppType'
    BY <1>12, SignalType DEF Stopped, AppType, state, meet, net, told
  <2>2. PacketType'
    BY <1>12, SignalType DEF Stopped, PacketType, state, meet, net, told
  <2> QED BY <2>1, <2>2
<1>13. CASE Disconnected
  <2>1. AppType'
    BY <1>13 DEF Disconnected, LossThread, AppType, state, meet, net, runner
  <2>2. PacketType'
    BY <1>13 DEF Disconnected, LossThread, PacketType, state, meet, net, runner
  <2> QED BY <2>1, <2>2
<1>14. CASE RunEnds \/ CallArrived \/ ArrivedReturns \/ ConnectionLost
  <2>1. AppType'
    BY <1>14, NoneType DEF RunEnds, CallArrived, ArrivedReturns, ConnectionLost, RunnerOnly,
       AppType, appvars, state, meet, net, runner, told
  <2>2. PacketType'
    BY <1>14, NoneType DEF RunEnds, CallArrived, ArrivedReturns, ConnectionLost, RunnerOnly,
       PacketType, appvars, state, meet, net, runner, told
  <2> QED BY <2>1, <2>2
<1>15. CASE Cycle
  <2>1. AppType'
    BY <1>15, SignalType, Arrived DEF Cycle, RunnerOnly, AppType, appvars, state, meet, told
  <2>2. PacketType'
    BY <1>15, SignalType, Arrived DEF Cycle, RunnerOnly, PacketType, appvars, state, meet, told
  <2> QED BY <2>1, <2>2
<1>16. CASE Keepalive
  <2>1. AppType'
    BY <1>0, <1>16, SignalType DEF Keepalive, LossThread, MQTTClient_closeSession, RunnerOnly,
       AppType, appvars, meet
  <2>2. PacketType'
    BY <1>0, <1>16, SignalType DEF Keepalive, LossThread, MQTTClient_closeSession, RunnerOnly,
       PacketType, appvars, meet
  <2> QED BY <2>1, <2>2
<1>17. CASE HandlePacket
  <2>1. hold \in Packets
    BY <1>17, HeldType DEF HandlePacket, PacketType, PacketTypes
  <2> QED BY <1>17, <2>1, NoneType DEF HandlePacket, Post, RunnerOnly, AppType, PacketType, appvars,
     state, net, told
<1>18. CASE HandleReady
  <2>1. AppType'
    BY <1>18, NoneType DEF HandleReady, Post, RunnerOnly, AppType, appvars, net, told
  <2>2. PacketType'
    BY <1>18, NoneType DEF HandleReady, Post, RunnerOnly, PacketType, appvars, net, told
  <2> QED BY <2>1, <2>2
<1>19. CASE HandleError
  <2>1. AppType'
    BY <1>0, <1>19, NoneType DEF HandleError, Post, LossThread, MQTTClient_closeSession,
       RunnerOnly, AppType, appvars, net, told
  <2>2. PacketType'
    BY <1>0, <1>19, NoneType DEF HandleError, Post, LossThread, MQTTClient_closeSession,
       RunnerOnly, PacketType, appvars, net, told
  <2> QED BY <2>1, <2>2
<1>20. CASE TcpDone \/ Breaks
  <2>1. AppType'
    BY <1>20 DEF TcpDone, Breaks, LineOnly, AppType, appvars, state, meet, runner, told
  <2>2. PacketType'
    BY <1>20 DEF TcpDone, Breaks, LineOnly, PacketType, appvars, state, meet, runner, told
  <2> QED BY <2>1, <2>2
<1>21. CASE Answers
  <2>1. \A ok \in BOOLEAN : asked # "none" => Packet(asked, ok) \in Packets
    BY DEF Packet, Packets, PacketTypes, PacketType, AppType
  <2>2. inq' \in Seq(Packets)
    BY <1>21, <2>1, AppendProperties DEF Answers, PacketType
  <2> QED BY <1>21, <2>2 DEF Answers, LineOnly, AppType, PacketType, appvars, state, meet, runner, told
<1>22. CASE Publication
  <2>1. Packet("PUBLISH", TRUE) \in Packets
    BY DEF Packet, Packets, PacketTypes, PacketType, AppType
  <2>2. inq' \in Seq(Packets)
    BY <1>22, <2>1, AppendProperties DEF Publication, PacketType
  <2> QED BY <1>22, <2>2 DEF Publication, LineOnly, AppType, PacketType, appvars, state, meet, runner, told
<1>23. CASE UNCHANGED vars
  <2>1. AppType'
    BY <1>23 DEF vars, AppType, appvars, state, meet, runner, net, told
  <2>2. PacketType'
    BY <1>23 DEF vars, PacketType, appvars, state, meet, runner, net, told
  <2> QED BY <2>1, <2>2
<1> QED BY <1>1, <1>2, <1>3, <1>4, <1>5, <1>6, <1>7, <1>8, <1>9, <1>10, <1>11, <1>12, <1>13, <1>14,
   <1>15, <1>16, <1>17, <1>18, <1>19, <1>20, <1>21, <1>22, <1>23, NextSplit

-----------------------------------------------------------------------------
(* Losses: a connection whose loss is still to be reported is the newest   *)
(* one, and was not reported.                                              *)

Unreported == socks \in (1..socks) \ reports
LossInv ==
  /\ ~twice /\ reports \subseteq 1..socks
  /\ connected => Unreported
  /\ owed => /\ ~connected /\ Unreported
             /\ apc \in {"lostDestroy", "lostReady"}
                \/ (apc = "stopping" /\ next \in {"lostDestroy", "lostReady"})
  /\ apc \in {"connect"} \cup Connecting => ~connected
  /\ apc \in Connecting \ {"tcp"} => Unreported

LEMMA LossStep ==
  ASSUME ThreadType, LossInv, [Next]_vars
  PROVE  LossInv'
<1> USE DEF Connecting, Unreported
<1>0. socks \in Nat /\ (apc = "stopping" => next \in AfterStop)
  BY DEF ThreadType, AppType
<1>1. CASE MQTTClient_create
  <2>1. /\ apc = "none" /\ apc' = "connect" /\ connected' = FALSE
        /\ UNCHANGED <<owed, next, twice, reports, socks>>
    BY <1>1 DEF MQTTClient_create
  <2> QED BY <2>1 DEF LossInv
<1>2. CASE TcpConnect
  <2>1. /\ apc = "tcp" /\ apc' \in Connecting /\ socks' = socks + 1
        /\ UNCHANGED <<connected, owed, next, twice, reports>>
    BY <1>2 DEF TcpConnect, told
  <2>2. reports' \subseteq 1..socks' /\ Unreported'
    BY <1>0, <2>1 DEF LossInv
  <2> QED BY <2>1, <2>2 DEF LossInv
<1>3. CASE apc \in Connecting /\ Failed
  <2>1. /\ connected' = FALSE /\ UNCHANGED <<owed, twice, reports, socks>>
        /\ apc' \in {"connect", "stopping", "destroy"}
    BY <1>3, FailedLeaves DEF told
  <2> QED BY <1>3, <2>1 DEF LossInv
<1>4. CASE StartRun \/ (WaitConnect /\ ~Failed) \/ WaitConnack
  <2>1. /\ apc \in {"connect", "waitConnect", "waitConnack"} /\ apc' \in Connecting
        /\ apc = "connect" => apc' = "tcp"
        /\ UNCHANGED <<connected, owed, next, twice, reports, socks>>
    BY <1>4 DEF StartRun, WaitConnect, ConnectSent, WaitConnack, WaitPacket, told, state
  <2> QED BY <2>1 DEF LossInv
<1>5. CASE Connack /\ ~Failed
  <2>1. apc = "connack" /\ apc' = "subscribe" /\ UNCHANGED <<owed, twice, reports, socks>>
    BY <1>5 DEF Connack, told
  <2> QED BY <2>1 DEF LossInv
<1>6. CASE Subscribe \/ WaitSuback \/ (Suback /\ ~DisconnectInternal("lostDestroy"))
  <2>1. /\ apc \in Serving /\ apc' \in {"waitSuback", "destroy", "suback", "ready"}
        /\ UNCHANGED <<connected, owed, next, twice, reports, socks>>
    BY <1>6 DEF Subscribe, WaitSuback, WaitPacket, Suback, Serving, told, state
  <2> QED BY <2>1 DEF LossInv, Serving
<1>7. CASE \/ SubscribeFails \/ PublishFails
           \/ (Suback /\ DisconnectInternal("lostDestroy"))
  <2>1. PICK then \in {"lostDestroy", "lostReady"} : apc \in Serving /\ DisconnectInternal(then)
    BY <1>7 DEF SubscribeFails, PublishFails, Suback, Serving
  <2>2. /\ owed' = connected /\ connected' = FALSE /\ UNCHANGED <<twice, reports, socks>>
        /\ apc' = then \/ (apc' = "stopping" /\ next' = then)
    BY <2>1 DEF DisconnectInternal, MQTTClient_closeSession, MQTTClient_stop, told
  <2> QED BY <2>2 DEF LossInv
<1>8. CASE MQTTClient_destroy
  <2>1. /\ apc \in {"destroy", "ready"} /\ UNCHANGED <<owed, connected, twice, reports, socks>>
        /\ apc' \in {"none", "stopping"}
    BY <1>8 DEF MQTTClient_destroy, MQTTClient_stop, state, told
  <2> QED BY <2>1 DEF LossInv
<1>9. CASE Stopped
  <2>1. apc = "stopping" /\ apc' = next /\ UNCHANGED <<owed, connected, twice, reports, socks>>
    BY <1>9 DEF Stopped, state, told
  <2> QED BY <1>0, <2>1 DEF LossInv, AfterStop
<1>10. CASE Disconnected
  <2>1. /\ apc' \in {"ready", "destroy"} /\ owed' = FALSE /\ UNCHANGED <<connected, socks>>
        /\ IF owed THEN twice' = (twice \/ socks \in reports) /\ reports' = reports \cup {socks}
                   ELSE UNCHANGED <<twice, reports>>
    BY <1>10 DEF Disconnected, LossThread, state
  <2>2. CASE owed
    BY <2>1, <2>2 DEF LossInv
  <2>3. CASE ~owed
    BY <2>1, <2>3 DEF LossInv
  <2> QED BY <2>2, <2>3
<1>11. CASE Keepalive \/ (HandleError /\ handle # 0 /\ sock # 0 /\ connected)
  <2>1. /\ UNCHANGED <<apc, next, owed, socks>> /\ connected' = FALSE
        /\ twice' = (twice \/ socks \in reports) /\ reports' = reports \cup {socks}
    BY <1>11 DEF Keepalive, HandleError, LossThread, MQTTClient_closeSession, RunnerOnly, appvars
  <2>2. ~owed /\ apc \notin {"connect"} \cup Connecting
    BY <1>11 DEF LossInv, Keepalive
  <2>3. connected
    BY <1>11 DEF Keepalive
  <2> QED BY <2>1, <2>2, <2>3 DEF LossInv
<1>12. CASE ~(HandleError /\ handle # 0 /\ sock # 0 /\ connected)
            /\ (\/ RunEnds \/ Cycle \/ HandlePacket \/ HandleReady \/ HandleError \/ CallArrived
                \/ ArrivedReturns \/ ConnectionLost \/ TcpDone \/ Answers \/ Publication \/ Breaks
                \/ UNCHANGED vars)
  <2>1. UNCHANGED <<apc, next, owed, connected, twice, reports, socks>>
    BY <1>12 DEF RunEnds, Cycle, HandlePacket, HandleReady, HandleError, CallArrived,
       ArrivedReturns, ConnectionLost, TcpDone, Answers, Publication, Breaks, RunnerOnly, LineOnly,
       appvars, state, told, vars
  <2> QED BY <2>1 DEF LossInv
<1>13. /\ TcpFails => apc \in Connecting /\ Failed
       /\ WaitConnect \/ Connack => apc \in Connecting
  BY DEF TcpFails, WaitConnect, Connack
<1> QED BY <1>1, <1>2, <1>3, <1>4, <1>5, <1>6, <1>7, <1>8, <1>9, <1>10, <1>11, <1>12, <1>13, NextSplit

\* disconnect1 and its callers report the loss of a connection once, whichever of the
\* two threads finds it first.
THEOREM LossOnce == Spec => []LossReportedOnce
<1>1. Init => ThreadType /\ LossInv
  BY TypeInit DEF Init, LossInv, Connecting
<1>2. ThreadType /\ LossInv /\ [Next]_vars => (ThreadType /\ LossInv)'
  BY TypeStep, LossStep
<1>3. LossInv => LossReportedOnce
  BY DEF LossInv, LossReportedOnce
<1> QED BY <1>1, <1>2, <1>3, PTL DEF Spec

-----------------------------------------------------------------------------
(* The background thread: if it was told to end and is not waited for, it  *)
(* is one that ended on its own or late.                                   *)

RunInv ==
  /\ rpc \in {"off", "cycle", "handle", "call"}
  /\ running <=> rpc # "off"
  /\ rpc = "off" => hold = None /\ ~tostop
  /\ rpc \in {"cycle", "call"} => hold.t \in {"none", "late"}
  /\ hold.t \in {"keepalive", "late"} => tostop
  /\ tostop /\ apc # "stopping" => hold.t \in {"keepalive", "late"}
  /\ apc = "stopping" => tostop \/ ~running
  /\ apc = "none" => tostop \/ ~running
Served ==
  /\ apc \in Connecting /\ ~handover => running /\ ~tostop
  /\ apc \in Serving /\ connected /\ ~handover => running /\ ~tostop
  /\ apc = "lostReady" \/ (apc = "stopping" /\ next = "lostReady") => ~connected

\* The application's steps that leave the background thread alone.
Alone == Connecting \cup Serving \cup {"connect", "destroy", "lostDestroy", "lostReady"}
LEMMA RunLeftAlone ==
  ASSUME RunInv, UNCHANGED runner, apc # "stopping", apc' \in Alone
  PROVE  RunInv'
  BY DEF RunInv, runner, Alone, Connecting, Serving
LEMMA RunStop ==
  ASSUME RunInv, NEW then \in AfterStop, apc # "stopping",
         MQTTClient_stop(then), UNCHANGED <<rpc, hold, running>>
  PROVE  RunInv'
<1>1. \/ running /\ ~tostop /\ tostop' = TRUE /\ apc' = "stopping"
      \/ (~running \/ tostop) /\ apc' = then /\ UNCHANGED tostop
  BY DEF MQTTClient_stop
<1>2. then # "stopping"
  BY DEF AfterStop
<1> QED BY <1>1, <1>2 DEF RunInv

LEMMA RunStep ==
  ASSUME ThreadType, RunInv, [Next]_vars
  PROVE  RunInv'
<1> USE DEF Alone, Connecting, Serving
<1>1. CASE MQTTClient_create
  BY <1>1, RunLeftAlone DEF MQTTClient_create
<1>2. CASE StartRun
  <2>1. /\ apc = "connect" /\ apc' = "tcp" /\ UNCHANGED <<hold, tostop>>
        /\ \/ ~running /\ running' = TRUE /\ rpc' = "cycle"
           \/ running /\ UNCHANGED <<running, rpc>>
    BY <1>2 DEF StartRun
  <2> QED BY <2>1, NoneType DEF RunInv
<1>3. CASE apc \in Connecting /\ Failed
  <2>1. CASE ver = 4
    BY <1>3, <2>1, RunLeftAlone DEF Failed, runner
  <2>2. CASE ver # 4
    <3>1. MQTTClient_stop("destroy") /\ UNCHANGED <<rpc, hold, running>>
      BY <1>3, <2>2 DEF Failed
    <3> QED BY <1>3, <3>1, RunStop DEF AfterStop
  <2> QED BY <2>1, <2>2
<1>4. CASE \/ TcpConnect \/ (WaitConnect /\ ~Failed) \/ WaitConnack \/ (Connack /\ ~Failed)
           \/ Subscribe \/ WaitSuback \/ (Suback /\ ~DisconnectInternal("lostDestroy"))
           \/ Disconnected
  <2>1. UNCHANGED runner /\ apc # "stopping" /\ apc' \in Alone
    BY <1>4 DEF TcpConnect, WaitConnect, ConnectSent, WaitConnack, Connack, Subscribe, WaitSuback,
       WaitPacket, Suback, Disconnected, runner
  <2> QED BY <2>1, RunLeftAlone
<1>5. CASE \/ SubscribeFails \/ PublishFails
           \/ (Suback /\ DisconnectInternal("lostDestroy"))
  <2>1. PICK then \in {"lostDestroy", "lostReady"} : apc \in Serving /\ DisconnectInternal(then)
    BY <1>5 DEF SubscribeFails, PublishFails, Suback
  <2>2. MQTTClient_stop(then) /\ UNCHANGED <<rpc, hold, running>>
    BY <2>1 DEF DisconnectInternal
  <2> QED BY <2>1, <2>2, RunStop DEF AfterStop
<1>6. CASE MQTTClient_destroy
  <2>1. apc \in {"destroy", "ready"} /\ MQTTClient_stop("none") /\ UNCHANGED <<rpc, hold, running>>
    BY <1>6 DEF MQTTClient_destroy
  <2> QED BY <2>1, RunStop DEF AfterStop
<1>7. CASE Stopped
  <2>1. /\ apc = "stopping" /\ next \in AfterStop /\ apc' = next /\ UNCHANGED <<rpc, running, tostop>>
        /\ \/ ~running /\ hold' = hold
           \/ running /\ rpc = "call" /\ hold' = [None EXCEPT !.t = "late"]
    BY <1>7 DEF Stopped, ThreadType, AppType
  <2> QED BY <2>1, SignalType DEF RunInv, AfterStop
<1>8. CASE RunEnds
  BY <1>8, NoneType DEF RunEnds, RunInv, RunnerOnly, appvars
<1>9. CASE Cycle
  <2>1. /\ rpc = "cycle" /\ ~tostop /\ rpc' = "handle" /\ UNCHANGED <<running, tostop, apc>>
        /\ hold' \in {[None EXCEPT !.t = "ready"], [None EXCEPT !.t = "error"]}
           \/ (inq # <<>> /\ hold' = Head(inq))
    BY <1>9 DEF Cycle, RunnerOnly, appvars
  <2>2. inq # <<>> => Head(inq) \in Packets
    BY Arrived DEF ThreadType, PacketType
  <2>3. hold'.t \notin {"keepalive", "late"}
    BY <2>1, <2>2, SignalType DEF Packets, PacketTypes
  <2> QED BY <2>1, <2>3 DEF RunInv
<1>10. CASE Keepalive
  <2>1. /\ rpc = "cycle" /\ ~tostop /\ tostop' = TRUE /\ rpc' = "handle" /\ UNCHANGED <<running, apc>>
        /\ hold' = [None EXCEPT !.t = "keepalive"]
    BY <1>10 DEF Keepalive, RunnerOnly, appvars
  <2> QED BY <2>1, SignalType DEF RunInv
<1>11. CASE HandlePacket \/ HandleReady \/ CallArrived \/ HandleError
  <2>1. /\ rpc = "handle" /\ ~tostop /\ hold' = None /\ UNCHANGED <<tostop, apc>>
        /\ \/ rpc' \in {"cycle", "call"} /\ UNCHANGED running
           \/ rpc' = "off" /\ running' = FALSE
    BY <1>11 DEF HandlePacket, HandleReady, CallArrived, HandleError, RunnerOnly, appvars
  <2>2. hold'.t = "none"
    BY <2>1, NoneType
  <2>3. CASE rpc' \in {"cycle", "call"} /\ UNCHANGED running
    BY <2>1, <2>2, <2>3 DEF RunInv
  <2>4. CASE rpc' = "off" /\ running' = FALSE
    BY <2>1, <2>2, <2>4 DEF RunInv
  <2> QED BY <2>1, <2>3, <2>4
<1>12. CASE ArrivedReturns
  BY <1>12 DEF ArrivedReturns, RunInv, RunnerOnly, appvars
<1>13. CASE \/ ConnectionLost \/ TcpDone \/ Answers \/ Publication \/ Breaks \/ UNCHANGED vars
  <2>1. UNCHANGED <<rpc, hold, running, tostop, apc>>
    BY <1>13 DEF ConnectionLost, TcpDone, Answers, Publication, Breaks, RunnerOnly, LineOnly, appvars,
       runner, vars
  <2> QED BY <2>1 DEF RunInv
<1>14. /\ TcpFails => apc \in Connecting /\ Failed
       /\ WaitConnect \/ Connack => apc \in Connecting
  BY DEF TcpFails, WaitConnect, Connack
<1> QED BY <1>1, <1>2, <1>3, <1>4, <1>5, <1>6, <1>7, <1>8, <1>9, <1>10, <1>11, <1>12, <1>13, <1>14,
           NextSplit

LEMMA ServedStep ==
  ASSUME ThreadType, LossInv, RunInv, Served, [Next]_vars
  PROVE  Served'
<1> USE DEF Connecting, Serving
<1>1. CASE MQTTClient_create
  BY <1>1 DEF MQTTClient_create, Served
<1>2. CASE StartRun
  <2>1. /\ apc = "connect" /\ apc' = "tcp" /\ UNCHANGED tostop /\ running'
        /\ handover' = (handover \/ hold.t \in {"keepalive", "late"})
    BY <1>2 DEF StartRun
  <2>2. tostop => hold.t \in {"keepalive", "late"}
    BY <2>1 DEF RunInv
  <2> QED BY <2>1, <2>2 DEF Served
<1>3. CASE apc \in Connecting /\ Failed
  <2>1. connected' = FALSE /\ apc' \in {"connect", "stopping", "destroy"}
    BY <1>3, FailedLeaves
  <2> QED BY <2>1 DEF Served
<1>4. CASE \/ TcpConnect \/ (WaitConnect /\ ~Failed) \/ WaitConnack \/ (Connack /\ ~Failed)
  <2>1. /\ UNCHANGED <<running, tostop, handover>> /\ apc \in Connecting
        /\ apc' \in Connecting \cup {"subscribe"}
    BY <1>4 DEF TcpConnect, WaitConnect, ConnectSent, WaitConnack, Connack, WaitPacket, runner
  <2> QED BY <2>1 DEF Served
<1>5. CASE \/ Subscribe \/ WaitSuback \/ (Suback /\ ~DisconnectInternal("lostDestroy"))
           \/ Disconnected
  <2>1. /\ UNCHANGED <<running, tostop, handover, connected>>
        /\ \/ apc \in Serving /\ apc' \in Serving \cup {"destroy"}
           \/ apc = "lostReady" /\ apc' = "ready"
           \/ apc' = "destroy"
    BY <1>5 DEF Subscribe, WaitSuback, WaitPacket, Suback, Disconnected, runner, state
  <2> QED BY <2>1 DEF Served
<1>6. CASE \/ SubscribeFails \/ PublishFails
           \/ (Suback /\ DisconnectInternal("lostDestroy"))
  <2>1. connected' = FALSE /\ apc' \in {"lostDestroy", "lostReady", "stopping"}
    BY <1>6 DEF SubscribeFails, PublishFails, Suback, DisconnectInternal, MQTTClient_closeSession,
       MQTTClient_stop
  <2> QED BY <2>1 DEF Served
<1>7. CASE MQTTClient_destroy
  <2>1. apc' = "none" \/ (apc' = "stopping" /\ next' = "none")
    BY <1>7 DEF MQTTClient_destroy, MQTTClient_stop
  <2> QED BY <2>1 DEF Served
<1>8. CASE Stopped
  <2>1. apc = "stopping" /\ next \in AfterStop /\ apc' = next /\ UNCHANGED connected
    BY <1>8 DEF Stopped, ThreadType, AppType, state
  <2> QED BY <2>1 DEF Served, AfterStop
<1>9. CASE RunEnds
  <2>1. tostop /\ UNCHANGED <<apc, next, connected, handover>>
    BY <1>9 DEF RunEnds, RunnerOnly, appvars, state
  <2> QED BY <2>1 DEF Served
<1>10. CASE Keepalive \/ (HandleError /\ handle # 0 /\ sock # 0 /\ connected)
  <2>1. connected /\ connected' = FALSE /\ UNCHANGED <<apc, next>>
    BY <1>10 DEF Keepalive, HandleError, MQTTClient_closeSession, RunnerOnly, appvars
  <2>2. apc \notin Connecting
    BY <2>1 DEF LossInv
  <2> QED BY <2>1, <2>2 DEF Served
<1>11. CASE ~(HandleError /\ handle # 0 /\ sock # 0 /\ connected)
            /\ (\/ Cycle \/ HandlePacket \/ HandleReady \/ HandleError \/ CallArrived
                \/ ArrivedReturns \/ ConnectionLost \/ TcpDone \/ Answers \/ Publication \/ Breaks
                \/ UNCHANGED vars)
  <2>1. UNCHANGED <<apc, next, connected, running, tostop, handover>>
    BY <1>11 DEF Cycle, HandlePacket, HandleReady, HandleError, CallArrived,
       ArrivedReturns, ConnectionLost, TcpDone, Answers, Publication, Breaks, RunnerOnly, LineOnly,
       appvars, state, runner, vars
  <2> QED BY <2>1 DEF Served
<1>12. /\ TcpFails => apc \in Connecting /\ Failed
       /\ WaitConnect \/ Connack => apc \in Connecting
  BY DEF TcpFails, WaitConnect, Connack
<1> QED BY <1>1, <1>2, <1>3, <1>4, <1>5, <1>6, <1>7, <1>8, <1>9, <1>10, <1>11, <1>12, NextSplit

\* While the application is connected MQTTClient_run runs and was not told to end, unless
\* the connect began while the previous one was ending on its own or late.
THEOREM RunnerAlwaysServes == Spec => []RunnerServes
<1> DEFINE Inv == ThreadType /\ LossInv /\ RunInv /\ Served
<1>1. Init => Inv
  <2>1. Init => LossInv /\ Served
    BY DEF Init, LossInv, Served, Connecting, Serving
  <2>2. Init => RunInv
    BY NoneType DEF Init, RunInv
  <2> QED BY <2>1, <2>2, TypeInit
<1>2. Inv /\ [Next]_vars => Inv'
  BY TypeStep, LossStep, RunStep, ServedStep
<1>3. Inv => RunnerServes
  BY DEF RunInv, Served, RunnerServes, Serving
<1> QED BY <1>1, <1>2, <1>3, PTL DEF Spec

-----------------------------------------------------------------------------
(* Answers. Of a connection there is one CONNACK at most: owed by the      *)
(* broker, arrived, in the hands of the background thread, or at the       *)
(* packet pointer. No connection is begun while one is left.               *)

Held == hold.t \in PacketTypes
Loose == Held \/ pack # None
\* No packet is left, and none can reach the pointer.
Mute == ~Loose /\ (rpc = "off" \/ (inq = <<>> /\ line \in {"failed", "dead"}))

\* At most one CONNACK of this connection is somewhere.
OneAnswer ==
  /\ asked \in {"none", "CONNACK"}
  /\ asked = "CONNACK" => inq = <<>> /\ ~Loose
  /\ inq # <<>> => Len(inq) = 1 /\ inq[1].t = "CONNACK" /\ inq[1].sock = socks /\ ~Loose
  /\ Held => hold.t = "CONNACK" /\ hold.sock = socks /\ pack = None
  /\ pack # None => pack.t = "CONNACK" /\ pack.sock = socks
  /\ inq # <<>> \/ Loose => line \in {"up", "dead"}
ErrorReal == ver = 4 /\ hold.t = "error" => inq = <<>> /\ line \in {"failed", "dead"}

Before ==
  apc \in {"connect", "tcp"} =>
    /\ sock = 0
    /\ ~timeUp => ~Loose /\ got = None /\ inq = <<>> /\ asked = "none"
    /\ ver = 4 => ~timeUp /\ hold.t \in {"none", "keepalive", "late"} /\ sem["connack"] = 0
AtConnect ==
  apc = "waitConnect" =>
    /\ ~timeUp /\ ~Loose /\ got = None /\ inq = <<>> /\ asked = "none"
    /\ poll => ~running
    /\ connect_state # "WAIT_FOR_CONNACK"
    /\ ErrorReal
    /\ ver = 4 => sem["connack"] = 0
AtConnack ==
  /\ apc = "waitConnack" =>
       /\ ~timeUp /\ got = None /\ OneAnswer /\ ErrorReal
       /\ poll => ~running /\ pack = None
       /\ ver = 4 /\ sem["connack"] = 1 => pack # None \/ Mute
  /\ apc = "connack" /\ got = None /\ ver = 4 /\ ~timeUp => Mute
  /\ apc = "connack" /\ got # None =>
       /\ got.t = "CONNACK" /\ got.sock = socks
       /\ inq = <<>> /\ ~Held /\ asked = "none" /\ line \in {"up", "dead"}
AtSuback ==
  /\ apc = "subscribe" => ~Loose /\ inq = <<>> /\ asked = "none" /\ got = None
  /\ apc \in {"subscribe", "waitSuback"} => line \in {"up", "dead", "none"}
  /\ apc = "waitSuback" =>
       /\ got = None /\ asked \in {"none", "SUBACK"}
       /\ poll => ~running /\ pack = None
       /\ asked = "SUBACK" => inq = <<>> /\ ~Loose
       /\ asked = "none" /\ inq = <<>> /\ poll => line # "up"
       /\ \A i \in 1..Len(inq) : inq[i].t \in {"SUBACK", "PUBLISH"} /\ inq[i].sock = socks
       /\ inq # <<>> /\ poll => inq[1].t = "SUBACK"
       /\ Held => hold.t \in {"SUBACK", "PUBLISH"} /\ hold.sock = socks
       /\ pack # None => pack.t = "SUBACK" /\ pack.sock = socks
  /\ apc = "suback" /\ got # None => got.t = "SUBACK" /\ got.sock = socks
Linked == line # "none" => sock = socks
MeetInv == Linked /\ Before /\ AtConnect /\ AtConnack /\ AtSuback

Meeting == {"connect", "subscribe", "waitSuback", "suback"} \cup Connecting
LEMMA Elsewhere ==
  ASSUME apc' \notin Meeting
  PROVE  Before' /\ AtConnect' /\ AtConnack' /\ AtSuback'
  BY DEF Meeting, Connecting, Before, AtConnect, AtConnack, AtSuback

\* What the background thread can hold, by where it is.
LEMMA HoldOf ==
  ASSUME ThreadType, RunInv
  PROVE  /\ rpc # "handle" => ~Held /\ hold.t \in {"none", "late"}
         /\ tostop /\ apc # "stopping" => ~Held /\ hold.t \in {"keepalive", "late"}
         /\ Held => hold \in Packets /\ hold # None /\ hold.t # "error"
         /\ hold.t \in PacketTypes \cup {"none", "error", "ready", "keepalive", "late"}
<1>1. rpc = "off" => hold.t = "none"
  BY NoneType DEF RunInv
<1>2. hold \in Packets \cup Signals
  BY DEF ThreadType, PacketType
<1>3. Held => hold \in Packets /\ hold # None
  BY <1>2, HeldType DEF Held
<1>4. hold.t \in PacketTypes \cup {"none", "error", "ready", "keepalive", "late"}
  BY <1>2 DEF Packets, Signals
<1> QED BY <1>1, <1>3, <1>4 DEF RunInv, Held, PacketTypes

LEMMA MeetCreate ==
  ASSUME ThreadType, RunInv, MeetInv, MQTTClient_create
  PROVE  MeetInv'
<1>1. /\ apc = "none" /\ apc' = "connect" /\ timeUp' = FALSE /\ got' = None /\ ver' = 4
      /\ sock' = 0 /\ pack' = None /\ sem' = NoSems /\ line' = "none" /\ inq' = <<>>
      /\ asked' = "none" /\ hold' = hold
  BY DEF MQTTClient_create, runner
<1>2. hold.t \in {"none", "keepalive", "late"} /\ ~Held
  BY <1>1, HoldOf DEF RunInv
<1>3. ~Loose' /\ sem'["connack"] = 0
  BY <1>1, <1>2 DEF Loose, Held, NoSems
<1> QED BY <1>1, <1>2, <1>3 DEF MeetInv, Linked, Before, AtConnect, AtConnack, AtSuback

LEMMA MeetStart ==
  ASSUME ThreadType, RunInv, MeetInv, StartRun
  PROVE  MeetInv'
<1>1. /\ apc = "connect" /\ apc' = "tcp"
      /\ UNCHANGED <<timeUp, got, ver, sock, socks, pack, sem, line, inq, asked, hold>>
  BY DEF StartRun, state, meet, net
<1>2. Loose' = Loose
  BY <1>1 DEF Loose, Held
<1> QED BY <1>1, <1>2 DEF MeetInv, Linked, Before, AtConnect, AtConnack, AtSuback

LEMMA MeetTcp ==
  ASSUME ThreadType, RunInv, MeetInv, TcpConnect
  PROVE  MeetInv'
<1>1. /\ apc = "tcp" /\ ~timeUp /\ inq' = <<>> /\ poll' = ~running
      /\ socks' = socks + 1 /\ sock' = socks + 1
      /\ \/ apc' = "waitConnect" /\ connect_state' = "TCP_IN_PROGRESS" /\ asked' = asked
         \/ apc' = "waitConnack" /\ asked' = "CONNACK"
      /\ UNCHANGED <<timeUp, got, ver, pack, sem, hold, running>>
  BY DEF TcpConnect, meet, runner
<1>2. ~Loose' /\ pack' = None /\ ~Held' /\ got = None /\ asked = "none"
  BY <1>1 DEF MeetInv, Before, Loose, Held
<1>3. ver = 4 => hold.t # "error" /\ sem["connack"] = 0
  BY <1>1 DEF MeetInv, Before
<1>4. ErrorReal' /\ (apc' = "waitConnack" => OneAnswer')
  BY <1>1, <1>2, <1>3 DEF ErrorReal, OneAnswer
<1>5. Linked' /\ Before' /\ AtSuback'
  BY <1>1 DEF Linked, Before, AtSuback
<1>6. AtConnect'
  BY <1>1, <1>2, <1>3, <1>4 DEF AtConnect
<1>7. AtConnack'
  <2>1. apc' # "connack" /\ ~timeUp' /\ got' = None
    BY <1>1, <1>2
  <2>2. poll' => ~running' /\ pack' = None
    BY <1>1, <1>2
  <2>3. ~(ver' = 4 /\ sem'["connack"] = 1)
    BY <1>1, <1>3
  <2> QED BY <1>4, <2>1, <2>2, <2>3 DEF AtConnack
<1> QED BY <1>5, <1>6, <1>7 DEF MeetInv

\* An attempt that failed in time leaves no packet; after a time-out there is no next one.
LEMMA MeetFailed ==
  ASSUME ThreadType, Failed,
         ver = 4 /\ ~timeUp' => ~Held /\ pack' = None /\ got' = None
  PROVE  MeetInv'
<1>1. /\ sock' = 0 /\ line' = "none" /\ inq' = <<>> /\ asked' = "none" /\ hold' = hold
      /\ apc' \in {"connect", "stopping", "destroy"}
      /\ apc' = "connect" => ver = 4 /\ ver' = 3
  BY FailedLeaves
<1>2. CASE apc' # "connect"
  BY <1>1, <1>2, Elsewhere DEF MeetInv, Linked, Meeting, Connecting
<1>3. CASE apc' = "connect"
  <2>1. ~timeUp' => ~Loose' /\ got' = None
    BY <1>1, <1>3 DEF Loose, Held
  <2> QED BY <1>1, <1>3, <2>1 DEF MeetInv, Linked, Before, AtConnect, AtConnack, AtSuback
<1> QED BY <1>2, <1>3

LEMMA MeetTcpFails ==
  ASSUME ThreadType, MeetInv, TcpFails
  PROVE  MeetInv'
<1>1. apc = "tcp" /\ Failed /\ UNCHANGED <<pack, timeUp, got>>
  BY DEF TcpFails
<1>2. ~timeUp => ~Held /\ pack = None /\ got = None
  BY <1>1 DEF MeetInv, Before, Loose
<1> QED BY <1>1, <1>2, MeetFailed

LEMMA MeetWaitConnect ==
  ASSUME ThreadType, RunInv, MeetInv, WaitConnect
  PROVE  MeetInv'
<1>1. apc = "waitConnect" /\ UNCHANGED <<got, pack>>
  BY DEF WaitConnect
<1>2. /\ ~timeUp /\ ~Loose /\ ~Held /\ pack = None /\ got = None /\ inq = <<>> /\ asked = "none"
      /\ ErrorReal /\ (ver = 4 => sem["connack"] = 0)
  BY <1>1 DEF MeetInv, AtConnect, Loose
<1>3. CASE Failed
  BY <1>1, <1>2, <1>3, MeetFailed
<1>4. CASE ~Failed
  <2>1. /\ apc' = "waitConnack" /\ asked' = "CONNACK" /\ poll' = ~running
        /\ UNCHANGED <<timeUp, ver, sock, socks, running, hold, line, inq>>
    BY <1>4 DEF WaitConnect, ConnectSent, TakeSem, TimeOut
  <2>2. sem'["connack"] = sem["connack"]
    BY <1>4 DEF WaitConnect, ConnectSent, TakeSem, TimeOut, ThreadType, AppType
  <2>3. ~Loose' /\ ~Held' /\ pack' = None /\ got' = None /\ inq' = <<>> /\ ErrorReal'
    BY <1>1, <1>2, <2>1 DEF Loose, Held, ErrorReal
  <2>4. OneAnswer'
    BY <2>1, <2>3 DEF OneAnswer
  <2>5. ~(ver' = 4 /\ sem'["connack"] = 1)
    BY <1>2, <2>1, <2>2
  <2>6. poll' => ~running' /\ pack' = None
    BY <2>1, <2>3
  <2>7. AtConnack'
    BY <1>2, <2>1, <2>3, <2>4, <2>5, <2>6 DEF AtConnack
  <2>8. Linked' /\ Before' /\ AtConnect' /\ AtSuback'
    BY <2>1 DEF MeetInv, Linked, Before, AtConnect, AtSuback
  <2> QED BY <2>7, <2>8 DEF MeetInv
<1> QED BY <1>3, <1>4

LEMMA MeetWaitConnack ==
  ASSUME ThreadType, RunInv, MeetInv, WaitConnack
  PROVE  MeetInv'
<1>1. /\ apc = "waitConnack" /\ apc' = "connack"
      /\ UNCHANGED <<ver, sock, socks, pack, hold, rpc, running, line, asked>>
  BY DEF WaitConnack, WaitPacket, state, runner
<1>2. /\ OneAnswer /\ ~timeUp /\ (poll => ~running /\ pack = None)
      /\ ver = 4 /\ sem["connack"] = 1 => pack # None \/ Mute
  BY <1>1 DEF MeetInv, AtConnack
<1>3. Linked' /\ Before' /\ AtConnect' /\ AtSuback'
  BY <1>1 DEF MeetInv, Linked, Before, AtConnect, AtSuback
<1>4. Held' = Held /\ Loose' = Loose
  BY <1>1 DEF Held, Loose
<1>5. CASE /\ TakeSem("connack") \/ TimeOut("connack")
           /\ got' = pack /\ inq' = inq
  <2>1. pack # None => /\ pack.t = "CONNACK" /\ pack.sock = socks /\ inq = <<>> /\ ~Held
                       /\ asked = "none" /\ line \in {"up", "dead"}
    BY <1>2 DEF OneAnswer, Loose
  <2>2. pack = None /\ ver = 4 /\ ~timeUp' => Mute
    BY <1>2, <1>5 DEF TakeSem, TimeOut
  <2>3. Mute => Mute'
    BY <1>1, <1>4, <1>5 DEF Mute
  <2>4. AtConnack'
    BY <1>1, <1>4, <1>5, <2>1, <2>2, <2>3, Zenon DEF AtConnack
  <2> QED BY <1>3, <2>4 DEF MeetInv
<1>6. CASE poll /\ inq # <<>> /\ got' = Head(inq) /\ inq' = Tail(inq)
  <2>1. inq \in Seq(Packets)
    BY DEF ThreadType, PacketType
  <2>2. Head(inq) = inq[1] /\ Head(inq) \in Packets /\ Len(Tail(inq)) = Len(inq) - 1
        /\ Tail(inq) \in Seq(Packets)
    BY <1>6, <2>1, Arrived
  <2>3. Len(inq) = 1 /\ inq[1].t = "CONNACK" /\ inq[1].sock = socks /\ ~Loose /\ asked = "none"
        /\ line \in {"up", "dead"}
    BY <1>2, <1>6 DEF OneAnswer
  <2>4. inq' = <<>> /\ got' # None
    BY <1>6, <2>2, <2>3, EmptySeq, NoneType
  <2> QED BY <1>1, <1>3, <1>4, <1>6, <2>2, <2>3, <2>4 DEF MeetInv, AtConnack, Loose
<1>7. CASE poll /\ inq = <<>> /\ line # "up" /\ got' = None /\ inq' = inq
  <2>1. rpc = "off" /\ pack = None
    BY <1>2, <1>7 DEF RunInv
  <2>2. Mute'
    BY <1>1, <1>4, <2>1, HoldOf DEF Mute, Loose
  <2> QED BY <1>1, <1>3, <1>7, <2>2 DEF MeetInv, AtConnack
<1> QED BY <1>5, <1>6, <1>7 DEF WaitConnack, WaitPacket

LEMMA MeetConnack ==
  ASSUME ThreadType, MeetInv, Connack
  PROVE  MeetInv'
<1>1. /\ apc = "connack" /\ got' = None /\ pack' = (IF got = None THEN pack ELSE None)
      /\ UNCHANGED timeUp
  BY DEF Connack
<1>2. got # None => inq = <<>> /\ ~Held /\ asked = "none" /\ line \in {"up", "dead"}
  BY <1>1 DEF MeetInv, AtConnack
<1>3. CASE Failed
  <2>1. got = None /\ ver = 4 /\ ~timeUp => ~Held /\ pack = None
    BY <1>1 DEF MeetInv, AtConnack, Mute, Loose
  <2> QED BY <1>1, <1>2, <1>3, <2>1, MeetFailed
<1>4. CASE ~Failed
  <2>1. /\ got.ok /\ apc' = "subscribe"
        /\ UNCHANGED <<sock, socks, hold, line, inq, asked>>
    BY <1>4 DEF Connack, runner, net
  <2>2. got # None
    BY <2>1 DEF None
  <2>3. ~Loose'
    BY <1>1, <1>2, <2>1, <2>2 DEF Loose, Held
  <2> QED BY <1>1, <1>2, <2>1, <2>2, <2>3
          DEF MeetInv, Linked, Before, AtConnect, AtConnack, AtSuback
<1> QED BY <1>3, <1>4

LEMMA MeetSubscribe ==
  ASSUME ThreadType, MeetInv, Subscribe
  PROVE  MeetInv'
<1>1. /\ apc = "subscribe" /\ apc' \in {"waitSuback", "destroy"}
      /\ asked' = (IF line = "up" THEN "SUBACK" ELSE asked) /\ poll' = ~running
      /\ UNCHANGED <<got, sock, socks, pack, hold, running, line, inq>>
  BY DEF Subscribe, state, meet, runner
<1>2. ~Loose /\ inq = <<>> /\ asked = "none" /\ got = None /\ line \in {"up", "dead", "none"}
  BY <1>1 DEF MeetInv, AtSuback
<1>3. ~Loose' /\ ~Held' /\ pack' = None /\ (poll' => ~running')
  BY <1>1, <1>2 DEF Loose, Held
<1>4. Len(inq') = 0
  BY <1>1, <1>2, EmptySeq
<1>5. AtSuback'
  BY <1>1, <1>2, <1>3, <1>4 DEF AtSuback
<1>6. Linked' /\ Before' /\ AtConnect' /\ AtConnack'
  BY <1>1 DEF MeetInv, Linked, Before, AtConnect, AtConnack
<1> QED BY <1>5, <1>6 DEF MeetInv

LEMMA MeetWaitSuback ==
  ASSUME ThreadType, MeetInv, WaitSuback
  PROVE  MeetInv'
<1>1. /\ apc = "waitSuback" /\ apc' = "suback"
      /\ UNCHANGED <<sock, socks, line>>
      /\ \/ got' \in {pack, None}
         \/ poll /\ inq # <<>> /\ got' = Head(inq)
  BY DEF WaitSuback, WaitPacket, state
<1>2. /\ pack # None => pack.t = "SUBACK" /\ pack.sock = socks
      /\ \A i \in 1..Len(inq) : inq[i].sock = socks
      /\ inq # <<>> /\ poll => inq[1].t = "SUBACK"
  BY <1>1 DEF MeetInv, AtSuback
<1>3. inq # <<>> => Head(inq) = inq[1] /\ 1 \in 1..Len(inq)
  BY Arrived DEF ThreadType, PacketType
<1>4. got' # None => got'.t = "SUBACK" /\ got'.sock = socks
  BY <1>1, <1>2, <1>3
<1> QED BY <1>1, <1>4 DEF MeetInv, Linked, Before, AtConnect, AtConnack, AtSuback

LEMMA MeetLeave ==
  ASSUME ThreadType, MeetInv,
         Suback \/ SubscribeFails \/ PublishFails \/ MQTTClient_destroy \/ Stopped \/ Disconnected
  PROVE  MeetInv'
<1>1. apc' \notin Meeting
  <2>1. apc = "stopping" => next \in AfterStop
    BY DEF ThreadType, AppType
  <2> QED BY <2>1 DEF Suback, SubscribeFails, PublishFails, MQTTClient_destroy, Stopped, Disconnected,
          DisconnectInternal, MQTTClient_stop, Meeting, Connecting, AfterStop
<1>2. line' = "none" \/ UNCHANGED <<line, sock, socks>>
  BY DEF Suback, SubscribeFails, PublishFails, MQTTClient_destroy, Stopped, Disconnected,
     DisconnectInternal, MQTTClient_closeSession, net, state
<1> QED BY <1>1, <1>2, Elsewhere DEF MeetInv, Linked

\* What no step of the background thread or of the line changes.
LEMMA MeetIdle ==
  ASSUME MeetInv, rpc = "off" => rpc' = "off",
         UNCHANGED <<apc, got, ver, timeUp, poll, running, sock, socks, connect_state, pack, sem,
                     hold, line, inq, asked>>
  PROVE  MeetInv'
<1>1. Held' = Held /\ Loose' = Loose
  BY DEF Held, Loose
<1>2. Mute => Mute'
  BY <1>1 DEF Mute
<1>3. OneAnswer' = OneAnswer /\ ErrorReal' = ErrorReal
  BY <1>1 DEF OneAnswer, ErrorReal
<1>4. Linked' /\ Before'
  BY <1>1 DEF MeetInv, Linked, Before
<1>5. AtConnect'
  BY <1>1, <1>3 DEF MeetInv, AtConnect
<1>6. AtConnack'
  BY <1>1, <1>2, <1>3 DEF MeetInv, AtConnack
<1>7. AtSuback'
  BY <1>1 DEF MeetInv, AtSuback
<1> QED BY <1>4, <1>5, <1>6, <1>7 DEF MeetInv

LEMMA MeetRunEnds ==
  ASSUME ThreadType, RunInv, MeetInv, RunEnds
  PROVE  MeetInv'
<1>1. /\ tostop /\ rpc' = "off" /\ hold' = None /\ running' = FALSE
      /\ UNCHANGED <<apc, got, ver, timeUp, poll, sock, socks, connect_state, pack, sem,
                     line, inq, asked>>
  BY DEF RunEnds, RunnerOnly, appvars, state, meet, net
<1>2. CASE apc = "stopping"
  BY <1>1, <1>2, Elsewhere DEF MeetInv, Linked, Meeting, Connecting
<1>3. CASE apc # "stopping"
  <2>1. ~Held /\ ~Held' /\ hold'.t = "none"
    BY <1>1, <1>3, HoldOf, NoneType DEF Held, PacketTypes
  <2>2. Loose' = Loose
    BY <1>1, <2>1 DEF Loose
  <2>3. Mute => Mute'
    BY <1>1, <2>2 DEF Mute
  <2>4. (OneAnswer => OneAnswer') /\ ErrorReal'
    BY <1>1, <2>1, <2>2 DEF OneAnswer, ErrorReal
  <2>5. Linked' /\ Before'
    BY <1>1, <2>1, <2>2 DEF MeetInv, Linked, Before
  <2>6. AtConnect'
    BY <1>1, <2>2, <2>4 DEF MeetInv, AtConnect
  <2>7. AtConnack'
    BY <1>1, <2>1, <2>2, <2>3, <2>4 DEF MeetInv, AtConnack
  <2>8. AtSuback'
    BY <1>1, <2>1, <2>2 DEF MeetInv, AtSuback
  <2> QED BY <2>5, <2>6, <2>7, <2>8 DEF MeetInv
<1> QED BY <1>2, <1>3

LEMMA MeetCycle ==
  ASSUME ThreadType, RunInv, MeetInv, Cycle
  PROVE  MeetInv'
<1>1. /\ rpc = "cycle" /\ sock # 0 /\ rpc' = "handle"
      /\ UNCHANGED <<apc, got, ver, timeUp, poll, running, sock, socks, connect_state, pack, sem,
                     line, asked>>
  BY DEF Cycle, RunnerOnly, appvars, state, meet
<1>2. ~Held /\ running /\ rpc # "off"
  BY <1>1, HoldOf DEF RunInv
<1>3. Linked' /\ Before'
  BY <1>1 DEF MeetInv, Linked, Before
<1>4. Mute => inq = <<>> /\ line \in {"failed", "dead"} /\ ~Loose
  BY <1>2 DEF Mute
<1>5. CASE /\ inq' = inq
           /\ \/ hold' = [None EXCEPT !.t = "ready"]
              \/ /\ hold' = [None EXCEPT !.t = "error"]
                 /\ inq = <<>> /\ line \in {"failed", "dead"}
  <2>1. /\ ~Held' /\ hold'.t \in {"ready", "error"}
        /\ hold'.t = "error" => inq = <<>> /\ line \in {"failed", "dead"}
    BY <1>5, SignalType DEF Held, PacketTypes
  <2>2. Loose' = Loose
    BY <1>1, <1>2, <2>1 DEF Loose
  <2>3. (Mute => Mute') /\ ErrorReal' /\ (OneAnswer => OneAnswer')
    BY <1>1, <1>4, <1>5, <2>1, <2>2 DEF Mute, ErrorReal, OneAnswer
  <2>4. AtConnect'
    BY <1>1, <1>5, <2>2, <2>3 DEF MeetInv, AtConnect
  <2>5. AtConnack'
    BY <1>1, <1>5, <2>1, <2>2, <2>3 DEF MeetInv, AtConnack
  <2>6. AtSuback'
    BY <1>1, <1>5, <2>1, <2>2 DEF MeetInv, AtSuback
  <2> QED BY <1>3, <2>4, <2>5, <2>6 DEF MeetInv
<1>6. CASE inq # <<>> /\ hold' = Head(inq) /\ inq' = Tail(inq)
  <2>1. /\ Head(inq) \in Packets /\ Head(inq) = inq[1] /\ Tail(inq) \in Seq(Packets)
        /\ Len(inq) \in Nat \ {0} /\ Len(Tail(inq)) = Len(inq) - 1
        /\ \A i \in 1..Len(Tail(inq)) : Tail(inq)[i] = inq[i + 1]
    BY <1>6, Arrived DEF ThreadType, PacketType
  <2>2. ~Mute /\ apc # "waitConnect" /\ apc # "subscribe" /\ ~(apc = "connack" /\ got # None)
    BY <1>4, <1>6 DEF MeetInv, AtConnect, AtConnack, AtSuback
  <2>3. hold'.t \in PacketTypes
    BY <1>6, <2>1 DEF Packets
  <2>4. Len(inq) = 1 => inq' = <<>>
    BY <1>6, <2>1, EmptySeq
  <2>5. ASSUME OneAnswer PROVE OneAnswer'
    <3>1. /\ Len(inq) = 1 /\ inq[1].t = "CONNACK" /\ inq[1].sock = socks /\ ~Loose
          /\ asked # "CONNACK" /\ line \in {"up", "dead"} /\ asked \in {"none", "CONNACK"}
      BY <1>6, <2>5 DEF OneAnswer
    <3>2. /\ inq' = <<>> /\ hold'.t = "CONNACK" /\ hold'.sock = socks /\ pack' = None
          /\ asked' = "none" /\ line' \in {"up", "dead"}
      BY <1>1, <1>6, <2>1, <2>4, <3>1 DEF Loose
    <3> QED BY <1>1, <3>2 DEF OneAnswer
  <2>6. ErrorReal'
    BY <2>3 DEF ErrorReal, PacketTypes
  <2>7. AtConnect'
    BY <1>1, <2>2 DEF AtConnect
  <2>8. AtConnack'
    <3>1. apc = "waitConnack" /\ ver = 4 => ~(sem["connack"] = 1)
      <4>1. apc = "waitConnack" => pack = None
        BY <1>6 DEF MeetInv, AtConnack, OneAnswer, Loose
      <4> QED BY <2>2, <4>1 DEF MeetInv, AtConnack
    <3>2. apc = "waitConnack" => ~timeUp /\ got = None /\ OneAnswer /\ ~poll
      BY <1>2 DEF MeetInv, AtConnack
    <3>3. ~(apc = "connack" /\ got = None /\ ver = 4 /\ ~timeUp)
      BY <2>2 DEF MeetInv, AtConnack
    <3> QED BY <1>1, <2>2, <2>5, <2>6, <3>1, <3>2, <3>3 DEF AtConnack
  <2>9. AtSuback'
    <3>1. apc = "waitSuback" =>
            /\ ~poll /\ asked = "none" /\ line \in {"up", "dead", "none"} /\ got = None
            /\ \A i \in 1..Len(inq) : inq[i].t \in {"SUBACK", "PUBLISH"} /\ inq[i].sock = socks
            /\ pack # None => pack.t = "SUBACK" /\ pack.sock = socks
      BY <1>2, <1>6 DEF MeetInv, AtSuback
    <3>2. apc = "waitSuback" =>
            /\ \A i \in 1..Len(inq') : inq'[i].t \in {"SUBACK", "PUBLISH"} /\ inq'[i].sock = socks
            /\ hold'.t \in {"SUBACK", "PUBLISH"} /\ hold'.sock = socks
      BY <1>6, <2>1, <3>1
    <3>3. apc = "suback" /\ got # None => got.t = "SUBACK" /\ got.sock = socks
      BY DEF MeetInv, AtSuback
    <3> QED BY <1>1, <2>2, <3>1, <3>2, <3>3 DEF AtSuback
  <2> QED BY <1>3, <2>7, <2>8, <2>9 DEF MeetInv
<1> QED BY <1>5, <1>6 DEF Cycle

\* A packet in the hands of the background thread leaves only three places to the
\* application: before an attempt that is out of time, and the two waits.
LEMMA WhileHeld ==
  ASSUME RunInv, MeetInv, Held
  PROVE  /\ rpc = "handle" => running
         /\ apc \in {"connect", "tcp"} => timeUp /\ ver # 4 /\ sock = 0
         /\ apc # "waitConnect" /\ apc # "subscribe"
         /\ ~(apc = "connack" /\ (got # None \/ (ver = 4 /\ ~timeUp)))
         /\ apc = "waitConnack" =>
              /\ hold.t = "CONNACK" /\ hold.sock = socks /\ pack = None /\ inq = <<>>
              /\ asked = "none" /\ line \in {"up", "dead"} /\ ~timeUp /\ got = None
              /\ poll => ~running
              /\ ~(ver = 4 /\ sem["connack"] = 1)
         /\ apc = "waitSuback" =>
              /\ hold.t \in {"SUBACK", "PUBLISH"} /\ hold.sock = socks /\ asked = "none"
              /\ poll => ~running
<1>1. Loose /\ ~Mute
  BY DEF Loose, Mute
<1>2. apc \in {"connect", "tcp"} => timeUp /\ ver # 4 /\ sock = 0
  BY <1>1 DEF MeetInv, Before
<1>3. apc # "waitConnect" /\ apc # "subscribe"
  BY <1>1 DEF MeetInv, AtConnect, AtSuback
<1>4. ~(apc = "connack" /\ (got # None \/ (ver = 4 /\ ~timeUp)))
  BY <1>1 DEF MeetInv, AtConnack
<1>5. apc = "waitConnack" =>
        /\ hold.t = "CONNACK" /\ hold.sock = socks /\ pack = None /\ inq = <<>>
        /\ asked = "none" /\ line \in {"up", "dead"}
  BY <1>1 DEF MeetInv, AtConnack, OneAnswer
<1>6. apc = "waitConnack" =>
        /\ ~timeUp /\ got = None /\ (poll => ~running)
        /\ ~(ver = 4 /\ sem["connack"] = 1)
  BY <1>1, <1>5 DEF MeetInv, AtConnack
<1>7. apc = "waitSuback" =>
        /\ hold.t \in {"SUBACK", "PUBLISH"} /\ hold.sock = socks /\ asked = "none"
        /\ poll => ~running
  BY <1>1 DEF MeetInv, AtSuback
<1> QED BY <1>2, <1>3, <1>4, <1>5, <1>6, <1>7 DEF RunInv

LEMMA MeetHandlePacket ==
  ASSUME ThreadType, RunInv, MeetInv, HandlePacket
  PROVE  MeetInv'
<1>1. /\ rpc = "handle" /\ hold.t \in {"CONNACK", "SUBACK"} /\ hold' = None
      /\ UNCHANGED <<apc, got, ver, timeUp, poll, running, sock, socks, connect_state,
                     line, inq, asked>>
  BY DEF HandlePacket, RunnerOnly, appvars, state, net
<1>2. Held /\ hold # None /\ ~Held' /\ hold'.t = "none"
  BY <1>1, HoldOf, NoneType DEF Held, PacketTypes
<1>3. /\ pack' = hold
         \/ (pack' = pack /\ sem' = sem)
      /\ sem["connect"] \in {0, 1}
  BY DEF HandlePacket, ThreadType, AppType
<1>4. Linked' /\ Before' /\ AtConnect'
  BY <1>1, <1>2, WhileHeld DEF MeetInv, Linked, Before, AtConnect
<1>5. AtConnack'
  <2>1. apc = "waitConnack" => OneAnswer' /\ ErrorReal'
    BY <1>1, <1>2, <1>3, WhileHeld DEF OneAnswer, ErrorReal, Loose
  <2>2. apc = "waitConnack" /\ ver = 4 /\ sem'["connack"] = 1 => pack' # None
    BY <1>1, <1>2, <1>3, WhileHeld
  <2>3. apc = "waitConnack" => ~timeUp /\ got = None /\ ~poll
    BY <1>1, <1>2, WhileHeld
  <2>4. ~(apc = "connack" /\ (got # None \/ (ver = 4 /\ ~timeUp)))
    BY <1>2, WhileHeld
  <2> QED BY <1>1, <2>1, <2>2, <2>3, <2>4 DEF AtConnack
<1>6. AtSuback'
  <2>1. apc = "waitSuback" =>
          /\ hold.t = "SUBACK" /\ hold.sock = socks /\ asked = "none" /\ ~poll
          /\ line \in {"up", "dead", "none"} /\ got = None
          /\ \A i \in 1..Len(inq) : inq[i].t \in {"SUBACK", "PUBLISH"} /\ inq[i].sock = socks
    BY <1>1, <1>2, WhileHeld DEF MeetInv, AtSuback
  <2>2. apc = "waitSuback" /\ pack' # None => pack'.t = "SUBACK" /\ pack'.sock = socks
    BY <1>3, <2>1 DEF MeetInv, AtSuback
  <2>3. apc = "suback" /\ got # None => got.t = "SUBACK" /\ got.sock = socks
    BY DEF MeetInv, AtSuback
  <2> QED BY <1>1, <1>2, <2>1, <2>2, <2>3, WhileHeld DEF AtSuback
<1> QED BY <1>4, <1>5, <1>6 DEF MeetInv

LEMMA MeetCallArrived ==
  ASSUME ThreadType, RunInv, MeetInv, CallArrived
  PROVE  MeetInv'
<1>1. /\ rpc = "handle" /\ hold.t = "PUBLISH" /\ hold' = None
      /\ UNCHANGED <<apc, got, ver, timeUp, poll, running, sock, socks, connect_state, pack, sem,
                     line, inq, asked>>
  BY DEF CallArrived, RunnerOnly, appvars, state, meet, net
<1>2. Held /\ ~Held' /\ hold'.t = "none"
  BY <1>1, NoneType DEF Held, PacketTypes
<1>3. apc # "waitConnack" /\ ~(apc = "connack" /\ (got # None \/ (ver = 4 /\ ~timeUp)))
  BY <1>1, <1>2, WhileHeld
<1>4. Linked' /\ Before' /\ AtConnect'
  BY <1>1, <1>2, WhileHeld DEF MeetInv, Linked, Before, AtConnect
<1>5. AtConnack'
  BY <1>1, <1>3 DEF AtConnack
<1>6. AtSuback'
  <2>1. apc # "subscribe" /\ (apc = "waitSuback" => asked = "none")
    BY <1>2, WhileHeld
  <2> QED BY <1>1, <1>2, <2>1 DEF MeetInv, AtSuback
<1> QED BY <1>4, <1>5, <1>6 DEF MeetInv

LEMMA MeetHandleReady ==
  ASSUME ThreadType, RunInv, MeetInv, HandleReady
  PROVE  MeetInv'
<1>1. /\ rpc = "handle" /\ hold.t = "ready" /\ hold' = None
      /\ connect_state' \in {connect_state, "NOT_IN_PROGRESS"}
      /\ UNCHANGED <<apc, got, ver, timeUp, poll, running, sock, socks, pack, line, inq, asked>>
  BY DEF HandleReady, RunnerOnly, appvars, net
<1>2. sem'["connack"] = sem["connack"]
  BY DEF HandleReady, Post, ThreadType, AppType
<1>3. ~Held /\ ~Held' /\ hold'.t = "none"
  BY <1>1, NoneType DEF Held, PacketTypes
<1>4. Loose' = Loose
  BY <1>1, <1>3 DEF Loose
<1>5. (Mute => Mute') /\ ErrorReal' /\ (OneAnswer => OneAnswer')
  BY <1>1, <1>3, <1>4 DEF Mute, ErrorReal, OneAnswer
<1>6. Linked' /\ Before'
  BY <1>1, <1>2, <1>3, <1>4 DEF MeetInv, Linked, Before
<1>7. AtConnect'
  BY <1>1, <1>2, <1>4, <1>5 DEF MeetInv, AtConnect
<1>8. AtConnack'
  BY <1>1, <1>2, <1>3, <1>4, <1>5 DEF MeetInv, AtConnack
<1>9. AtSuback'
  BY <1>1, <1>3, <1>4 DEF MeetInv, AtSuback
<1> QED BY <1>6, <1>7, <1>8, <1>9 DEF MeetInv

\* A session that the background thread closes is of a client that is connected.
LEMMA MeetCloses ==
  ASSUME ThreadType, LossInv, RunInv, MeetInv,
         Keepalive \/ (HandleError /\ handle # 0 /\ sock # 0 /\ connected)
  PROVE  MeetInv'
<1>1. /\ connected /\ line' = "none" /\ inq' = <<>> /\ asked' = "none"
      /\ hold' = None \/ hold' = [None EXCEPT !.t = "keepalive"]
      /\ UNCHANGED <<apc, got, poll, pack>>
      /\ running' = running \/ running' = FALSE
  <2>1. CASE Keepalive
    BY <2>1 DEF Keepalive, MQTTClient_closeSession, RunnerOnly, appvars, meet
  <2>2. CASE HandleError /\ handle # 0 /\ sock # 0 /\ connected
    BY <2>2 DEF HandleError, MQTTClient_closeSession, RunnerOnly, appvars
  <2> QED BY <2>1, <2>2
<1>2. apc \notin {"connect"} \cup Connecting
  BY <1>1 DEF LossInv
<1>3. ~Held' /\ (Loose' => Loose)
  BY <1>1, NoneType, SignalType DEF Loose, Held, PacketTypes
<1>4. Linked' /\ Before' /\ AtConnect' /\ AtConnack'
  BY <1>1, <1>2 DEF Linked, Before, AtConnect, AtConnack, Connecting
<1>5. Len(inq') = 0 /\ socks' = socks
  BY <1>1, EmptySeq DEF Keepalive, HandleError, RunnerOnly
<1>6. AtSuback'
  BY <1>1, <1>3, <1>5 DEF MeetInv, AtSuback
<1> QED BY <1>4, <1>6 DEF MeetInv

LEMMA MeetHandleError ==
  ASSUME ThreadType, RunInv, MeetInv, HandleError, ~(handle # 0 /\ sock # 0 /\ connected)
  PROVE  MeetInv'
<1>1. /\ rpc = "handle" /\ hold.t = "error" /\ hold' = None
      /\ connect_state' \in {connect_state, "NOT_IN_PROGRESS"}
      /\ UNCHANGED <<apc, got, ver, timeUp, poll, running, sock, socks, pack, line, inq, asked>>
  BY DEF HandleError, RunnerOnly, appvars, net
<1>2. \/ sem' = sem
      \/ sock # 0 /\ connect_state = "WAIT_FOR_CONNACK"
  BY DEF HandleError
<1>3. ~Held /\ ~Held' /\ hold'.t = "none"
  BY <1>1, NoneType DEF Held, PacketTypes
<1>4. Loose' = Loose
  BY <1>1, <1>3 DEF Loose
<1>5. (Mute => Mute') /\ ErrorReal' /\ (OneAnswer => OneAnswer')
  BY <1>1, <1>3, <1>4 DEF Mute, ErrorReal, OneAnswer
<1>6. Linked' /\ Before'
  BY <1>1, <1>2, <1>3, <1>4 DEF MeetInv, Linked, Before
<1>7. AtConnect'
  BY <1>1, <1>2, <1>4, <1>5 DEF MeetInv, AtConnect
<1>8. AtConnack'
  <2>1. apc = "waitConnack" /\ ver = 4 => pack # None \/ Mute'
    <3>1. apc = "waitConnack" /\ ver = 4 => inq = <<>> /\ line \in {"failed", "dead"}
      BY <1>1 DEF MeetInv, AtConnack, ErrorReal
    <3> QED BY <1>1, <1>3, <3>1 DEF Mute, Loose
  <2> QED BY <1>1, <1>3, <1>4, <1>5, <2>1 DEF MeetInv, AtConnack
<1>9. AtSuback'
  BY <1>1, <1>3, <1>4 DEF MeetInv, AtSuback
<1> QED BY <1>6, <1>7, <1>8, <1>9 DEF MeetInv

\* The line comes up, fails or breaks.
LEMMA MeetLine ==
  ASSUME MeetInv, TcpDone \/ Breaks
  PROVE  MeetInv'
<1>1. /\ \/ line = "connecting" /\ line' \in {"up", "failed"}
         \/ line = "up" /\ line' = "dead"
      /\ UNCHANGED <<apc, got, ver, timeUp, poll, running, sock, socks, connect_state, pack, sem,
                     hold, rpc, inq, asked>>
  BY DEF TcpDone, Breaks, LineOnly, appvars, state, meet, runner
<1>2. Held' = Held /\ Loose' = Loose
  BY <1>1 DEF Held, Loose
<1>3. (Mute => Mute') /\ (ErrorReal => ErrorReal') /\ (OneAnswer => OneAnswer')
  BY <1>1, <1>2 DEF Mute, ErrorReal, OneAnswer
<1>4. Linked' /\ Before'
  BY <1>1, <1>2 DEF MeetInv, Linked, Before
<1>5. AtConnect'
  BY <1>1, <1>2, <1>3 DEF MeetInv, AtConnect
<1>6. AtConnack'
  BY <1>1, <1>2, <1>3 DEF MeetInv, AtConnack
<1>7. AtSuback'
  BY <1>1, <1>2 DEF MeetInv, AtSuback
<1> QED BY <1>4, <1>5, <1>6, <1>7 DEF MeetInv

LEMMA MeetAnswers ==
  ASSUME ThreadType, MeetInv, Answers
  PROVE  MeetInv'
<1>1. PICK p \in Packets : /\ p.t = asked /\ p.sock = sock /\ inq' = Append(inq, p)
  <2>1. \A ok \in BOOLEAN : asked # "none" => Packet(asked, ok) \in Packets
    BY DEF Packet, Packets, PacketTypes, PacketType, AppType, ThreadType
  <2> QED BY <2>1 DEF Answers, Packet
<1>2. /\ line = "up" /\ asked # "none" /\ asked' = "none"
      /\ UNCHANGED <<apc, got, ver, timeUp, poll, running, sock, socks, connect_state, pack, sem,
                     hold, rpc, line>>
  BY DEF Answers, LineOnly, appvars, state, meet, runner
<1>3. p.sock = socks
  BY <1>1, <1>2 DEF MeetInv, Linked
<1>4. Held' = Held /\ Loose' = Loose
  BY <1>2 DEF Held, Loose
<1>5. inq = <<>> => Len(inq') = 1 /\ inq'[1] = p /\ inq' # <<>>
  BY <1>1
<1>6. (Mute => Mute') /\ (ErrorReal => ErrorReal')
  BY <1>2, <1>4 DEF Mute, ErrorReal
<1>7. Linked' /\ Before' /\ AtConnect'
  BY <1>2 DEF MeetInv, Linked, Before, AtConnect
<1>8. AtConnack'
  <2>1. ASSUME OneAnswer PROVE OneAnswer'
    <3>1. asked = "CONNACK" /\ inq = <<>> /\ ~Loose /\ ~Held /\ pack = None
      BY <1>2, <2>1 DEF OneAnswer, Loose
    <3> QED BY <1>1, <1>2, <1>3, <1>4, <1>5, <3>1 DEF OneAnswer
  <2>2. ~(apc = "connack" /\ got # None)
    BY <1>2 DEF MeetInv, AtConnack
  <2> QED BY <1>2, <1>4, <1>6, <2>1, <2>2 DEF MeetInv, AtConnack
<1>9. AtSuback'
  <2>1. apc # "subscribe"
    BY <1>2 DEF MeetInv, AtSuback
  <2>2. apc = "waitSuback" =>
          /\ got = None /\ asked = "SUBACK" /\ inq = <<>> /\ ~Loose /\ pack = None /\ ~Held
          /\ poll => ~running
    BY <1>2 DEF MeetInv, AtSuback, Loose
  <2>3. apc = "suback" /\ got # None => got.t = "SUBACK" /\ got.sock = socks
    BY DEF MeetInv, AtSuback
  <2> QED BY <1>1, <1>2, <1>3, <1>4, <1>5, <2>1, <2>2, <2>3 DEF AtSuback
<1> QED BY <1>7, <1>8, <1>9 DEF MeetInv

LEMMA MeetPublication ==
  ASSUME ThreadType, MeetInv, Publication
  PROVE  MeetInv'
<1>1. PICK p \in Packets : p.t = "PUBLISH" /\ p.sock = sock /\ inq' = Append(inq, p)
  <2>1. Packet("PUBLISH", TRUE) \in Packets
    BY DEF Packet, Packets, PacketTypes, AppType, ThreadType
  <2> QED BY <2>1 DEF Publication, Packet
<1>2. /\ line = "up" /\ asked = "none" /\ apc \in {"waitSuback", "suback", "ready"}
      /\ UNCHANGED <<apc, got, poll, running, sock, socks, pack, hold, line, asked>>
  BY DEF Publication, LineOnly, appvars, state, meet, runner
<1>3. p.sock = socks
  BY <1>1, <1>2 DEF MeetInv, Linked
<1>4. Held' = Held /\ Loose' = Loose
  BY <1>2 DEF Held, Loose
<1>5. /\ Len(inq) \in Nat /\ Len(inq') = Len(inq) + 1 /\ inq'[Len(inq) + 1] = p
      /\ \A i \in 1..Len(inq) : inq'[i] = inq[i]
      /\ inq # <<>> => 1 \in 1..Len(inq)
  BY <1>1, EmptySeq, AppendProperties DEF ThreadType, PacketType
<1>6. Linked' /\ Before' /\ AtConnect' /\ AtConnack'
  BY <1>2 DEF MeetInv, Linked, Before, AtConnect, AtConnack
<1>7. AtSuback'
  <2>1. apc = "waitSuback" =>
          \A i \in 1..Len(inq') : inq'[i].t \in {"SUBACK", "PUBLISH"} /\ inq'[i].sock = socks
    BY <1>1, <1>3, <1>5 DEF MeetInv, AtSuback
  <2>2. apc = "waitSuback" /\ poll => inq # <<>> /\ inq'[1].t = "SUBACK"
    BY <1>2, <1>5 DEF MeetInv, AtSuback
  <2>3. inq' # <<>>
    BY <1>5, EmptySeq
  <2>4. apc # "subscribe"
    BY <1>2
  <2>5. apc = "waitSuback" =>
          /\ got = None /\ line \in {"up", "dead", "none"}
          /\ poll => ~running /\ pack = None
          /\ Held => hold.t \in {"SUBACK", "PUBLISH"} /\ hold.sock = socks
          /\ pack # None => pack.t = "SUBACK" /\ pack.sock = socks
    BY DEF MeetInv, AtSuback
  <2>6. apc = "suback" /\ got # None => got.t = "SUBACK" /\ got.sock = socks
    BY DEF MeetInv, AtSuback
  <2> QED BY <1>2, <1>4, <2>1, <2>2, <2>3, <2>4, <2>5, <2>6 DEF AtSuback
<1> QED BY <1>6, <1>7 DEF MeetInv

LEMMA MeetStep ==
  ASSUME ThreadType, LossInv, RunInv, MeetInv, [Next]_vars
  PROVE  MeetInv'
<1>1. CASE ArrivedReturns \/ ConnectionLost \/ UNCHANGED vars
  <2>1. /\ rpc = "off" => rpc' = "off"
        /\ UNCHANGED <<apc, got, ver, timeUp, poll, running, sock, socks, connect_state, pack, sem,
                       hold, line, inq, asked>>
    BY <1>1 DEF ArrivedReturns, ConnectionLost, RunnerOnly, vars, appvars, state, meet, net, runner
  <2> QED BY <2>1, MeetIdle
<1>2. CASE HandleError
  BY <1>2, MeetCloses, MeetHandleError
<1> QED BY <1>1, <1>2, NextSplit, MeetCreate, MeetStart, MeetTcp, MeetTcpFails, MeetWaitConnect,
        MeetWaitConnack, MeetConnack, MeetSubscribe, MeetWaitSuback, MeetLeave, MeetRunEnds,
        MeetCycle, MeetHandlePacket, MeetHandleReady, MeetCallArrived, MeetCloses, MeetLine,
        MeetAnswers, MeetPublication

\* A packet that waitfor returns is of the type that was waited for and of the present
\* connection, whatever an attempt that failed or timed out has left at the packet
\* pointer, in the semaphores and with the background thread.
THEOREM AnswersAlwaysMatch == Spec => []AnswersMatch
<1> DEFINE Inv == ThreadType /\ LossInv /\ RunInv /\ MeetInv
<1>1. Init => Inv
  <2>1. Init => LossInv /\ MeetInv
    BY DEF Init, LossInv, Connecting, MeetInv, Linked, Before, AtConnect, AtConnack, AtSuback
  <2>2. Init => RunInv
    BY NoneType DEF Init, RunInv
  <2> QED BY <2>1, <2>2, TypeInit
<1>2. Inv /\ [Next]_vars => Inv'
  BY TypeStep, LossStep, RunStep, MeetStep
<1>3. Inv => AnswersMatch
  BY DEF MeetInv, AtConnack, AtSuback, AnswersMatch
<1> QED BY <1>1, <1>2, <1>3, PTL DEF Spec
=============================================================================
