----------------------------- MODULE PahoThreads -----------------------------
(***************************************************************************)
(* The threads of the Paho client (MQTTClient.c, Thread.c): the thread     *)
(* that connects, subscribes, publishes and destroys, the background       *)
(* thread MQTTClient_run that it starts and stops, the semaphores and the  *)
(* packet pointer through which they meet, and the threads that call       *)
(* connectionLost. One client at a time, with callbacks set, no TLS and no *)
(* websocket, as in mqtt.c. The connection and the broker are external,    *)
(* and so is the application: it destroys a client that could not connect  *)
(* or whose loss was reported, and creates another.                        *)
(*                                                                         *)
(* A step is what happens under mqttclient_mutex; where a function gives   *)
(* the mutex up it is cut. The thread that Thread_start starts sets        *)
(* running within the 100 ms that connectURIVersion sleeps. A new socket   *)
(* gets the descriptor of the closed one, as the kernel hands out the      *)
(* lowest that is free.                                                    *)
(***************************************************************************)
EXTENDS Integers, Sequences, FiniteSets

CONSTANTS MaxClients,   \* bound: clients created
          MaxFaults     \* bound: refusals, breaks, time-outs and slow callbacks

ASSUME ThreadBoundAssumption == MaxClients \in Nat \ {0} /\ MaxFaults \in Nat

VARIABLES
  apc,        \* where the application's thread is
  next,       \* what it does after MQTTClient_stop
  poll,       \* does its waitfor run the cycle itself?
  owed,       \* was_connected of its disconnect1
  ver,        \* MQTTVersion of the attempt: 4, then 3
  timeUp,     \* is the connect time-out over?
  handle,     \* number of the client, 0 if there is none
  connected, connect_state,
  sock,       \* number of the connection, 0 if closed
  pack,       \* m->pack: a packet, or None
  sem,        \* connect_sem, connack_sem, suback_sem
  mrc,        \* m->rc
  got,        \* what waitfor returned
  rpc,        \* where MQTTClient_run is
  hold,       \* what its cycle returned: packet, "error" or "ready"
  running, tostop,
  line,       \* of the socket: "none", "connecting", "failed", "up" or "dead"
  inq,        \* packets that arrived
  asked,      \* the answer that the broker owes: "none", "CONNACK" or "SUBACK"
  losses,     \* threads that will call connectionLost: client and connection
  flag,       \* the application was told of a loss
  reports,    \* connections whose loss was reported
  twice,      \* was one reported again?
  socks, clients, faults,
  handover    \* was a connect begun while the background thread ended on its own or late?

appvars == <<apc, next, poll, owed, ver, timeUp, got>>
state == <<connected, connect_state, sock>>
meet == <<pack, sem, mrc>>
runner == <<rpc, hold, running, tostop>>
net == <<line, inq, asked>>
told == <<losses, flag, reports, twice>>
vars == <<appvars, handle, state, meet, runner, net, told, socks, clients, faults, handover>>

None == [t |-> "none", sock |-> 0, ok |-> FALSE]
Packet(t, ok) == [t |-> t, sock |-> sock, ok |-> ok]
NoSems == [connect |-> 0, connack |-> 0, suback |-> 0]
Fault == faults < MaxFaults /\ faults' = faults + 1

Init ==
  /\ apc = "none" /\ next = "none" /\ poll = FALSE /\ owed = FALSE /\ ver = 4 /\ timeUp = FALSE /\ got = None
  /\ handle = 0 /\ connected = FALSE /\ connect_state = "NOT_IN_PROGRESS" /\ sock = 0
  /\ pack = None /\ sem = NoSems /\ mrc = 0
  /\ rpc = "off" /\ hold = None /\ running = FALSE /\ tostop = FALSE
  /\ line = "none" /\ inq = <<>> /\ asked = "none"
  /\ losses = {} /\ flag = FALSE /\ reports = {} /\ twice = FALSE
  /\ socks = 0 /\ clients = 0 /\ faults = 0 /\ handover = FALSE

-----------------------------------------------------------------------------
(* Closing a session, and stopping the background thread.                  *)

MQTTClient_closeSession ==
  /\ connected' = FALSE /\ connect_state' = "NOT_IN_PROGRESS" /\ sock' = 0
  /\ line' = "none" /\ inq' = <<>> /\ asked' = "none"

\* A thread is started that calls connectionLost, if the client was connected.
MutLossThread(was_connected) ==
  /\ losses' = losses \cup {[client |-> handle, sock |-> socks]}
  /\ twice' = (twice \/ socks \in reports)
  /\ reports' = reports \cup {socks}
LossThread(was_connected) ==
  IF was_connected
  THEN /\ losses' = losses \cup {[client |-> handle, sock |-> socks]}
       /\ twice' = (twice \/ socks \in reports)
       /\ reports' = reports \cup {socks}
  ELSE UNCHANGED <<losses, twice, reports>>

\* stop in another thread than the background thread: with no client connected
\* that one is told to end, and waited for.
MutStop(then) ==
  IF running /\ ~tostop
  THEN tostop' = TRUE /\ apc' = then /\ next' = "none"
  ELSE apc' = then /\ UNCHANGED <<tostop, next>>
MQTTClient_stop(then) ==
  IF running /\ ~tostop
  THEN tostop' = TRUE /\ apc' = "stopping" /\ next' = then
  ELSE apc' = then /\ UNCHANGED <<tostop, next>>

\* The wait ends when the thread has ended, or after ten seconds, which only a slow
\* callback can take.
Stopped ==
  /\ apc = "stopping"
  /\ \/ ~running /\ UNCHANGED <<faults, hold>>
     \/ running /\ rpc = "call" /\ Fault /\ hold' = [None EXCEPT !.t = "late"]
  /\ apc' = next /\ next' = "none"
  /\ UNCHANGED <<poll, owed, ver, timeUp, got, handle, state, meet, rpc, running, tostop, net,
                 told, socks, clients, handover>>

-----------------------------------------------------------------------------
(* The application's thread: create, connect, subscribe, publish, destroy. *)

MQTTClient_create ==
  /\ apc = "none" /\ clients < MaxClients
  /\ clients' = clients + 1 /\ handle' = clients + 1
  /\ connected' = FALSE /\ connect_state' = "NOT_IN_PROGRESS" /\ sock' = 0
  /\ pack' = None /\ sem' = NoSems /\ mrc' = 0
  /\ apc' = "connect" /\ ver' = 4 /\ timeUp' = FALSE /\ got' = None /\ flag' = FALSE
  /\ line' = "none" /\ inq' = <<>> /\ asked' = "none" /\ handover' = FALSE
  /\ UNCHANGED <<next, poll, owed, runner, losses, reports, twice, socks, faults>>

\* The beginning of connectURIVersion: the background thread is started unless there
\* is one.
StartRun ==
  /\ apc = "connect" /\ apc' = "tcp"
  /\ \/ ~running /\ running' = TRUE /\ rpc' = "cycle"
     \/ running /\ UNCHANGED <<running, rpc>>
  /\ handover' = (handover \/ hold.t \in {"keepalive", "late"})
  /\ UNCHANGED <<next, poll, owed, ver, timeUp, got, handle, state, meet, hold, tostop, net, told, socks,
                 clients, faults>>

\* The end of a failed attempt. Version 3 is tried next; after it the background
\* thread is stopped, and subscribe finds the client disconnected.
Failed ==
  /\ MQTTClient_closeSession
  /\ \/ ver = 4 /\ ver' = 3 /\ apc' = "connect" /\ UNCHANGED <<tostop, next>>
     \/ ver = 3 /\ MQTTClient_stop("destroy") /\ UNCHANGED ver
  /\ UNCHANGED <<poll, owed, handle, mrc, rpc, hold, running, told, socks, clients, handover>>

\* MQTTProtocol_connect: no time left, no connection, a connection that is being
\* made, or one that is made at once, on which CONNECT is sent.
TcpConnect ==
  /\ apc = "tcp" /\ ~timeUp
  /\ socks' = socks + 1 /\ sock' = socks + 1 /\ inq' = <<>> /\ poll' = ~running
  /\ \/ /\ line' = "connecting" /\ connect_state' = "TCP_IN_PROGRESS" /\ apc' = "waitConnect"
        /\ UNCHANGED asked
     \/ /\ line' = "up" /\ connect_state' = "WAIT_FOR_CONNACK" /\ apc' = "waitConnack"
        /\ asked' = "CONNACK"
  /\ UNCHANGED <<next, owed, ver, timeUp, got, handle, connected, meet, runner, told, clients,
                 faults, handover>>
TcpFails ==
  /\ apc = "tcp"
  /\ IF timeUp THEN UNCHANGED faults ELSE Fault
  /\ Failed /\ UNCHANGED <<sem, pack, timeUp, got>>

\* waitfor: if there is a background thread when it begins it waits for the semaphore,
\* up to the time-out; if there is none it runs the cycle itself.
TakeSem(s) ==
  /\ ~poll /\ sem[s] = 1
  /\ sem' = [sem EXCEPT ![s] = 0] /\ UNCHANGED <<timeUp, faults>>
TimeOut(s) ==
  /\ ~poll /\ sem[s] = 0 /\ timeUp' = TRUE /\ UNCHANGED sem
  /\ IF running THEN Fault ELSE UNCHANGED faults

\* TCP is up and CONNECT is sent, or the attempt has failed.
ConnectSent(rc) ==
  IF rc = 0 /\ sock # 0
  THEN /\ connect_state' = "WAIT_FOR_CONNACK" /\ apc' = "waitConnack" /\ asked' = "CONNACK"
       /\ poll' = ~running
       /\ UNCHANGED <<next, owed, ver, handle, connected, sock, mrc, rpc, hold, running, tostop,
                      line, inq, told, socks, clients, handover>>
  ELSE Failed

WaitConnect ==
  /\ apc = "waitConnect"
  /\ \/ TakeSem("connect") /\ ConnectSent(mrc)
     \/ TimeOut("connect") /\ ConnectSent(1)
     \/ /\ poll /\ line # "connecting"
        /\ ConnectSent(IF line = "up" THEN 0 ELSE 1) /\ UNCHANGED <<sem, faults, timeUp>>
  /\ UNCHANGED <<got, pack>>

\* The packet pointer is read without the mutex, also after a time-out.
WaitPacket(here, s, then) ==
  /\ apc = here /\ apc' = then
  /\ \/ (TakeSem(s) \/ TimeOut(s)) /\ got' = pack /\ UNCHANGED inq
     \/ /\ poll /\ inq # <<>>
        /\ got' = Head(inq) /\ inq' = Tail(inq) /\ UNCHANGED <<sem, faults, timeUp>>
     \/ /\ poll /\ inq = <<>> /\ line # "up"
        /\ got' = None /\ UNCHANGED <<inq, sem, faults, timeUp>>
  /\ UNCHANGED <<next, poll, owed, ver, handle, state, pack, mrc, runner, line, asked, told, socks,
                 clients, handover>>

WaitConnack == WaitPacket("waitConnack", "connack", "connack")
WaitSuback == WaitPacket("waitSuback", "suback", "suback")

\* CONNACK: accepted, refused, or none came.
MutConnack ==
  /\ apc = "connack" /\ got' = None /\ pack' = pack
  /\ \/ /\ got.ok
        /\ connected' = TRUE /\ connect_state' = "NOT_IN_PROGRESS" /\ apc' = "subscribe"
        /\ UNCHANGED <<next, poll, owed, ver, handle, sock, mrc, runner, net, told, socks, clients,
                       handover>>
     \/ ~got.ok /\ Failed
  /\ UNCHANGED <<sem, timeUp, faults>>
Connack ==
  /\ apc = "connack" /\ got' = None /\ pack' = IF got = None THEN pack ELSE None
  /\ \/ /\ got.ok
        /\ connected' = TRUE /\ connect_state' = "NOT_IN_PROGRESS" /\ apc' = "subscribe"
        /\ UNCHANGED <<next, poll, owed, ver, handle, sock, mrc, runner, net, told, socks, clients,
                       handover>>
     \/ ~got.ok /\ Failed
  /\ UNCHANGED <<sem, timeUp, faults>>

\* disconnect_internal in the application's thread; once the background thread has
\* ended, the thread that calls connectionLost is started.
DisconnectInternal(then) ==
  /\ owed' = connected
  /\ MQTTClient_closeSession
  /\ MQTTClient_stop(then)
  /\ UNCHANGED <<poll, ver, timeUp, handle, sem, mrc, rpc, hold, running, told, socks, clients,
                 faults, handover>>
Disconnected ==
  /\ apc \in {"lostDestroy", "lostReady"}
  /\ apc' = IF apc = "lostReady" THEN "ready" ELSE "destroy"
  /\ LossThread(owed) /\ owed' = FALSE
  /\ UNCHANGED <<next, poll, ver, timeUp, got, handle, state, meet, runner, net, flag, socks,
                 clients, faults, handover>>

\* subscribe: an error unless connected, else SUBSCRIBE is sent, which a broken
\* connection may show.
Subscribe ==
  /\ apc = "subscribe"
  /\ apc' = IF connected THEN "waitSuback" ELSE "destroy"
  /\ asked' = IF line = "up" THEN "SUBACK" ELSE asked
  /\ poll' = ~running
  /\ UNCHANGED <<next, owed, ver, timeUp, got, handle, state, meet, runner, line, inq, told, socks,
                 clients, faults, handover>>
SubscribeFails ==
  /\ apc = "subscribe" /\ connected /\ line = "dead"
  /\ DisconnectInternal("lostDestroy") /\ UNCHANGED <<pack, got>>

Suback ==
  /\ apc = "suback" /\ got' = None
  /\ \/ /\ got # None /\ apc' = "ready" /\ pack' = None
        /\ UNCHANGED <<next, poll, owed, ver, timeUp, handle, state, sem, mrc, runner, net, told,
                       socks, clients, faults, handover>>
     \/ got = None /\ UNCHANGED pack /\ DisconnectInternal("lostDestroy")

\* publish on a broken connection: the error is found here, or by the other thread.
PublishFails ==
  /\ apc = "ready" /\ connected /\ line = "dead"
  /\ DisconnectInternal("lostReady") /\ UNCHANGED <<pack, got>>

\* destroy, when the loss was reported or the connect failed; the last client ends
\* the library.
MQTTClient_destroy ==
  /\ apc = "destroy" \/ (apc = "ready" /\ flag)
  /\ handle' = 0
  /\ MQTTClient_stop("none")
  /\ UNCHANGED <<poll, owed, ver, timeUp, got, state, meet, rpc, hold, running, net, told, socks,
                 clients, faults, handover>>

-----------------------------------------------------------------------------
(* The background thread.                                                  *)

RunnerOnly ==
  UNCHANGED <<appvars, handle, socks, clients, handover>>

\* The end of the thread.
RunEnds ==
  /\ rpc \in {"cycle", "handle"} /\ tostop
  /\ rpc' = "off" /\ hold' = None /\ running' = FALSE /\ tostop' = FALSE
  /\ RunnerOnly /\ UNCHANGED <<state, meet, net, told, faults>>

\* cycle returns a packet, an error, or a socket that is ready while it connects.
Cycle ==
  /\ rpc = "cycle" /\ ~tostop /\ handle # 0 /\ sock # 0
  /\ rpc' = "handle"
  /\ \/ /\ connect_state = "TCP_IN_PROGRESS" /\ line # "connecting"
        /\ hold' = [None EXCEPT !.t = "ready"] /\ UNCHANGED inq
     \/ /\ connect_state # "TCP_IN_PROGRESS" /\ inq # <<>>
        /\ hold' = Head(inq) /\ inq' = Tail(inq)
     \/ /\ connect_state # "TCP_IN_PROGRESS" /\ inq = <<>> /\ line \in {"failed", "dead"}
        /\ hold' = [None EXCEPT !.t = "error"] /\ UNCHANGED inq
  /\ RunnerOnly /\ UNCHANGED <<running, tostop, state, meet, line, asked, told, faults>>

\* No answer to a ping: keepalive, inside cycle, closes the session and sets tostop;
\* the thread ends when it has the mutex again.
Keepalive ==
  /\ rpc = "cycle" /\ ~tostop /\ connected /\ line = "dead"
  /\ LossThread(TRUE) /\ MQTTClient_closeSession
  /\ tostop' = TRUE /\ rpc' = "handle" /\ hold' = [None EXCEPT !.t = "keepalive"]
  /\ RunnerOnly /\ UNCHANGED <<running, meet, flag, faults>>

Post(s) == sem' = [sem EXCEPT ![s] = 1]

\* What the thread does with the result, if the client has an open socket of that
\* descriptor.
HandlePacket ==
  /\ rpc = "handle" /\ ~tostop /\ hold.t \in {"CONNACK", "SUBACK"}
  /\ IF handle # 0 /\ sock # 0
     THEN /\ pack' = hold
          /\ Post(IF hold.t = "CONNACK" THEN "connack" ELSE "suback")
     ELSE UNCHANGED <<pack, sem>>
  /\ rpc' = "cycle" /\ hold' = None
  /\ RunnerOnly /\ UNCHANGED <<running, tostop, mrc, state, net, told, faults>>

HandleReady ==
  /\ rpc = "handle" /\ ~tostop /\ hold.t = "ready"
  /\ IF handle # 0 /\ sock # 0 /\ connect_state = "TCP_IN_PROGRESS"
     THEN /\ mrc' = IF line \in {"failed", "dead"} THEN 1 ELSE 0
          /\ connect_state' = "NOT_IN_PROGRESS" /\ Post("connect")
     ELSE UNCHANGED <<mrc, connect_state, sem>>
  /\ rpc' = "cycle" /\ hold' = None
  /\ RunnerOnly /\ UNCHANGED <<running, tostop, pack, connected, sock, net, told, faults>>

\* An error of a connected client closes the session and ends the thread; one that
\* waits for CONNACK is woken.
MutHandleError ==
  /\ rpc = "handle" /\ ~tostop /\ hold.t = "error" /\ hold' = None
  /\ \/ /\ handle # 0 /\ sock # 0 /\ connected
        /\ LossThread(TRUE) /\ MQTTClient_closeSession
        /\ rpc' = "off" /\ running' = FALSE /\ UNCHANGED <<tostop, sem, flag>>
     \/ /\ ~(handle # 0 /\ sock # 0 /\ connected)
        /\ rpc' = "cycle"
        /\ UNCHANGED <<sem, connect_state, running, tostop, connected, sock, net, told>>
  /\ RunnerOnly /\ UNCHANGED <<pack, mrc, faults>>
MutErrorSilent ==
  /\ rpc = "handle" /\ ~tostop /\ hold.t = "error" /\ hold' = None
  /\ \/ /\ handle # 0 /\ sock # 0 /\ connected
        /\ LossThread(FALSE) /\ MQTTClient_closeSession
        /\ rpc' = "off" /\ running' = FALSE /\ UNCHANGED <<tostop, sem, flag>>
     \/ /\ ~(handle # 0 /\ sock # 0 /\ connected)
        /\ rpc' = "cycle" /\ Post("connack") /\ connect_state' = "NOT_IN_PROGRESS"
        /\ UNCHANGED <<running, tostop, connected, sock, net, told>>
  /\ RunnerOnly /\ UNCHANGED <<pack, mrc, faults>>
HandleError ==
  /\ rpc = "handle" /\ ~tostop /\ hold.t = "error" /\ hold' = None
  /\ \/ /\ handle # 0 /\ sock # 0 /\ connected
        /\ LossThread(TRUE) /\ MQTTClient_closeSession
        /\ rpc' = "off" /\ running' = FALSE /\ UNCHANGED <<tostop, sem, flag>>
     \/ /\ ~(handle # 0 /\ sock # 0 /\ connected)
        /\ rpc' = "cycle"
        /\ IF handle # 0 /\ sock # 0 /\ connect_state = "WAIT_FOR_CONNACK"
           THEN Post("connack") /\ connect_state' = "NOT_IN_PROGRESS"
           ELSE UNCHANGED <<sem, connect_state>>
        /\ UNCHANGED <<running, tostop, connected, sock, net, told>>
  /\ RunnerOnly /\ UNCHANGED <<pack, mrc, faults>>

\* A callback for a message, without the mutex.
CallArrived ==
  /\ rpc = "handle" /\ ~tostop /\ hold.t = "PUBLISH"
  /\ IF handle # 0 /\ sock # 0 THEN rpc' = "call" ELSE rpc' = "cycle"
  /\ hold' = None
  /\ RunnerOnly /\ UNCHANGED <<running, tostop, state, meet, net, told, faults>>
ArrivedReturns ==
  /\ rpc = "call" /\ rpc' = "cycle"
  /\ RunnerOnly /\ UNCHANGED <<hold, running, tostop, state, meet, net, told, faults>>

\* The thread that calls connectionLost.
ConnectionLost ==
  /\ \E l \in losses : losses' = losses \ {l}
  /\ flag' = TRUE
  /\ RunnerOnly /\ UNCHANGED <<runner, state, meet, net, reports, twice, faults>>

-----------------------------------------------------------------------------
(* The connection and the broker: external.                                *)

LineOnly == UNCHANGED <<appvars, handle, state, meet, runner, told, socks, clients, handover>>

TcpDone ==
  /\ line = "connecting"
  /\ \/ line' = "up" /\ UNCHANGED faults
     \/ line' = "failed" /\ Fault
  /\ LineOnly /\ UNCHANGED <<inq, asked>>

\* The broker answers CONNECT and SUBSCRIBE, and may send a publication after that.
Answers ==
  /\ line = "up" /\ asked # "none"
  /\ \E ok \in BOOLEAN :
       /\ IF ok THEN UNCHANGED faults ELSE Fault /\ asked = "CONNACK"
       /\ inq' = Append(inq, Packet(asked, ok))
  /\ asked' = "none"
  /\ LineOnly /\ UNCHANGED line
Publication ==
  /\ line = "up" /\ asked = "none" /\ apc \in {"waitSuback", "suback", "ready"} /\ Fault
  /\ inq' = Append(inq, Packet("PUBLISH", TRUE))
  /\ LineOnly /\ UNCHANGED <<line, asked>>

Breaks ==
  /\ line = "up" /\ Fault
  /\ line' = "dead"
  /\ LineOnly /\ UNCHANGED <<inq, asked>>

-----------------------------------------------------------------------------
Application ==
  \/ MQTTClient_create \/ StartRun \/ TcpConnect \/ WaitConnect \/ WaitConnack \/ Connack
  \/ Subscribe \/ WaitSuback \/ Suback \/ MQTTClient_destroy \/ Stopped
  \/ Disconnected
MQTTClient_run ==
  \/ RunEnds \/ Cycle \/ HandlePacket \/ HandleReady \/ HandleError
  \/ CallArrived \/ ArrivedReturns
Next ==
  \/ Application \/ TcpFails \/ SubscribeFails \/ PublishFails
  \/ MQTTClient_run \/ Keepalive \/ ConnectionLost
  \/ TcpDone \/ Answers \/ Publication \/ Breaks

Spec == Init /\ [][Next]_vars
FairSpec ==
  /\ Spec
  /\ WF_vars(Application) /\ WF_vars(TcpFails) /\ WF_vars(MQTTClient_run)
  /\ WF_vars(ConnectionLost) /\ WF_vars(TcpDone) /\ WF_vars(Answers)

-----------------------------------------------------------------------------
(* Properties.                                                             *)

\* The packet that the application's thread takes as the answer to its CONNECT or
\* SUBSCRIBE is of that type and of the present connection, though the pointer and the
\* semaphores outlive an attempt (waitfor and its callers).
AnswersMatch ==
  /\ apc = "connack" /\ got # None => got.t = "CONNACK" /\ got.sock = socks
  /\ apc = "suback" /\ got # None => got.t = "SUBACK" /\ got.sock = socks

\* connectionLost is called once for a connection at most, whichever threads find it
\* broken (disconnect1).
LossReportedOnce == ~twice

\* While the application believes itself connected the background thread runs and was
\* not told to end, unless the connect began while that thread was ending on its own or
\* later than stop waits.
RunnerServes ==
  apc = "ready" /\ connected /\ ~handover => rpc # "off" /\ running /\ ~tostop

\* A connect ends: every answer, refusal and break reaches the thread that waits for it.
ConnectEnds == apc = "connect" ~> apc \in {"ready", "destroy"}

\* The loss of a connection is reported to the application.
LossIsReported ==
  (apc = "ready" /\ ~handover /\ (line = "dead" \/ ~connected)) ~> (flag \/ apc = "none")
=============================================================================
