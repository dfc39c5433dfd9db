----------------------------- MODULE ModbusRtu -----------------------------
(***************************************************************************)
(* The Modbus RTU slave: the polling thread of platform/device/chan/mbs.c  *)
(* around FreeModbus (component/freemodbus: modbus/mb.c, modbus/rtu/       *)
(* mbrtu.c and port/portevent.c, portserial.c, porttimer.c), with the      *)
(* serial line and the master, marked external.                            *)
(*                                                                         *)
(* The program has one thread here.  It is cut into actions where it meets *)
(* the line: each read, each byte handed to the receiver or taken from the *)
(* transmitter, the flush, the write and the timer check.  Bytes arrive    *)
(* between any two of them.                                                *)
(*                                                                         *)
(* A byte is <<direction, n, i>>: byte i of the n-th request on the line,  *)
(* or of the reply to it.  The CRC accepts exactly the whole, undamaged    *)
(* bytes of one request.  What a request does to the registers is the      *)
(* subject of module Registers; here it has an address, a length and the   *)
(* length of its reply.                                                    *)
(***************************************************************************)
EXTENDS Integers, Sequences, FiniteSets

CONSTANTS Kinds,         \* the requests a master sends
          Addr,          \* Kinds -> "own" (ucMBAddress), "broadcast" or "other"
          Size,          \* Kinds -> bytes of the request, address and CRC included
          ReplySize,     \* Kinds -> bytes of its reply, address and CRC included
          SIZE_MIN,      \* MB_SER_PDU_SIZE_MIN: 4
          SIZE_MAX,      \* MB_SER_PDU_SIZE_MAX: 256
          BUF_SIZE,      \* BUF_SIZE of the port: 256
          MasterWaits,   \* what the master waits for before its next request
          MaxRequests,   \* bound: requests on the line
          MaxFaults      \* bound: faults of the line, the port and the clock

ASSUME KindAssumption == /\ Addr \in [Kinds -> {"own", "broadcast", "other"}]
                         /\ Size \in [Kinds -> Nat \ {0}]
                         /\ ReplySize \in [Kinds -> Nat \ {0}]
ASSUME SizeAssumption == /\ SIZE_MIN \in Nat \ {0} /\ SIZE_MAX \in Nat \ {0}
                         /\ SIZE_MIN <= SIZE_MAX
                         /\ BUF_SIZE \in Nat /\ SIZE_MAX <= BUF_SIZE
                         /\ \A k \in Kinds : ReplySize[k] <= SIZE_MAX
ASSUME WaitAssumption == MasterWaits \in {"t35", "drained"}
ASSUME RtuBoundAssumption == MaxRequests \in Nat /\ MaxFaults \in Nat

VARIABLES
  pc,              \* where the polling thread is
  eEvent,          \* eMBPoll: the event taken from the queue
  xEventInQueue,   \* ctx->xEventInQueue
  eQueuedEvent,    \* ctx->eQueuedEvent
  eRcvState,       \* ctx->eRcvState
  eSndState,       \* ctx->eSndState
  bTimeoutEnable,  \* ctx->bTimeoutEnable
  ucRTUBuf,        \* ctx->ucRTUBuf up to the last byte written
  usRcvBufferPos,  \* ctx->usRcvBufferPos
  sndCur,          \* ctx->pucSndBufferCur as an index of ucRTUBuf
  usSndBufferCount,\* ctx->usSndBufferCount
  ucBuffer,        \* ctx->ucBuffer up to the last byte written
  uiRxBufferPos,   \* ctx->uiRxBufferPos
  uiTxBufferPos,   \* ctx->uiTxBufferPos
  bRxEnabled,      \* ctx->bRxEnabled
  bTxEnabled,      \* ctx->bTxEnabled
  line,            \* external: bytes in the input queue of the port
  sent,            \* external: kinds of the requests on the line so far
  pos,             \* external: bytes of the last of them that are on the line
  silence,         \* external: how long the line has been silent
  faults,          \* external: faults so far
  rushed,          \* history: a request came before the slave listened again
  executed,        \* history: numbers of the executed requests
  written          \* history: what was written of each frame to the port

event == <<eEvent, xEventInQueue, eQueuedEvent>>
rcv == <<eRcvState, usRcvBufferPos>>
snd == <<eSndState, sndCur, usSndBufferCount>>
port == <<ucBuffer, uiRxBufferPos, uiTxBufferPos, bRxEnabled, bTxEnabled>>
master == <<sent, pos, silence>>
hist == <<rushed, executed, written>>
vars == <<pc, event, rcv, snd, bTimeoutEnable, ucRTUBuf, port, line, master, faults, hist>>

Request(n) == [i \in 1..Size[sent[n]] |-> <<"req", n, i>>]
Reply(n) == [i \in 1..ReplySize[sent[n]] |-> <<"rep", n, i>>]
Noise == <<"noise", 0, 0>>

\* The silences that matter: none, longer than t3.5 (4 ms at 9600 baud), and
\* longer than the 50 ms that prvbMBPortSerialRead waits for a byte.
None == 0
T35 == 1
Select50ms == 2

-----------------------------------------------------------------------------
\* After eMBInit.  The context comes from malloc.  All of it is assigned
\* before it is first read, except eSndState, which has any value.
Init == /\ pc = "start"
        /\ eEvent = "READY" /\ eQueuedEvent = "READY"
        /\ xEventInQueue = FALSE
        /\ eRcvState = "INIT" /\ usRcvBufferPos = 0
        /\ eSndState \in {"IDLE", "XMIT", "garbage"} /\ sndCur = 1 /\ usSndBufferCount = 0
        /\ bTimeoutEnable = FALSE
        /\ ucRTUBuf = <<>>
        /\ ucBuffer = <<>> /\ uiRxBufferPos = 0 /\ uiTxBufferPos = 0
        /\ bRxEnabled = FALSE /\ bTxEnabled = FALSE
        /\ line = <<>>
        /\ sent = <<>> /\ pos = 0 /\ silence = Select50ms
        /\ faults = 0
        /\ rushed = FALSE /\ executed = <<>> /\ written = <<>>

Fault == faults < MaxFaults /\ faults' = faults + 1

xMBPortEventPost(e) == xEventInQueue' = TRUE /\ eQueuedEvent' = e

\* vMBPortSerialEnable(TRUE, FALSE): what is waiting in the port is flushed.
EnableReceiver == /\ bRxEnabled' = TRUE /\ bTxEnabled' = FALSE
                  /\ uiRxBufferPos' = 0
                  /\ line' = <<>>

\* vMBPortSerialEnable(FALSE, TRUE).
EnableTransmitter == /\ bRxEnabled' = FALSE /\ bTxEnabled' = TRUE
                     /\ uiTxBufferPos' = 0
-----------------------------------------------------------------------------
(* The polling thread.                                                     *)

\* The assertions of mbrtu.c (lines 151, 227, 288 and 347, in this order)
\* and of portserial.c, each at the place where it is evaluated.
AssertionFails ==
  \/ pc = "event" /\ eEvent = "FRAME_RECEIVED" /\ usRcvBufferPos >= SIZE_MAX
  \/ pc = "bytes" /\ (eSndState # "IDLE" \/ uiRxBufferPos >= BUF_SIZE)
  \/ pc = "xmit" /\ \/ eRcvState # "IDLE"
                    \/ eSndState = "XMIT" /\ usSndBufferCount # 0 /\ uiTxBufferPos >= BUF_SIZE
  \/ pc = "timer" /\ bTimeoutEnable /\ eRcvState = "IDLE"

\* A failed assertion ends the program.
Abort == /\ AssertionFails
         /\ pc' = "aborted"
         /\ UNCHANGED <<event, rcv, snd, bTimeoutEnable, ucRTUBuf, port, line, master, faults, hist>>

\* eMBEnable and eMBRTUStart.
eMBRTUStart == /\ pc = "start"
               /\ pc' = "get"
               /\ eRcvState' = "INIT"
               /\ EnableReceiver
               /\ bTimeoutEnable' = TRUE
               /\ UNCHANGED <<event, usRcvBufferPos, snd, ucRTUBuf, ucBuffer, uiTxBufferPos,
                              master, faults, hist>>

\* eMBPoll with an event queued.
EventGet == /\ pc = "get" /\ xEventInQueue
            /\ eEvent' = eQueuedEvent
            /\ xEventInQueue' = FALSE
            /\ pc' = "event"
            /\ UNCHANGED <<eQueuedEvent, rcv, snd, bTimeoutEnable, ucRTUBuf, port, line, master,
                           faults, hist>>

\* Where xMBPortSerialPoll goes once its receive loop is left.
AfterReceive == IF bTxEnabled THEN "xmit" ELSE "timer"

\* eMBPoll without an event: the port is polled.
EventNone == /\ pc = "get" /\ ~xEventInQueue
             /\ pc' = IF bRxEnabled THEN "read" ELSE AfterReceive
             /\ UNCHANGED <<event, rcv, snd, bTimeoutEnable, ucRTUBuf, port, line, master,
                            faults, hist>>

\* EV_READY and EV_FRAME_SENT.
OnOther == /\ pc = "event" /\ eEvent \in {"READY", "FRAME_SENT"}
           /\ pc' = "get"
           /\ UNCHANGED <<event, rcv, snd, bTimeoutEnable, ucRTUBuf, port, line, master,
                          faults, hist>>

\* The bytes received: ucRTUBuf[0 .. usRcvBufferPos - 1].
Received == SubSeq(ucRTUBuf, 1, usRcvBufferPos)

\* usMBCRC16(...) = 0 and the length check of eMBRTUReceive.
MutFrameOk(n) == usRcvBufferPos >= SIZE_MIN /\ Head(ucRTUBuf) = <<"req", n, 1>>
MutFrameSize(n) == usRcvBufferPos > SIZE_MIN /\ Received = Request(n)
FrameOk(n) == usRcvBufferPos >= SIZE_MIN /\ Received = Request(n)

ForUs(n) == Addr[sent[n]] \in {"own", "broadcast"}

\* EV_FRAME_RECEIVED: eMBRTUReceive, then the address check of eMBPoll.
OnFrameReceived == /\ pc = "event" /\ eEvent = "FRAME_RECEIVED"
                   /\ ~AssertionFails
                   /\ pc' = "get"
                   /\ IF \E n \in 1..Len(sent) : FrameOk(n) /\ ForUs(n)
                        THEN xMBPortEventPost("EXECUTE")
                        ELSE UNCHANGED <<xEventInQueue, eQueuedEvent>>
                   /\ UNCHANGED <<eEvent, rcv, snd, bTimeoutEnable, ucRTUBuf, port, line, master,
                                  faults, hist>>

\* The request in ucRTUBuf, which EV_EXECUTE reads through ucMBFrame.
Current == Head(ucRTUBuf)[2]

\* eMBRTUSend: the reply was built in place of the request in ucRTUBuf.
eMBRTUSend(n) ==
  IF eRcvState = "IDLE"
    THEN /\ sndCur' = 1
         /\ usSndBufferCount' = ReplySize[sent[n]]
         /\ ucRTUBuf' = Reply(n)
         /\ eSndState' = "XMIT"
         /\ EnableTransmitter
         /\ UNCHANGED uiRxBufferPos
    ELSE UNCHANGED <<snd, ucRTUBuf, uiRxBufferPos, uiTxBufferPos, bRxEnabled, bTxEnabled>>

\* EV_EXECUTE: the handler runs, and a reply is sent unless to a broadcast.
MutOnExecute == /\ pc = "event" /\ eEvent = "EXECUTE"
                /\ pc' = "get"
                /\ executed' = Append(executed, Current)
                /\ eMBRTUSend(Current)
                /\ UNCHANGED <<event, rcv, bTimeoutEnable, ucBuffer, line, master, faults, rushed, written>>
OnExecute == /\ pc = "event" /\ eEvent = "EXECUTE"
             /\ pc' = "get"
             /\ executed' = Append(executed, Current)
             /\ IF Addr[sent[Current]] # "broadcast"
                  THEN eMBRTUSend(Current)
                  ELSE UNCHANGED <<snd, ucRTUBuf, uiRxBufferPos, uiTxBufferPos, bRxEnabled,
                                   bTxEnabled>>
             /\ UNCHANGED <<event, rcv, bTimeoutEnable, ucBuffer, line, master, faults, rushed, written>>

\* prvbMBPortSerialRead returns what has arrived, up to BUF_SIZE bytes.
SerialRead == /\ pc = "read" /\ line # <<>>
              /\ LET usNBytesRead == IF Len(line) <= BUF_SIZE THEN Len(line) ELSE BUF_SIZE
                 IN  /\ ucBuffer' = SubSeq(line, 1, usNBytesRead)
                     /\ line' = SubSeq(line, usNBytesRead + 1, Len(line))
              /\ pc' = "bytes"
              /\ UNCHANGED <<event, rcv, snd, bTimeoutEnable, ucRTUBuf, uiRxBufferPos,
                             uiTxBufferPos, bRxEnabled, bTxEnabled, master, faults, hist>>

\* It returns no byte after 50 ms without one.
SerialReadTimeout == /\ pc = "read" /\ line = <<>> /\ silence = Select50ms
                     /\ pc' = AfterReceive
                     /\ UNCHANGED <<event, rcv, snd, bTimeoutEnable, ucRTUBuf, port, line,
                                    master, faults, hist>>

\* The receive loop of xMBPortSerialPoll, one byte.
NextByte == /\ pc = "bytes" /\ ~AssertionFails
            /\ IF uiRxBufferPos + 1 < Len(ucBuffer)
                 THEN uiRxBufferPos' = uiRxBufferPos + 1 /\ pc' = pc
                 ELSE uiRxBufferPos' = 0 /\ pc' = "read"
            /\ UNCHANGED <<event, snd, ucBuffer, uiTxBufferPos, bRxEnabled, bTxEnabled, line,
                           master, faults, hist>>

\* xMBRTUReceiveFSM.  Every byte restarts the timer.
ReceiveIgnored == /\ eRcvState \in {"INIT", "ERROR"}
                  /\ NextByte
                  /\ bTimeoutEnable' = TRUE
                  /\ UNCHANGED <<rcv, ucRTUBuf>>

ReceiveFirst == /\ eRcvState = "IDLE"
                /\ NextByte
                /\ ucRTUBuf' = <<ucBuffer[uiRxBufferPos + 1]>>
                /\ usRcvBufferPos' = 1
                /\ eRcvState' = "RCV"
                /\ bTimeoutEnable' = TRUE

ReceiveNext == /\ eRcvState = "RCV"
               /\ NextByte
               /\ IF usRcvBufferPos < SIZE_MAX
                    THEN /\ ucRTUBuf' = Append(ucRTUBuf, ucBuffer[uiRxBufferPos + 1])
                         /\ usRcvBufferPos' = usRcvBufferPos + 1
                         /\ eRcvState' = eRcvState
                    ELSE eRcvState' = "ERROR" /\ UNCHANGED <<ucRTUBuf, usRcvBufferPos>>
               /\ bTimeoutEnable' = TRUE

\* xMBRTUTransmitFSM with bytes left: xMBPortSerialPutByte.
TransmitByte == /\ pc = "xmit" /\ ~AssertionFails
                /\ eSndState = "XMIT" /\ usSndBufferCount # 0
                /\ ucBuffer' = Append(SubSeq(ucBuffer, 1, uiTxBufferPos), ucRTUBuf[sndCur])
                /\ uiTxBufferPos' = uiTxBufferPos + 1
                /\ sndCur' = sndCur + 1
                /\ usSndBufferCount' = usSndBufferCount - 1
                /\ UNCHANGED <<pc, event, rcv, eSndState, bTimeoutEnable, ucRTUBuf, uiRxBufferPos,
                               bRxEnabled, bTxEnabled, line, master, faults, hist>>

\* ... and with none: the receiver is enabled before the reply is written.
MutTransmitEnd == /\ pc = "xmit" /\ ~AssertionFails
                  /\ eSndState = "IDLE" \/ (eSndState = "XMIT" /\ usSndBufferCount = 0)
                  /\ pc' = "write"
                  /\ IF eSndState = "XMIT" THEN xMBPortEventPost("FRAME_SENT")
                                           ELSE UNCHANGED <<xEventInQueue, eQueuedEvent>>
                  /\ EnableReceiver
                  /\ UNCHANGED <<eEvent, rcv, snd, bTimeoutEnable, ucRTUBuf, ucBuffer,
                                 uiTxBufferPos, master, faults, hist>>
TransmitEnd == /\ pc = "xmit" /\ ~AssertionFails
               /\ eSndState = "IDLE" \/ (eSndState = "XMIT" /\ usSndBufferCount = 0)
               /\ pc' = "write"
               /\ IF eSndState = "XMIT" THEN xMBPortEventPost("FRAME_SENT")
                                        ELSE UNCHANGED <<xEventInQueue, eQueuedEvent>>
               /\ EnableReceiver
               /\ eSndState' = "IDLE"
               /\ UNCHANGED <<eEvent, rcv, sndCur, usSndBufferCount, bTimeoutEnable, ucRTUBuf,
                              ucBuffer, uiTxBufferPos, master, faults, hist>>

\* prvbMBPortSerialWrite: the loop over write ends with the last byte, or with
\* an error of the port after any part of the frame; the error is only logged.
SerialWrite == /\ pc = "write"
               /\ pc' = "timer"
               /\ \E done \in 0..uiTxBufferPos :
                    /\ written' = Append(written, SubSeq(ucBuffer, 1, done))
                    /\ IF done < uiTxBufferPos THEN Fault ELSE UNCHANGED faults
               /\ UNCHANGED <<event, rcv, snd, bTimeoutEnable, ucRTUBuf, port, line, master,
                              rushed, executed>>

\* vMBPortTimerPoll with the timer off, or when gettimeofday fails.
TimerIdle == /\ pc = "timer"
             /\ \/ ~bTimeoutEnable /\ UNCHANGED faults
                \/ bTimeoutEnable /\ Fault
             /\ pc' = "get"
             /\ UNCHANGED <<event, rcv, snd, bTimeoutEnable, ucRTUBuf, port, line, master, hist>>

\* xMBRTUTimerT35Expired.  The timer is only checked after 50 ms of silence
\* or a reply, so it has always expired.
MutT35Expired == /\ pc = "timer" /\ bTimeoutEnable /\ ~AssertionFails
                 /\ pc' = "get"
                 /\ CASE eRcvState = "INIT" -> xMBPortEventPost("READY") /\ eRcvState' = "IDLE"
                      [] eRcvState = "RCV" -> xMBPortEventPost("FRAME_RECEIVED") /\ eRcvState' = "IDLE"
                      [] OTHER -> UNCHANGED <<xEventInQueue, eQueuedEvent, eRcvState>>
                 /\ bTimeoutEnable' = FALSE
                 /\ UNCHANGED <<eEvent, usRcvBufferPos, snd, ucRTUBuf, port, line, master,
                                faults, hist>>
MutT35Again == /\ pc = "timer" /\ bTimeoutEnable /\ ~AssertionFails
               /\ pc' = "get"
               /\ CASE eRcvState = "INIT" -> xMBPortEventPost("READY")
                    [] eRcvState = "RCV" -> xMBPortEventPost("FRAME_RECEIVED")
                    [] OTHER -> UNCHANGED <<xEventInQueue, eQueuedEvent>>
               /\ IF eRcvState = "RCV" THEN UNCHANGED <<eRcvState, bTimeoutEnable>>
                                       ELSE eRcvState' = "IDLE" /\ bTimeoutEnable' = FALSE
               /\ UNCHANGED <<eEvent, usRcvBufferPos, snd, ucRTUBuf, port, line, master,
                              faults, hist>>
T35Expired == /\ pc = "timer" /\ bTimeoutEnable /\ ~AssertionFails
              /\ pc' = "get"
              /\ CASE eRcvState = "INIT" -> xMBPortEventPost("READY")
                   [] eRcvState = "RCV" -> xMBPortEventPost("FRAME_RECEIVED")
                   [] OTHER -> UNCHANGED <<xEventInQueue, eQueuedEvent>>
              /\ bTimeoutEnable' = FALSE
              /\ eRcvState' = "IDLE"
              /\ UNCHANGED <<eEvent, usRcvBufferPos, snd, ucRTUBuf, port, line, master,
                             faults, hist>>
-----------------------------------------------------------------------------
(* The master and the line (external).                                     *)

\* The slave waits for a request.
Listening == /\ pc = "read" /\ eRcvState = "IDLE" /\ bRxEnabled
             /\ line = <<>>

\* A request is on the line with bytes to follow.
InFrame == sent # <<>> /\ pos < Size[sent[Len(sent)]]

Arrive(b) == line' = Append(line, b) /\ silence' = None

\* The master starts a request after t3.5 of silence, at any time or only once
\* the slave has read all there was.
MasterStart(k) == /\ Len(sent) < MaxRequests
                  /\ silence >= T35
                  /\ ~InFrame
                  /\ MasterWaits = "drained" => pc = "read" /\ line = <<>>
                  /\ sent' = Append(sent, k)
                  /\ pos' = 1
                  /\ Arrive(<<"req", Len(sent) + 1, 1>>)
                  /\ rushed' = (rushed \/ ~Listening)
                  /\ UNCHANGED <<pc, event, rcv, snd, bTimeoutEnable, ucRTUBuf, port, faults,
                                 executed, written>>

\* The next byte of the request arrives, damaged or not, or is lost.
MasterByte == /\ InFrame
              /\ pos' = pos + 1
              /\ \/ Arrive(<<"req", Len(sent), pos + 1>>) /\ UNCHANGED faults
                 \/ Arrive(Noise) /\ Fault
                 \/ Fault /\ UNCHANGED <<line, silence>>
              /\ UNCHANGED <<pc, event, rcv, snd, bTimeoutEnable, ucRTUBuf, port, sent, hist>>

\* The line is silent; inside a request only when the master stalls.
Silence == /\ silence < Select50ms
           /\ silence' = silence + 1
           /\ IF InFrame THEN Fault ELSE UNCHANGED faults
           /\ UNCHANGED <<pc, event, rcv, snd, bTimeoutEnable, ucRTUBuf, port, line, sent, pos,
                          hist>>
-----------------------------------------------------------------------------
PollingThread == \/ eMBRTUStart \/ EventGet \/ EventNone
                 \/ OnOther \/ OnFrameReceived \/ OnExecute \/ Abort
                 \/ SerialRead \/ SerialReadTimeout
                 \/ ReceiveIgnored \/ ReceiveFirst \/ ReceiveNext
                 \/ TransmitByte \/ TransmitEnd \/ SerialWrite
                 \/ TimerIdle \/ T35Expired

Master == \/ \E k \in Kinds : MasterStart(k)
          \/ MasterByte
          \/ Silence

Next == PollingThread \/ Master

Spec == Init /\ [][Next]_vars

\* The thread never blocks for longer than the 50 ms of its select, a master
\* finishes the request it has started, and a line without bytes is silent.
FairSpec == /\ Spec
            /\ WF_vars(PollingThread)
            /\ WF_vars(MasterByte)
            /\ WF_vars(Silence)
-----------------------------------------------------------------------------
\* The program ends in one of two assertions only: mbrtu.c:227, at the first
\* byte it ever receives, when malloc left something else than STATE_TX_IDLE in
\* eSndState; and mbrtu.c:151, at a frame of exactly MB_SER_PDU_SIZE_MAX bytes,
\* which xMBRTUReceiveFSM stores.  Once a byte was received no other length of
\* a frame, no damage and no early request makes an assertion fail.
AbortsOnlyFor ==
  pc = "aborted" =>
    \/ eSndState # "IDLE" /\ usRcvBufferPos = 0 /\ executed = <<>> /\ written = <<>>
    \/ eSndState = "IDLE" /\ eEvent = "FRAME_RECEIVED" /\ usRcvBufferPos = SIZE_MAX

\* A request is executed only when the buffer holds all of its bytes,
\* undamaged and from one request on the line, and it is addressed to this
\* slave: what eMBRTUReceive has accepted is still there at EV_EXECUTE.
ExecutesWholeRequests ==
  pc = "event" /\ eEvent = "EXECUTE" =>
    \E n \in 1..Len(sent) : ForUs(n) /\ Received = Request(n)

\* Every request on the line is executed at most once, in the order of the line.
ExecutedOnce == \A i, j \in 1..Len(executed) : i < j => executed[i] < executed[j]

\* What is written belongs to the reply to an executed request that was no
\* broadcast, at most one each and in their order: no reply is mixed up with a
\* request that arrives while it is built and sent in the same buffer.  It is
\* the whole reply, except that each fault of the port may cut one off.
RepliesMatch ==
  \E f \in [1..Len(written) -> 1..Len(executed)] :
    /\ \A i, j \in 1..Len(written) : i < j => f[i] < f[j]
    /\ \A i \in 1..Len(written) :
         /\ \E done \in 0..ReplySize[sent[executed[f[i]]]] :
              written[i] = SubSeq(Reply(executed[f[i]]), 1, done)
         /\ Addr[sent[executed[f[i]]]] = "own"
    /\ Cardinality({i \in 1..Len(written) : written[i] # Reply(executed[f[i]])}) <= faults

\* However the line behaves, once it is silent the slave listens again: no
\* sequence of damaged, merged, too long or too short frames leaves it deaf.
\* (A failed assertion ends the program: AbortsOnlyFor says which may.)
ListensAgain == []<>(Listening \/ pc = "aborted")

\* The requests on the line that this slave has to answer.
Due == {n \in 1..Len(sent) : Addr[sent[n]] = "own" /\ Size[sent[n]] \in SIZE_MIN..(SIZE_MAX - 1)}

Answered(n) == n \in 1..Len(sent) /\ \E i \in 1..Len(written) : written[i] = Reply(n)

\* A request of a master that waits until the slave listens is answered, as
\* long as the line and the port are undisturbed and malloc left STATE_TX_IDLE
\* in eSndState.
RequestAnswered ==
  \A n \in 1..MaxRequests :
    n \in Due ~> (faults > 0 \/ rushed \/ Answered(n) \/ (pc = "aborted" /\ eSndState # "IDLE"))
=============================================================================
