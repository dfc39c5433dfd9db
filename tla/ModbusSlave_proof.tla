-------------------------- MODULE ModbusSlave_proof --------------------------
(***************************************************************************)
(* Proofs about the Modbus slave.                                          *)
(*                                                                         *)
(* The RTU link, for every set of requests, every size of the buffers and  *)
(* every number of requests and faults: which assertions of FreeModbus can *)
(* fail, that a request is executed only as a whole and at most once, and  *)
(* that what is written are the replies to executed requests.              *)
(*                                                                         *)
(* The holding registers, for every layout of quantities and registers and *)
(* every sequence of requests and commands: the type invariant, and that a *)
(* read reports what was written or set, up to what a write takes back.    *)
(***************************************************************************)
EXTENDS ModbusRtu, Registers, SequenceTheorems, FiniteSetTheorems, TLAPS

Byte == {"req", "rep", "noise"} \X Nat \X Nat

RtuType ==
  /\ line \in Seq(Byte) /\ ucBuffer \in Seq(Byte) /\ ucRTUBuf \in Seq(Byte)
  /\ sent \in Seq(Kinds) /\ executed \in Seq(Nat) /\ written \in Seq(Seq(Byte))
  /\ usRcvBufferPos \in Nat /\ uiRxBufferPos \in Nat /\ uiTxBufferPos \in Nat
  /\ usSndBufferCount \in Nat /\ sndCur \in Nat /\ pos \in Nat /\ faults \in Nat
  /\ bRxEnabled \in BOOLEAN /\ bTxEnabled \in BOOLEAN

\* The events of a frame that waits to be executed.
FrameEvent == {"FRAME_RECEIVED", "EXECUTE"}

\* Where the polling thread can be in which half of the line, and with which event.
Control ==
  /\ bTxEnabled => /\ ~bRxEnabled /\ eRcvState = "IDLE" /\ ~xEventInQueue
                   /\ pc \in {"get", "xmit"} /\ eSndState = "XMIT"
  /\ ~bTxEnabled => pc # "xmit"
  /\ bTxEnabled \/ pc = "write" => uiTxBufferPos <= Len(ucBuffer)
  /\ bTxEnabled => /\ sndCur >= 1 /\ sndCur + usSndBufferCount = Len(ucRTUBuf) + 1
                   /\ uiTxBufferPos + usSndBufferCount <= SIZE_MAX
  /\ pc \in {"start", "event", "read", "bytes"} => ~xEventInQueue
  /\ xEventInQueue /\ eQueuedEvent \in FrameEvent => pc = "get" /\ eRcvState = "IDLE" /\ ucRTUBuf # <<>>
  /\ pc = "event" /\ eEvent \in FrameEvent => eRcvState = "IDLE" /\ ucRTUBuf # <<>>
  /\ pc = "event" => ~bTxEnabled
  /\ pc = "bytes" => uiRxBufferPos < Len(ucBuffer) /\ Len(ucBuffer) <= BUF_SIZE
  /\ pc \notin {"bytes", "aborted"} => uiRxBufferPos = 0
  /\ bTimeoutEnable => eRcvState # "IDLE"
  /\ pc = "start" => eRcvState = "INIT"
  /\ eRcvState = "RCV" => ucRTUBuf # <<>>

\* The frame in ucRTUBuf is an accepted request.
Accepted == \E n \in 1..Len(sent) : ForUs(n) /\ Received = Request(n) /\ usRcvBufferPos >= SIZE_MIN

AcceptInv == /\ xEventInQueue /\ eQueuedEvent = "EXECUTE" => Accepted
             /\ pc = "event" /\ eEvent = "EXECUTE" => Accepted

\* The numbers of the requests that begin in s after position lo.
Starts(s, lo) == {n \in Nat : \E i \in (lo + 1)..Len(s) : s[i] = <<"req", n, 1>>}

\* They begin in the order of the line.
Up(s, lo) == \A i, j \in (lo + 1)..Len(s), a, b \in Nat :
               i < j /\ s[i] = <<"req", a, 1>> /\ s[j] = <<"req", b, 1>> => a < b

Below(A, B) == \A a \in A, b \in B : a < b

\* The frame in ucRTUBuf is being received or waits to be executed.
Pending == \/ eRcvState = "RCV"
           \/ xEventInQueue /\ eQueuedEvent \in FrameEvent
           \/ pc = "event" /\ eEvent \in FrameEvent

\* The requests that have been executed, are in ucRTUBuf, in ucBuffer, on the line.
Done == {executed[i] : i \in 1..Len(executed)}
Held == IF Pending THEN {n \in Nat : Head(ucRTUBuf) = <<"req", n, 1>>} ELSE {}
Read == IF pc = "bytes" THEN Starts(ucBuffer, uiRxBufferPos) ELSE {}
Coming == Starts(line, 0)

Fresh == /\ Below(Done, Held) /\ Below(Done, Read) /\ Below(Done, Coming)
         /\ Below(Held, Read) /\ Below(Held, Coming) /\ Below(Read, Coming)
         /\ pc = "bytes" => Up(ucBuffer, uiRxBufferPos)
         /\ Up(line, 0)
         /\ Done \cup Held \cup Read \cup Coming \subseteq 1..Len(sent)
         /\ ExecutedOnce
         /\ sent # <<>> => pos >= 1

\* The reply under way is the one to the last executed request.
Sending == bTxEnabled \/ pc = "write"
Last == executed[Len(executed)]

SendInv ==
  Sending =>
    /\ executed # <<>> /\ Addr[sent[Last]] = "own" /\ ucRTUBuf = Reply(Last)
    /\ \A i \in 1..uiTxBufferPos : ucBuffer[i] = Reply(Last)[i]
    /\ bTxEnabled => sndCur = uiTxBufferPos + 1
    /\ IF pc = "write" THEN uiTxBufferPos = ReplySize[sent[Last]]
                       ELSE uiTxBufferPos + usSndBufferCount = ReplySize[sent[Last]]

\* The replies that were cut off, where f finds the request of each.
Cut(f) == {i \in 1..Len(written) : written[i] # Reply(executed[f[i]])}

\* f finds the request that each written frame replies to.
MatchedBy(f) == /\ f \in [1..Len(written) -> 1..Len(executed)]
                /\ \A i, j \in 1..Len(written) : i < j => f[i] < f[j]
                /\ \A i \in 1..Len(written) :
                     /\ \E done \in 0..ReplySize[sent[executed[f[i]]]] :
                          written[i] = SubSeq(Reply(executed[f[i]]), 1, done)
                     /\ Addr[sent[executed[f[i]]]] = "own"
                     /\ Sending => f[i] < Len(executed)
                /\ Cardinality(Cut(f)) <= faults

Matched == \E f \in [1..Len(written) -> 1..Len(executed)] : MatchedBy(f)
-----------------------------------------------------------------------------
(* The control of the polling thread.                                      *)

\* The steps of the thread, the master and the line.
LEMMA RtuSplit ==
  ASSUME [Next]_vars
  PROVE  \/ eMBRTUStart \/ EventGet \/ EventNone \/ OnOther \/ OnFrameReceived \/ Abort
         \/ OnExecute \/ SerialRead \/ SerialReadTimeout
         \/ ReceiveIgnored \/ ReceiveFirst \/ ReceiveNext
         \/ TransmitByte \/ TransmitEnd \/ SerialWrite \/ TimerIdle \/ T35Expired
         \/ (\E k \in Kinds : MasterStart(k)) \/ MasterByte \/ Silence
         \/ UNCHANGED vars
BY DEF Next, PollingThread, Master

\* The bytes of a request and of its reply are bytes.
LEMMA ByteType ==
  /\ <<"noise", 0, 0>> \in Byte
  /\ \A n, i \in Nat : <<"req", n, i>> \in Byte /\ <<"rep", n, i>> \in Byte
BY DEF Byte

\* A reply is a sequence of as many bytes as its request calls for.
LEMMA ReplyType ==
  ASSUME NEW n \in 1..Len(sent), sent \in Seq(Kinds)
  PROVE  /\ sent[n] \in Kinds /\ ReplySize[sent[n]] \in Nat \ {0} /\ Size[sent[n]] \in Nat \ {0}
         /\ ReplySize[sent[n]] <= SIZE_MAX
         /\ Reply(n) \in Seq(Byte) /\ Len(Reply(n)) = ReplySize[sent[n]]
         /\ \A i \in 1..ReplySize[sent[n]] : Reply(n)[i] = <<"rep", n, i>>
<1>1. sent[n] \in Kinds
  BY ElementOfSeq
<1>2. ReplySize[sent[n]] \in Nat \ {0} /\ Size[sent[n]] \in Nat \ {0} /\ ReplySize[sent[n]] <= SIZE_MAX
  BY <1>1, KindAssumption, SizeAssumption
<1>3. n \in Nat /\ \A i \in 1..ReplySize[sent[n]] : <<"rep", n, i>> \in Byte
  <2>1. n \in Nat
    BY LenProperties
  <2>2. ASSUME NEW i \in 1..ReplySize[sent[n]] PROVE <<"rep", n, i>> \in Byte
    <3>1. i \in Nat
      BY <1>2
    <3> QED BY <2>1, <3>1, ByteType
  <2> QED BY <2>1, <2>2
<1>4. Reply(n) \in Seq(Byte) /\ Len(Reply(n)) = ReplySize[sent[n]]
  BY <1>2, <1>3, IsASeq, SMTT(30) DEF Reply
<1> QED BY <1>1, <1>2, <1>4 DEF Reply

\* What a read of the port leaves on the line, and what it takes.
LEMMA ReadEffect ==
  ASSUME RtuType, SerialRead
  PROVE  /\ ucBuffer' \in Seq(Byte) /\ line' \in Seq(Byte)
         /\ \E k \in 1..Len(line) :
              /\ k <= BUF_SIZE /\ Len(ucBuffer') = k /\ Len(line') = Len(line) - k
              /\ \A i \in 1..k : ucBuffer'[i] = line[i]
              /\ \A i \in 1..(Len(line) - k) : line'[i] = line[k + i]
<1> DEFINE k == IF Len(line) <= BUF_SIZE THEN Len(line) ELSE BUF_SIZE
<1>1. line \in Seq(Byte) /\ line # <<>> /\ Len(line) \in Nat \ {0}
  BY EmptySeq DEF RtuType, SerialRead
<1>2. BUF_SIZE \in Nat \ {0}
  BY SizeAssumption
<1>3. k \in 1..Len(line) /\ k <= BUF_SIZE
  BY <1>1, <1>2
<1>4. ucBuffer' = SubSeq(line, 1, k) /\ line' = SubSeq(line, k + 1, Len(line))
  BY DEF SerialRead
<1> HIDE DEF k
<1>5. \A i \in 1..Len(line) : line[i] \in Byte
  BY <1>1, ElementOfSeq
<1>6. /\ SubSeq(line, 1, k) \in Seq(Byte)
      /\ Len(SubSeq(line, 1, k)) = (IF 1 <= k THEN k - 1 + 1 ELSE 0)
      /\ \A i \in 1..(k - 1 + 1) : SubSeq(line, 1, k)[i] = line[1 + i - 1]
  <2>1. \A i \in 1..k : line[i] \in Byte
    BY <1>1, <1>3, <1>5
  <2>2. 1 \in Int /\ k \in Int
    BY <1>1, <1>3
  <2> QED BY <2>1, <2>2, SubSeqProperties
<1>7. /\ SubSeq(line, k + 1, Len(line)) \in Seq(Byte)
      /\ Len(SubSeq(line, k + 1, Len(line)))
           = (IF k + 1 <= Len(line) THEN Len(line) - (k + 1) + 1 ELSE 0)
      /\ \A i \in 1..(Len(line) - (k + 1) + 1) :
           SubSeq(line, k + 1, Len(line))[i] = line[(k + 1) + i - 1]
  <2>1. \A i \in (k + 1)..Len(line) : line[i] \in Byte
    BY <1>1, <1>3, <1>5
  <2>2. k + 1 \in Int /\ Len(line) \in Int
    BY <1>1, <1>3
  <2> QED BY <2>1, <2>2, SubSeqProperties
<1>8. Len(ucBuffer') = k /\ \A i \in 1..k : ucBuffer'[i] = line[i]
  BY <1>1, <1>3, <1>4, <1>6
<1>9. Len(line') = Len(line) - k /\ \A i \in 1..(Len(line) - k) : line'[i] = line[k + i]
  BY <1>1, <1>3, <1>4, <1>7
<1> QED BY <1>3, <1>4, <1>6, <1>7, <1>8, <1>9

\* An accepted frame names the request it came from.
LEMMA AcceptedCurrent ==
  ASSUME RtuType, ucRTUBuf # <<>>, Accepted
  PROVE  /\ Current \in 1..Len(sent) /\ ForUs(Current) /\ Received = Request(Current)
         /\ Head(ucRTUBuf) = <<"req", Current, 1>>
<1>1. PICK n \in 1..Len(sent) : ForUs(n) /\ Received = Request(n) /\ usRcvBufferPos >= SIZE_MIN
  BY DEF Accepted
<1>2. Size[sent[n]] \in Nat \ {0}
  BY ReplyType DEF RtuType
<1>3. 1 \in DOMAIN Request(n) /\ Request(n)[1] = <<"req", n, 1>>
  BY <1>2 DEF Request
<1>4. usRcvBufferPos \in Nat /\ usRcvBufferPos >= 1
  BY <1>1, SizeAssumption DEF RtuType
<1>5. Received[1] = ucRTUBuf[1]
  <2> DEFINE S == {ucRTUBuf[i] : i \in 1..usRcvBufferPos}
  <2>1. \A i \in 1..usRcvBufferPos : ucRTUBuf[i] \in S
    OBVIOUS
  <2> HIDE DEF S
  <2>2. \A i \in 1..(usRcvBufferPos - 1 + 1) : SubSeq(ucRTUBuf, 1, usRcvBufferPos)[i] = ucRTUBuf[1 + i - 1]
    BY <1>4, <2>1, SubSeqProperties
  <2> QED BY <1>4, <2>2 DEF Received
<1>6. Head(ucRTUBuf) = ucRTUBuf[1]
  BY HeadTailProperties DEF RtuType
<1>7. Head(ucRTUBuf) = <<"req", n, 1>>
  BY <1>1, <1>3, <1>5, <1>6
<1>8. Current = n
  BY <1>7 DEF Current
<1> QED BY <1>1, <1>7, <1>8

\* The byte that the receiver takes next.
LEMMA NextByteType ==
  ASSUME RtuType, Control, pc = "bytes"
  PROVE  /\ uiRxBufferPos + 1 \in 1..Len(ucBuffer) /\ Len(ucBuffer) \in Nat
         /\ ucBuffer[uiRxBufferPos + 1] \in Byte
<1>1. Len(ucBuffer) \in Nat /\ uiRxBufferPos \in Nat /\ uiRxBufferPos < Len(ucBuffer)
  BY LenProperties DEF RtuType, Control
<1>2. uiRxBufferPos + 1 \in 1..Len(ucBuffer)
  BY <1>1
<1> QED BY <1>1, <1>2, ElementOfSeq DEF RtuType

\* What the transmitter has put into the buffer of the port.
LEMMA OutputEffect ==
  ASSUME RtuType, Control, bTxEnabled \/ pc = "write", NEW done \in 0..uiTxBufferPos
  PROVE  LET w == SubSeq(ucBuffer, 1, done)
         IN  /\ w \in Seq(Byte) /\ Len(w) = done
             /\ \A i \in 1..done : w[i] = ucBuffer[i]
<1>1. /\ uiTxBufferPos \in Nat /\ Len(ucBuffer) \in Nat /\ uiTxBufferPos <= Len(ucBuffer)
      /\ ucBuffer \in Seq(Byte)
  BY LenProperties DEF RtuType, Control
<1>2. done \in Nat /\ done <= Len(ucBuffer) /\ \A i \in 1..done : ucBuffer[i] \in Byte
  BY <1>1, ElementOfSeq
<1> DEFINE w == SubSeq(ucBuffer, 1, done)
<1>3. /\ w \in Seq(Byte)
      /\ Len(w) = (IF 1 <= done THEN done - 1 + 1 ELSE 0)
      /\ \A i \in 1..(done - 1 + 1) : w[i] = ucBuffer[1 + i - 1]
  BY <1>1, <1>2, SubSeqProperties
<1> HIDE DEF w
<1>4. Len(w) = done /\ \A i \in 1..done : w[i] = ucBuffer[i]
  BY <1>2, <1>3
<1> QED BY <1>3, <1>4 DEF w

\* The transmitter appends a byte of ucRTUBuf.
LEMMA TransmitEffect ==
  ASSUME RtuType, Control, TransmitByte
  PROVE  /\ ucBuffer' \in Seq(Byte) /\ Len(ucBuffer') = uiTxBufferPos + 1
         /\ \A i \in 1..uiTxBufferPos : ucBuffer'[i] = ucBuffer[i]
         /\ ucBuffer'[uiTxBufferPos + 1] = ucRTUBuf[sndCur]
<1> DEFINE w == SubSeq(ucBuffer, 1, uiTxBufferPos)
<1>1. bTxEnabled /\ usSndBufferCount # 0 /\ ucBuffer' = Append(w, ucRTUBuf[sndCur])
  BY DEF TransmitByte, Control, RtuType
<1>2. w \in Seq(Byte) /\ Len(w) = uiTxBufferPos /\ \A i \in 1..uiTxBufferPos : w[i] = ucBuffer[i]
  <2>1. uiTxBufferPos \in 0..uiTxBufferPos
    BY DEF RtuType
  <2> QED BY <1>1, <2>1, OutputEffect
<1> HIDE DEF w
<1>3. ucRTUBuf[sndCur] \in Byte
  <2>1. Len(ucRTUBuf) \in Nat /\ ucRTUBuf \in Seq(Byte)
    BY LenProperties DEF RtuType
  <2>2. sndCur \in 1..Len(ucRTUBuf)
    BY <1>1, <2>1 DEF Control, RtuType
  <2> QED BY <2>1, <2>2, ElementOfSeq
<1>4. /\ ucBuffer' \in Seq(Byte) /\ Len(ucBuffer') = Len(w) + 1
      /\ \A i \in 1..Len(w) : ucBuffer'[i] = w[i]
      /\ ucBuffer'[Len(w) + 1] = ucRTUBuf[sndCur]
  BY <1>1, <1>2, <1>3, AppendProperties
<1> QED BY <1>2, <1>4

\* The types are preserved by every step.
LEMMA RtuTypeStep ==
  ASSUME RtuType, Control, AcceptInv, [Next]_vars
  PROVE  RtuType'
<1> USE DEF event, rcv, snd, port, master, hist
<1>0. <<>> \in Seq(Byte)
  BY EmptySeq
<1>1. CASE \/ EventGet \/ EventNone \/ OnOther \/ OnFrameReceived \/ Abort
           \/ SerialReadTimeout \/ TimerIdle \/ T35Expired \/ Silence \/ UNCHANGED vars
  BY <1>1 DEF EventGet, EventNone, OnOther, OnFrameReceived, Abort, SerialReadTimeout,
              TimerIdle, T35Expired, Silence, Fault, vars, RtuType
<1>2. CASE eMBRTUStart \/ TransmitEnd
  <2>1. /\ line' = <<>> /\ uiRxBufferPos' = 0 /\ bRxEnabled' = TRUE /\ bTxEnabled' = FALSE
        /\ UNCHANGED <<ucBuffer, ucRTUBuf, sent, executed, written, usRcvBufferPos,
                       uiTxBufferPos, usSndBufferCount, sndCur, pos, faults>>
    BY <1>2 DEF eMBRTUStart, TransmitEnd, EnableReceiver
  <2> QED BY <1>0, <2>1 DEF RtuType
<1>3. CASE OnExecute
  <2>1. Current \in 1..Len(sent) /\ sent \in Seq(Kinds)
    BY <1>3, AcceptedCurrent DEF OnExecute, Control, AcceptInv, FrameEvent, RtuType
  <2>2. /\ Current \in Nat /\ ReplySize[sent[Current]] \in Nat /\ Reply(Current) \in Seq(Byte)
    BY <2>1, ReplyType, LenProperties
  <2>3. executed' \in Seq(Nat)
    BY <1>3, <2>2, AppendProperties DEF OnExecute, RtuType
  <2>4. UNCHANGED <<line, ucBuffer, sent, written, usRcvBufferPos, uiRxBufferPos, pos, faults>>
    BY <1>3 DEF OnExecute, eMBRTUSend
  <2>5. \/ UNCHANGED <<ucRTUBuf, uiTxBufferPos, usSndBufferCount, sndCur, bRxEnabled, bTxEnabled>>
        \/ /\ ucRTUBuf' = Reply(Current) /\ usSndBufferCount' = ReplySize[sent[Current]]
           /\ uiTxBufferPos' = 0 /\ sndCur' = 1 /\ bRxEnabled' = FALSE /\ bTxEnabled' = TRUE
    BY <1>3 DEF OnExecute, eMBRTUSend, EnableTransmitter
  <2>6. /\ ucRTUBuf' \in Seq(Byte) /\ uiTxBufferPos' \in Nat /\ usSndBufferCount' \in Nat
        /\ sndCur' \in Nat /\ bRxEnabled' \in BOOLEAN /\ bTxEnabled' \in BOOLEAN
    <3>1. 0 \in Nat /\ 1 \in Nat
      OBVIOUS
    <3> QED BY <2>2, <2>5, <3>1, Zenon DEF RtuType
  <2> QED BY <2>3, <2>4, <2>6 DEF RtuType
<1>4. CASE SerialRead
  <2>1. ucBuffer' \in Seq(Byte) /\ line' \in Seq(Byte)
    BY <1>4, ReadEffect
  <2> QED BY <1>4, <2>1 DEF SerialRead, RtuType
<1>5. CASE ReceiveIgnored \/ ReceiveFirst \/ ReceiveNext
  <2>1. pc = "bytes" /\ uiRxBufferPos' \in Nat
        /\ UNCHANGED <<line, ucBuffer, sent, executed, written, uiTxBufferPos, usSndBufferCount,
                       sndCur, pos, bRxEnabled, bTxEnabled, faults>>
    BY <1>5 DEF ReceiveIgnored, ReceiveFirst, ReceiveNext, NextByte, RtuType
  <2>2. ucBuffer[uiRxBufferPos + 1] \in Byte
    BY <2>1, NextByteType
  <2>3. Append(ucRTUBuf, ucBuffer[uiRxBufferPos + 1]) \in Seq(Byte)
        /\ <<ucBuffer[uiRxBufferPos + 1]>> \in Seq(Byte)
    BY <2>2, AppendProperties DEF RtuType
  <2>4. usRcvBufferPos' \in Nat
    BY <1>5 DEF ReceiveIgnored, ReceiveFirst, ReceiveNext, RtuType
  <2>5. ucRTUBuf' \in Seq(Byte)
    BY <1>5, <2>3 DEF ReceiveIgnored, ReceiveFirst, ReceiveNext, RtuType
  <2> QED BY <2>1, <2>4, <2>5 DEF RtuType
<1>6. CASE TransmitByte
  <2>1. ucBuffer' \in Seq(Byte)
    BY <1>6, TransmitEffect
  <2> QED BY <1>6, <2>1 DEF TransmitByte, RtuType
<1>7. CASE SerialWrite
  <2>0. PICK done \in 0..uiTxBufferPos :
               /\ written' = Append(written, SubSeq(ucBuffer, 1, done))
               /\ faults' \in {faults, faults + 1}
    BY <1>7 DEF SerialWrite, Fault
  <2> DEFINE w == SubSeq(ucBuffer, 1, done)
  <2>1. w \in Seq(Byte)
    BY <1>7, OutputEffect DEF SerialWrite
  <2>2. written' = Append(written, w)
    BY <2>0
  <2> HIDE DEF w
  <2>3. written \in Seq(Seq(Byte)) /\ Append(written, w) \in Seq(Seq(Byte))
    BY <2>1, AppendProperties DEF RtuType
  <2>4. written' \in Seq(Seq(Byte))
    BY <2>2, <2>3
  <2>5. faults' \in Nat
    BY <2>0 DEF RtuType
  <2> QED BY <1>7, <2>4, <2>5 DEF SerialWrite, RtuType
<1>8. CASE \E k \in Kinds : MasterStart(k)
  <2>1. PICK k \in Kinds : MasterStart(k)
    BY <1>8
  <2>2. sent' \in Seq(Kinds)
    BY <2>1, AppendProperties DEF MasterStart, RtuType
  <2>3. <<"req", Len(sent) + 1, 1>> \in Byte
    <3>1. Len(sent) \in Nat
      BY LenProperties DEF RtuType
    <3> QED BY <3>1 DEF Byte
  <2>4. line' \in Seq(Byte)
    BY <2>1, <2>3, AppendProperties DEF MasterStart, Arrive, RtuType
  <2> QED BY <2>1, <2>2, <2>4 DEF MasterStart, RtuType
<1>9. CASE MasterByte
  <2>1. /\ pos' = pos + 1 /\ faults' \in {faults, faults + 1}
        /\ UNCHANGED <<ucBuffer, ucRTUBuf, sent, executed, written, usRcvBufferPos, uiRxBufferPos,
                       uiTxBufferPos, usSndBufferCount, sndCur, bRxEnabled, bTxEnabled>>
        /\ \/ line' = Append(line, <<"req", Len(sent), pos + 1>>)
           \/ line' = Append(line, Noise)
           \/ UNCHANGED line
    BY <1>9 DEF MasterByte, Arrive, Fault
  <2>2. <<"req", Len(sent), pos + 1>> \in Byte /\ Noise \in Byte
    <3>1. Len(sent) \in Nat
      BY LenProperties DEF RtuType
    <3> QED BY <3>1 DEF Byte, Noise, RtuType
  <2>3. line \in Seq(Byte) /\ \A b \in Byte : Append(line, b) \in Seq(Byte)
    BY AppendProperties DEF RtuType
  <2>4. line' \in Seq(Byte)
    BY <2>1, <2>2, <2>3
  <2> QED BY <2>1, <2>4 DEF RtuType
<1> QED BY RtuSplit, <1>1, <1>2, <1>3, <1>4, <1>5, <1>6, <1>7, <1>8, <1>9

\* The control is preserved by every step.
LEMMA ControlStep ==
  ASSUME RtuType, RtuType', Control, AcceptInv, [Next]_vars
  PROVE  Control'
<1> USE DEF event, rcv, snd, port, master, hist, FrameEvent
<1>1. CASE EventGet \/ EventNone \/ OnOther \/ Abort
  <2>1. CASE EventGet
    BY <2>1 DEF EventGet, Control, RtuType
  <2>2. CASE EventNone
    BY <2>2 DEF EventNone, AfterReceive, Control, RtuType
  <2>3. CASE OnOther
    BY <2>3 DEF OnOther, Control, RtuType
  <2>4. CASE Abort
    <3>1. AssertionFails /\ pc' = "aborted" /\ UNCHANGED <<event, rcv, snd, bTimeoutEnable, ucRTUBuf, port>>
      BY <2>4 DEF Abort
    <3>2. bTxEnabled /\ pc = "xmit" => ~AssertionFails
      <4>1. /\ uiTxBufferPos \in Nat /\ usSndBufferCount \in Nat
            /\ BUF_SIZE \in Nat /\ SIZE_MAX \in Nat /\ SIZE_MAX <= BUF_SIZE
        BY SizeAssumption DEF RtuType
      <4>2. bTxEnabled => eRcvState = "IDLE" /\ uiTxBufferPos + usSndBufferCount <= SIZE_MAX
        BY DEF Control
      <4> QED BY <4>1, <4>2 DEF AssertionFails
    <3>3. pc = "get" => ~AssertionFails
      BY DEF AssertionFails
    <3> QED BY <3>1, <3>2, <3>3 DEF Control
  <2> QED BY <1>1, <2>1, <2>2, <2>3, <2>4
<1>2. CASE OnFrameReceived
  BY <1>2 DEF OnFrameReceived, xMBPortEventPost, Control, RtuType
<1>3. CASE SerialReadTimeout \/ TimerIdle \/ Silence \/ MasterByte \/ UNCHANGED vars
  <2>1. CASE SerialReadTimeout
    <3>1. /\ pc = "read" /\ pc' \in {"xmit", "timer"} /\ (pc' = "xmit" => bTxEnabled)
          /\ UNCHANGED <<event, rcv, snd, bTimeoutEnable, ucRTUBuf, port>>
      BY <2>1 DEF SerialReadTimeout, AfterReceive
    <3> QED BY <3>1 DEF Control, RtuType
  <2>2. CASE TimerIdle
    BY <2>2 DEF TimerIdle, Control, RtuType
  <2>3. CASE Silence \/ MasterByte \/ UNCHANGED vars
    <3>1. UNCHANGED <<pc, event, rcv, snd, bTimeoutEnable, ucRTUBuf, port>>
      BY <2>3 DEF Silence, MasterByte, vars
    <3> QED BY <3>1 DEF Control
  <2> QED BY <1>3, <2>1, <2>2, <2>3
<1>4. CASE T35Expired
  BY <1>4 DEF T35Expired, xMBPortEventPost, Control, RtuType
<1>5. CASE eMBRTUStart
  BY <1>5 DEF eMBRTUStart, EnableReceiver, Control, RtuType
<1>6. CASE TransmitEnd
  BY <1>6 DEF TransmitEnd, EnableReceiver, xMBPortEventPost, Control, RtuType
<1>7. CASE OnExecute
  <2>1. Current \in 1..Len(sent) /\ sent \in Seq(Kinds)
    BY <1>7, AcceptedCurrent DEF OnExecute, Control, AcceptInv, RtuType
  <2>2. /\ Len(Reply(Current)) = ReplySize[sent[Current]] /\ ReplySize[sent[Current]] \in Nat
        /\ ReplySize[sent[Current]] <= SIZE_MAX
    BY <2>1, ReplyType
  <2>3. Len(ucBuffer) \in Nat
    BY LenProperties DEF RtuType
  <2>4. CASE UNCHANGED <<snd, ucRTUBuf, uiRxBufferPos, uiTxBufferPos, bRxEnabled, bTxEnabled>>
    BY <1>7, <2>4 DEF OnExecute, Control, RtuType
  <2>5. CASE eMBRTUSend(Current) /\ eRcvState = "IDLE"
    BY <1>7, <2>2, <2>3, <2>5 DEF OnExecute, eMBRTUSend, EnableTransmitter, Control, RtuType
  <2> QED BY <1>7, <2>4, <2>5 DEF OnExecute, eMBRTUSend
<1>8. CASE SerialRead
  <2>1. Len(ucBuffer') \in Nat \ {0} /\ Len(ucBuffer') <= BUF_SIZE
    BY <1>8, ReadEffect
  <2> QED BY <1>8, <2>1 DEF SerialRead, Control, RtuType
<1>9. CASE ReceiveIgnored \/ ReceiveFirst \/ ReceiveNext
  <2>1. pc = "bytes" /\ Len(ucBuffer) \in Nat
    BY <1>9, LenProperties DEF ReceiveIgnored, ReceiveFirst, ReceiveNext, NextByte, RtuType
  <2>2. NextByte /\ (eRcvState' = "RCV" => ucRTUBuf' # <<>>) /\ (bTimeoutEnable' => eRcvState' # "IDLE")
    <3>1. ucBuffer[uiRxBufferPos + 1] \in Byte /\ ucRTUBuf \in Seq(Byte)
      BY <2>1, NextByteType DEF RtuType
    <3>2. Append(ucRTUBuf, ucBuffer[uiRxBufferPos + 1]) # <<>>
      BY <3>1, AppendProperties
    <3>3. <<ucBuffer[uiRxBufferPos + 1]>> # <<>>
      OBVIOUS
    <3> QED BY <1>9, <3>2, <3>3 DEF ReceiveIgnored, ReceiveFirst, ReceiveNext, Control
  <2>3. /\ ~bTxEnabled /\ ~xEventInQueue /\ uiRxBufferPos \in Nat
        /\ uiRxBufferPos < Len(ucBuffer) /\ Len(ucBuffer) <= BUF_SIZE
    BY <2>1 DEF Control, RtuType
  <2>4. /\ UNCHANGED <<event, snd, ucBuffer, uiTxBufferPos, bRxEnabled, bTxEnabled>>
        /\ \/ uiRxBufferPos' < Len(ucBuffer) /\ pc' = "bytes"
           \/ uiRxBufferPos' = 0 /\ pc' = "read"
    BY <2>1, <2>2, <2>3 DEF NextByte
  <2>5. CASE uiRxBufferPos' < Len(ucBuffer) /\ pc' = "bytes"
    BY <2>2, <2>3, <2>4, <2>5 DEF Control
  <2>6. CASE uiRxBufferPos' = 0 /\ pc' = "read"
    BY <2>2, <2>3, <2>4, <2>6 DEF Control
  <2> QED BY <2>4, <2>5, <2>6
<1>10. CASE TransmitByte
  <2>1. Len(ucBuffer') = uiTxBufferPos + 1
    BY <1>10, TransmitEffect
  <2>2. /\ uiTxBufferPos' = uiTxBufferPos + 1 /\ sndCur' = sndCur + 1
        /\ usSndBufferCount' = usSndBufferCount - 1
        /\ UNCHANGED <<pc, event, rcv, eSndState, bTimeoutEnable, ucRTUBuf, uiRxBufferPos,
                       bRxEnabled, bTxEnabled>>
        /\ pc = "xmit"
    BY <1>10 DEF TransmitByte
  <2>3. Len(ucRTUBuf) \in Nat /\ uiTxBufferPos \in Nat /\ sndCur \in Nat /\ usSndBufferCount \in Nat
    BY LenProperties DEF RtuType
  <2>4. /\ bTxEnabled /\ sndCur >= 1 /\ sndCur + usSndBufferCount = Len(ucRTUBuf) + 1
        /\ uiTxBufferPos + usSndBufferCount <= SIZE_MAX
    BY <2>2 DEF Control, RtuType
  <2>5. /\ uiTxBufferPos' <= Len(ucBuffer')
        /\ sndCur' >= 1 /\ sndCur' + usSndBufferCount' = Len(ucRTUBuf') + 1
        /\ uiTxBufferPos' + usSndBufferCount' <= SIZE_MAX
    BY <2>1, <2>2, <2>3, <2>4
  <2> QED BY <2>2, <2>4, <2>5 DEF Control
<1>11. CASE SerialWrite
  BY <1>11 DEF SerialWrite, Control, RtuType
<1>12. CASE \E k \in Kinds : MasterStart(k)
  BY <1>12 DEF MasterStart, Control, RtuType
<1> QED BY RtuSplit, <1>1, <1>2, <1>3, <1>4, <1>5, <1>6, <1>7, <1>8, <1>9, <1>10, <1>11, <1>12

\* A further request on the line does not touch the ones that are there.
LEMMA SentKept ==
  ASSUME RtuType, NEW k \in Kinds, MasterStart(k), NEW n \in 1..Len(sent)
  PROVE  /\ n \in 1..Len(sent') /\ sent'[n] = sent[n]
         /\ Request(n)' = Request(n) /\ Reply(n)' = Reply(n) /\ (ForUs(n) => ForUs(n)')
<1>1. Len(sent) \in Nat /\ Len(sent') = Len(sent) + 1 /\ \A i \in 1..Len(sent) : sent'[i] = sent[i]
  BY AppendProperties, LenProperties DEF MasterStart, RtuType
<1> QED BY <1>1 DEF Request, Reply, ForUs

\* What was accepted stays accepted until it is executed.
LEMMA AcceptStep ==
  ASSUME RtuType, Control, AcceptInv, [Next]_vars
  PROVE  AcceptInv'
<1> USE DEF event, rcv, snd, port, master, hist
<1>1. CASE \E k \in Kinds : MasterStart(k)
  <2>1. PICK k \in Kinds : MasterStart(k)
    BY <1>1
  <2>2. UNCHANGED <<pc, event, usRcvBufferPos, ucRTUBuf, Received>>
    BY <2>1 DEF MasterStart, Received
  <2>3. Accepted => Accepted'
    BY <2>1, <2>2, SentKept DEF Accepted
  <2> QED BY <2>2, <2>3 DEF AcceptInv
<1>2. CASE EventGet
  <2>1. UNCHANGED Accepted
    BY <1>2 DEF EventGet, Accepted, Received, Request, ForUs
  <2> QED BY <1>2, <2>1 DEF EventGet, AcceptInv
<1>3. CASE OnFrameReceived
  <2>1. ~xEventInQueue /\ UNCHANGED Accepted
    BY <1>3 DEF OnFrameReceived, Control, Accepted, Received, Request, ForUs
  <2>2. (\E n \in 1..Len(sent) : FrameOk(n) /\ ForUs(n)) => Accepted
    BY DEF FrameOk, Accepted
  <2> QED BY <1>3, <2>1, <2>2 DEF OnFrameReceived, xMBPortEventPost, AcceptInv
<1>4. CASE OnExecute \/ ReceiveIgnored \/ ReceiveFirst \/ ReceiveNext \/ eMBRTUStart \/ SerialRead
  <2>1. ~xEventInQueue' /\ pc' # "event"
    BY <1>4 DEF OnExecute, ReceiveIgnored, ReceiveFirst, ReceiveNext, NextByte, eMBRTUStart,
                SerialRead, Control
  <2> QED BY <2>1 DEF AcceptInv
<1>5. CASE T35Expired \/ TransmitEnd
  <2>1. /\ \/ UNCHANGED <<xEventInQueue, eQueuedEvent>>
           \/ eQueuedEvent' \in {"READY", "FRAME_RECEIVED", "FRAME_SENT"}
        /\ pc' # "event" /\ UNCHANGED Accepted
    BY <1>5 DEF T35Expired, TransmitEnd, xMBPortEventPost, Accepted, Received, Request, ForUs
  <2> QED BY <2>1 DEF AcceptInv
<1>6. CASE EventNone \/ OnOther \/ Abort \/ SerialReadTimeout \/ TransmitByte
           \/ SerialWrite \/ TimerIdle
  <2>1. UNCHANGED <<xEventInQueue, eQueuedEvent, Accepted>> /\ pc' # "event"
    BY <1>6 DEF EventNone, OnOther, Abort, SerialReadTimeout, TransmitByte, SerialWrite,
                TimerIdle, AfterReceive, Accepted, Received, Request, ForUs
  <2> QED BY <2>1 DEF AcceptInv
<1>7. CASE MasterByte \/ Silence \/ UNCHANGED vars
  <2>1. UNCHANGED <<xEventInQueue, eQueuedEvent, eEvent, pc, Accepted>>
    BY <1>7 DEF MasterByte, Silence, vars, Accepted, Received, Request, ForUs
  <2> QED BY <2>1 DEF AcceptInv
<1> QED BY RtuSplit, <1>1, <1>2, <1>3, <1>4, <1>5, <1>6, <1>7

RtuInv == RtuType /\ Control /\ AcceptInv

\* The invariant holds after eMBInit.
LEMMA RtuInit == Init => RtuInv
<1> SUFFICES ASSUME Init PROVE RtuInv
  OBVIOUS
<1>1. <<>> \in Seq(Byte) /\ <<>> \in Seq(Kinds) /\ <<>> \in Seq(Nat) /\ <<>> \in Seq(Seq(Byte))
  BY EmptySeq
<1> QED BY <1>1 DEF Init, RtuInv, RtuType, Control, AcceptInv

\* The invariant is preserved by every step.
LEMMA RtuStep == RtuInv /\ [Next]_vars => RtuInv'
BY RtuTypeStep, ControlStep, AcceptStep DEF RtuInv

\* A request is executed only when ucRTUBuf holds all of its bytes undamaged and it is
\* addressed to this slave, whatever arrives between its acceptance and EV_EXECUTE.
THEOREM WholeRequestsExecuted == Spec => []ExecutesWholeRequests
<1>1. RtuInv => ExecutesWholeRequests
  BY DEF RtuInv, AcceptInv, Accepted, ExecutesWholeRequests
<1> QED BY <1>1, RtuInit, RtuStep, PTL DEF Spec

\* The transmitter is idle unless a reply is sent ...
SndIdle == ~bTxEnabled => eSndState = "IDLE"

\* ... or eSndState has never been assigned, and then no byte has been received.
Unset == /\ eSndState # "IDLE" /\ ~bTxEnabled /\ pc # "write"
         /\ eRcvState # "RCV"
         /\ xEventInQueue => eQueuedEvent \notin FrameEvent
         /\ pc = "event" => eEvent \notin FrameEvent
         /\ usRcvBufferPos = 0 /\ executed = <<>> /\ written = <<>>

AbortInv == (SndIdle \/ Unset) /\ usRcvBufferPos <= SIZE_MAX /\ AbortsOnlyFor

\* No step leads from one of the two to anything else.
LEMMA SndStep ==
  ASSUME RtuInv, SndIdle \/ Unset, [Next]_vars
  PROVE  (SndIdle \/ Unset)'
<1> USE DEF event, rcv, snd, port, master, hist
<1>1. CASE SndIdle
  <2>1. CASE OnExecute \/ TransmitEnd \/ eMBRTUStart
    BY <1>1, <2>1 DEF OnExecute, eMBRTUSend, EnableTransmitter, TransmitEnd, eMBRTUStart, RtuInv,
                      Control, RtuType, SndIdle
  <2>2. CASE ~(OnExecute \/ TransmitEnd \/ eMBRTUStart)
    <3>1. UNCHANGED <<bTxEnabled, eSndState>>
      BY <2>2, RtuSplit
         DEF EventGet, EventNone, OnOther, OnFrameReceived, Abort, SerialRead,
             SerialReadTimeout, ReceiveIgnored, ReceiveFirst, ReceiveNext, NextByte, TransmitByte,
             SerialWrite, TimerIdle, T35Expired, MasterStart, MasterByte, Silence, vars
    <3> QED BY <1>1, <3>1 DEF SndIdle
  <2> QED BY <2>1, <2>2
<1>2. CASE Unset
  <2>1. ~(OnExecute \/ TransmitEnd \/ TransmitByte \/ OnFrameReceived \/ SerialWrite)
    BY <1>2 DEF OnExecute, TransmitEnd, TransmitByte, OnFrameReceived, SerialWrite, Unset,
                FrameEvent, RtuInv, Control
  <2>2. ~(ReceiveIgnored \/ ReceiveFirst \/ ReceiveNext)
    BY <1>2 DEF ReceiveIgnored, ReceiveFirst, ReceiveNext, NextByte, AssertionFails, Unset
  <2>3. CASE EventGet
    BY <1>2, <2>3 DEF EventGet, Unset
  <2>4. CASE T35Expired
    BY <1>2, <2>4 DEF T35Expired, xMBPortEventPost, Unset, FrameEvent
  <2>5. CASE eMBRTUStart
    BY <1>2, <2>5 DEF eMBRTUStart, EnableReceiver, Unset
  <2>6. CASE \/ EventNone \/ OnOther \/ Abort \/ SerialRead \/ SerialReadTimeout \/ TimerIdle
             \/ (\E k \in Kinds : MasterStart(k)) \/ MasterByte \/ Silence \/ UNCHANGED vars
    <3>1. /\ UNCHANGED <<event, rcv, eSndState, bTxEnabled, executed, written>>
          /\ pc' = "event" => pc = "event"
          /\ pc' = "write" => pc = "write"
      BY <2>6 DEF EventNone, OnOther, Abort, SerialRead, SerialReadTimeout, TimerIdle, AfterReceive,
                  MasterStart, MasterByte, Silence, vars
    <3> QED BY <1>2, <3>1 DEF Unset
  <2> QED BY <2>1, <2>2, <2>3, <2>4, <2>5, <2>6, RtuSplit
<1> QED BY <1>1, <1>2

\* The receive buffer never holds more than the largest frame.
LEMMA LengthStep ==
  ASSUME RtuType, usRcvBufferPos <= SIZE_MAX, [Next]_vars
  PROVE  usRcvBufferPos' <= SIZE_MAX
<1> USE DEF event, rcv, snd, port, master, hist
<1>1. SIZE_MAX \in Nat \ {0} /\ usRcvBufferPos \in Nat
  BY SizeAssumption DEF RtuType
<1>2. CASE ReceiveFirst \/ ReceiveNext
  BY <1>1, <1>2 DEF ReceiveFirst, ReceiveNext
<1>3. CASE ~(ReceiveFirst \/ ReceiveNext)
  <2>1. usRcvBufferPos' = usRcvBufferPos
    BY <1>3, RtuSplit
       DEF eMBRTUStart, EventGet, EventNone, OnOther, OnFrameReceived, Abort, OnExecute, SerialRead,
           SerialReadTimeout, ReceiveIgnored, TransmitByte, TransmitEnd, SerialWrite, TimerIdle,
           T35Expired, MasterStart, MasterByte, Silence, vars
  <2> QED BY <2>1
<1> QED BY <1>2, <1>3

\* An assertion fails for one of the two reasons.
LEMMA AbortReasons ==
  ASSUME RtuInv, SndIdle \/ Unset, usRcvBufferPos <= SIZE_MAX, AssertionFails
  PROVE  \/ eSndState # "IDLE" /\ usRcvBufferPos = 0 /\ executed = <<>> /\ written = <<>>
         \/ eSndState = "IDLE" /\ eEvent = "FRAME_RECEIVED" /\ usRcvBufferPos = SIZE_MAX
<1>1. /\ uiRxBufferPos \in Nat /\ uiTxBufferPos \in Nat /\ usSndBufferCount \in Nat
      /\ usRcvBufferPos \in Nat /\ Len(ucBuffer) \in Nat
      /\ BUF_SIZE \in Nat /\ SIZE_MAX \in Nat /\ SIZE_MAX <= BUF_SIZE
  BY LenProperties, SizeAssumption DEF RtuInv, RtuType
<1>2. pc = "bytes" => uiRxBufferPos < BUF_SIZE /\ ~bTxEnabled
  BY <1>1 DEF RtuInv, Control
<1>3. ~(pc = "timer" /\ bTimeoutEnable /\ eRcvState = "IDLE")
  BY DEF RtuInv, Control
<1>4. pc # "xmit" \/ (eRcvState = "IDLE" /\ (usSndBufferCount # 0 => uiTxBufferPos < BUF_SIZE))
  <2>1. pc = "xmit" => eRcvState = "IDLE" /\ uiTxBufferPos + usSndBufferCount <= SIZE_MAX
    BY DEF RtuInv, Control
  <2> QED BY <1>1, <2>1
<1>5. \/ pc = "event" /\ eEvent = "FRAME_RECEIVED" /\ usRcvBufferPos >= SIZE_MAX
      \/ pc = "bytes" /\ eSndState # "IDLE"
  BY <1>1, <1>2, <1>3, <1>4 DEF AssertionFails
<1>6. CASE pc = "event" /\ eEvent = "FRAME_RECEIVED" /\ usRcvBufferPos >= SIZE_MAX
  <2>1. usRcvBufferPos = SIZE_MAX
    BY <1>1, <1>6
  <2>2. ~Unset /\ ~bTxEnabled
    BY <1>6 DEF Unset, FrameEvent, RtuInv, Control
  <2> QED BY <1>6, <2>1, <2>2 DEF SndIdle
<1>7. CASE pc = "bytes" /\ eSndState # "IDLE"
  BY <1>2, <1>7 DEF SndIdle, Unset
<1> QED BY <1>5, <1>6, <1>7

\* No assertion of FreeModbus fails but mbrtu.c:227, at the first byte when malloc left
\* another value than STATE_TX_IDLE in eSndState, and mbrtu.c:151, at a frame of exactly
\* MB_SER_PDU_SIZE_MAX bytes.
THEOREM FailingAssertions == Spec => []AbortsOnlyFor
<1>1. Init => AbortInv
  BY SizeAssumption DEF Init, AbortInv, SndIdle, Unset, AbortsOnlyFor, FrameEvent
<1>2. RtuInv /\ AbortInv /\ [Next]_vars => AbortInv'
  <2> SUFFICES ASSUME RtuInv, AbortInv, [Next]_vars PROVE AbortInv'
    OBVIOUS
  <2>1. (SndIdle \/ Unset)' /\ usRcvBufferPos' <= SIZE_MAX
    BY SndStep, LengthStep DEF RtuInv, AbortInv
  <2>2. AbortsOnlyFor'
    <3>1. CASE Abort
      <4>1. UNCHANGED <<eSndState, usRcvBufferPos, executed, written, eEvent>>
        BY <3>1 DEF Abort, event, rcv, snd, hist
      <4>2. AssertionFails
        BY <3>1 DEF Abort
      <4> QED BY <4>1, <4>2, AbortReasons DEF AbortInv, AbortsOnlyFor
    <3>2. CASE ~Abort
      <4>1. CASE pc' = "aborted"
        <5>1. /\ pc = "aborted"
              /\ UNCHANGED <<eSndState, usRcvBufferPos, executed, written, eEvent>>
          BY <3>2, <4>1, RtuSplit
             DEF eMBRTUStart, EventGet, EventNone, OnOther, OnFrameReceived, OnExecute, SerialRead,
                 SerialReadTimeout, ReceiveIgnored, ReceiveFirst, ReceiveNext, NextByte,
                 TransmitByte, TransmitEnd, SerialWrite, TimerIdle, T35Expired, AfterReceive,
                 MasterStart, MasterByte, Silence, vars, event, rcv, snd, hist
        <5> QED BY <5>1 DEF AbortInv, AbortsOnlyFor
      <4> QED BY <4>1 DEF AbortsOnlyFor
    <3> QED BY <3>1, <3>2
  <2> QED BY <2>1, <2>2 DEF AbortInv
<1>3. AbortInv => AbortsOnlyFor
  BY DEF AbortInv
<1> QED BY <1>1, <1>2, <1>3, RtuInit, RtuStep, PTL DEF Spec
-----------------------------------------------------------------------------
(* Requests are executed once.                                             *)

\* Steps that lose requests on their way, or none.
LEMMA FreshShrink ==
  ASSUME Fresh, UNCHANGED <<executed, sent>>, pos' \in Nat, pos \in Nat, pos <= pos',
         Held' \subseteq Held, Read' \subseteq Read, Coming' \subseteq Coming,
         (pc = "bytes" => Up(ucBuffer, uiRxBufferPos))', Up(line, 0)'
  PROVE  Fresh'
<1>1. UNCHANGED <<Done, ExecutedOnce, Len(sent)>>
  BY DEF Done, ExecutedOnce
<1>2. (sent # <<>> => pos >= 1)'
  BY DEF Fresh
<1> QED BY <1>1, <1>2 DEF Fresh, Below

\* Steps of the thread that take no byte and execute nothing.
LEMMA FreshControl ==
  ASSUME RtuInv, Fresh,
         \/ EventGet \/ EventNone \/ OnOther \/ OnFrameReceived \/ Abort
         \/ SerialReadTimeout \/ SerialWrite \/ TimerIdle \/ T35Expired \/ TransmitByte
         \/ Silence \/ UNCHANGED vars
  PROVE  Fresh'
<1> USE DEF event, rcv, snd, port, master, hist
<1>1. UNCHANGED <<executed, sent, pos, line, ucRTUBuf>>
  BY DEF EventGet, EventNone, OnOther, OnFrameReceived, Abort, SerialReadTimeout,
         SerialWrite, TimerIdle, T35Expired, TransmitByte, Silence, vars
<1>2. pc' = "bytes" => pc = "bytes" /\ UNCHANGED <<ucBuffer, uiRxBufferPos>>
  BY DEF EventGet, EventNone, OnOther, OnFrameReceived, Abort, SerialReadTimeout,
         SerialWrite, TimerIdle, T35Expired, TransmitByte, Silence, vars, AfterReceive
<1>3. Pending' => Pending
  <2>1. CASE EventGet
    BY <2>1 DEF EventGet, Pending
  <2>2. CASE OnFrameReceived
    BY <2>2 DEF OnFrameReceived, Pending, FrameEvent
  <2>3. CASE T35Expired
    BY <2>3 DEF T35Expired, xMBPortEventPost, Pending, FrameEvent
  <2>4. CASE \/ EventNone \/ OnOther \/ Abort \/ SerialReadTimeout \/ SerialWrite
             \/ TimerIdle \/ TransmitByte \/ Silence \/ UNCHANGED vars
    <3>1. UNCHANGED <<event, eRcvState>> /\ (pc' = "event" => pc = "event")
      BY <2>4 DEF EventNone, OnOther, Abort, SerialReadTimeout, SerialWrite, TimerIdle,
                  TransmitByte, Silence, vars, AfterReceive
    <3> QED BY <3>1 DEF Pending
  <2> QED BY <2>1, <2>2, <2>3, <2>4
<1>4. Held' \subseteq Held
  BY <1>1, <1>3 DEF Held
<1>5. Read' \subseteq Read /\ Coming' \subseteq Coming
  BY <1>1, <1>2 DEF Read, Coming, Starts
<1>6. (pc = "bytes" => Up(ucBuffer, uiRxBufferPos))' /\ Up(line, 0)'
  BY <1>1, <1>2 DEF Fresh, Up
<1>7. pos \in Nat /\ pos' \in Nat /\ pos <= pos'
  BY <1>1 DEF RtuInv, RtuType
<1> QED BY <1>1, <1>4, <1>5, <1>6, <1>7, FreshShrink

\* The receiver is enabled: what was on the line is flushed.
LEMMA FreshFlush ==
  ASSUME RtuInv, Fresh, eMBRTUStart \/ TransmitEnd
  PROVE  Fresh'
<1> USE DEF event, rcv, snd, port, master, hist
<1>1. UNCHANGED <<executed, sent, pos, ucRTUBuf>> /\ line' = <<>> /\ pc' \notin {"bytes", "event"}
  BY DEF eMBRTUStart, TransmitEnd, EnableReceiver
<1>2. Pending' => Pending
  BY DEF eMBRTUStart, TransmitEnd, xMBPortEventPost, Pending, FrameEvent
<1>3. Held' \subseteq Held /\ Read' = {}
  BY <1>1, <1>2 DEF Held, Read
<1>4. Len(line') = 0
  BY <1>1
<1>5. Coming' = {} /\ Up(line, 0)'
  BY <1>4 DEF Coming, Starts, Up
<1>6. pos \in Nat /\ pos' \in Nat /\ pos <= pos'
  BY <1>1 DEF RtuInv, RtuType
<1> QED BY <1>1, <1>3, <1>5, <1>6, FreshShrink

\* A request is executed: it is later than the ones before it, and no longer held.
LEMMA FreshExecute ==
  ASSUME RtuInv, Fresh, OnExecute
  PROVE  Fresh'
<1> USE DEF event, rcv, snd, port, master, hist
<1>1. /\ pc = "event" /\ eEvent = "EXECUTE" /\ pc' = "get" /\ executed' = Append(executed, Current)
      /\ UNCHANGED <<sent, pos, line, event, eRcvState>>
  BY DEF OnExecute
<1>2. /\ ucRTUBuf # <<>> /\ eRcvState = "IDLE" /\ ~xEventInQueue /\ Accepted
  BY <1>1 DEF RtuInv, Control, AcceptInv, FrameEvent
<1>3. Current \in 1..Len(sent) /\ Head(ucRTUBuf) = <<"req", Current, 1>>
  BY <1>2, AcceptedCurrent DEF RtuInv
<1>4. Current \in Nat /\ Len(sent) \in Nat
  BY <1>3, LenProperties DEF RtuInv, RtuType
<1>5. Current \in Held
  BY <1>1, <1>3, <1>4 DEF Held, Pending, FrameEvent
<1>6. Held' = {} /\ Read' = {} /\ Coming' = Coming
  BY <1>1, <1>2 DEF Held, Pending, Read, Coming
<1>7. /\ Len(executed) \in Nat /\ Len(executed') = Len(executed) + 1
      /\ \A i \in 1..Len(executed) : executed'[i] = executed[i]
      /\ executed'[Len(executed) + 1] = Current
  <2>1. executed \in Seq(Nat)
    BY DEF RtuInv, RtuType
  <2> QED BY <1>1, <1>4, <2>1, AppendProperties, LenProperties
<1>8. \A i : i \in 1..Len(executed') <=> i \in 1..Len(executed) \/ i = Len(executed) + 1
  BY <1>7
<1>9. Done' = Done \cup {Current}
  BY <1>7, <1>8 DEF Done
<1>10. ExecutedOnce'
  <2> SUFFICES ASSUME NEW i \in 1..Len(executed'), NEW j \in 1..Len(executed'), i < j
               PROVE  executed'[i] < executed'[j]
    BY DEF ExecutedOnce
  <2>1. i \in 1..Len(executed)
    BY <1>7, <1>8
  <2>2. CASE j \in 1..Len(executed)
    BY <1>7, <2>1, <2>2 DEF Fresh, ExecutedOnce
  <2>3. CASE j = Len(executed) + 1
    BY <1>5, <1>7, <2>1, <2>3 DEF Fresh, Below, Done
  <2> QED BY <1>8, <2>2, <2>3
<1>11. Up(line, 0)'
  BY <1>1 DEF Fresh, Up
<1>12. pc' # "bytes" /\ sent' = sent /\ (sent' # <<>> => pos' >= 1)
  BY <1>1 DEF Fresh
<1>13. Below(Done', Coming')
  BY <1>5, <1>6, <1>9 DEF Fresh, Below
<1>14. Done' \cup Coming' \subseteq 1..Len(sent')
  BY <1>3, <1>6, <1>9, <1>12 DEF Fresh
<1> QED BY <1>6, <1>10, <1>11, <1>12, <1>13, <1>14 DEF Fresh, Below

\* The port is read: the first bytes of the line are taken.
LEMMA FreshRead ==
  ASSUME RtuInv, Fresh, SerialRead
  PROVE  Fresh'
<1> USE DEF event, rcv, snd, port, master, hist
<1>1. /\ pc = "read" /\ pc' = "bytes" /\ uiRxBufferPos' = 0
      /\ UNCHANGED <<executed, sent, pos, event, eRcvState, ucRTUBuf>>
  BY DEF SerialRead, RtuInv, Control
<1>2. PICK k \in 1..Len(line) :
              /\ k <= BUF_SIZE /\ Len(ucBuffer') = k /\ Len(line') = Len(line) - k
              /\ \A i \in 1..k : ucBuffer'[i] = line[i]
              /\ \A i \in 1..(Len(line) - k) : line'[i] = line[k + i]
  BY ReadEffect DEF RtuInv
<1>3. Len(line) \in Nat /\ k \in Nat
  BY <1>2, LenProperties DEF RtuInv, RtuType
<1>4. /\ \A i \in 1..Len(ucBuffer') : i \in 1..Len(line) /\ ucBuffer'[i] = line[i] /\ i <= k
      /\ \A i \in 1..Len(line') : k + i \in 1..Len(line) /\ line'[i] = line[k + i] /\ k < k + i
  BY <1>2, <1>3
<1>5. Held' = Held /\ Done' = Done /\ Read = {} /\ Read' = Starts(ucBuffer', 0)
  BY <1>1 DEF Held, Pending, Done, Read
<1>6. Read' \subseteq Coming /\ Coming' \subseteq Coming
  BY <1>4, <1>5, SMTT(30) DEF Coming, Starts
<1>7. Below(Read', Coming')
  <2> SUFFICES ASSUME NEW a \in Read', NEW b \in Coming' PROVE a < b
    BY DEF Below
  <2>1. PICK i \in 1..Len(ucBuffer') : ucBuffer'[i] = <<"req", a, 1>>
    BY <1>5 DEF Starts
  <2>2. PICK j \in 1..Len(line') : line'[j] = <<"req", b, 1>>
    BY DEF Coming, Starts
  <2>3. a \in Nat /\ b \in Nat
    BY <1>5 DEF Coming, Starts
  <2>4. /\ i \in 1..Len(line) /\ k + j \in 1..Len(line) /\ i < k + j
        /\ line[i] = <<"req", a, 1>> /\ line[k + j] = <<"req", b, 1>>
    BY <1>3, <1>4, <2>1, <2>2
  <2>5. Up(line, 0)
    BY DEF Fresh
  <2> QED BY <2>3, <2>4, <2>5, SMTT(30) DEF Up
<1>8. Up(ucBuffer', 0)
  <2> SUFFICES ASSUME NEW i \in 1..Len(ucBuffer'), NEW j \in 1..Len(ucBuffer'), NEW a \in Nat, NEW b \in Nat,
                      i < j, ucBuffer'[i] = <<"req", a, 1>>, ucBuffer'[j] = <<"req", b, 1>>
               PROVE  a < b
    BY SMTT(30) DEF Up
  <2>1. i \in 1..Len(line) /\ j \in 1..Len(line)
        /\ line[i] = <<"req", a, 1>> /\ line[j] = <<"req", b, 1>>
    BY <1>4
  <2>2. Up(line, 0)
    BY DEF Fresh
  <2> QED BY <2>1, <2>2, SMTT(30) DEF Up
<1>9. Up(line', 0)
  <2> SUFFICES ASSUME NEW i \in 1..Len(line'), NEW j \in 1..Len(line'), NEW a \in Nat, NEW b \in Nat,
                      i < j, line'[i] = <<"req", a, 1>>, line'[j] = <<"req", b, 1>>
               PROVE  a < b
    BY DEF Up
  <2>1. k + i < k + j /\ k + i \in 1..Len(line) /\ k + j \in 1..Len(line)
    BY <1>3, <1>4
  <2>2. line[k + i] = <<"req", a, 1>> /\ line[k + j] = <<"req", b, 1>>
    BY <1>4
  <2>3. Up(line, 0)
    BY DEF Fresh
  <2> QED BY <2>1, <2>2, <2>3, SMTT(30) DEF Up
<1>10. ExecutedOnce' /\ (sent' # <<>> => pos' >= 1)
  BY <1>1 DEF Fresh, ExecutedOnce
<1>11. Below(Done', Read') /\ Below(Held', Read') /\ Below(Done', Coming') /\ Below(Held', Coming')
       /\ Below(Done', Held')
  BY <1>5, <1>6 DEF Fresh, Below
<1>12. Done' \cup Held' \cup Read' \cup Coming' \subseteq 1..Len(sent')
  BY <1>1, <1>5, <1>6 DEF Fresh
<1> QED BY <1>1, <1>7, <1>8, <1>9, <1>10, <1>11, <1>12 DEF Fresh

\* A byte is taken: it begins a new frame or belongs to none or the current one.
LEMMA FreshByte ==
  ASSUME RtuInv, Fresh, ReceiveIgnored \/ ReceiveFirst \/ ReceiveNext
  PROVE  Fresh'
<1> USE DEF event, rcv, snd, port, master, hist
<1> DEFINE p == uiRxBufferPos
           b == ucBuffer[uiRxBufferPos + 1]
<1>1. /\ pc = "bytes" /\ UNCHANGED <<executed, sent, pos, line, ucBuffer, event>>
      /\ IF p + 1 < Len(ucBuffer) THEN p' = p + 1 /\ pc' = "bytes" ELSE pc' = "read"
  BY DEF ReceiveIgnored, ReceiveFirst, ReceiveNext, NextByte
<1>2. p \in Nat /\ Len(ucBuffer) \in Nat /\ p + 1 \in (p + 1)..Len(ucBuffer)
  BY <1>1, NextByteType DEF RtuInv, RtuType
<1>3. Read = Starts(ucBuffer, p) /\ Up(ucBuffer, p)
  BY <1>1 DEF Read, Fresh
<1>4. pc' = "bytes" => \A i \in (p' + 1)..Len(ucBuffer) : i \in (p + 1)..Len(ucBuffer) /\ p + 1 < i
  BY <1>1, <1>2
<1>5. Read' \subseteq Read /\ (pc' = "bytes" => Up(ucBuffer', p'))
  BY <1>1, <1>3, <1>4 DEF Read, Starts, Up
<1>6. Coming' = Coming /\ Up(line', 0) /\ Done' = Done /\ ExecutedOnce' /\ (sent' # <<>> => pos' >= 1)
  BY <1>1 DEF Coming, Fresh, Up, Done, ExecutedOnce
<1>7. ~xEventInQueue /\ (Pending <=> eRcvState = "RCV") /\ (Pending' <=> eRcvState' = "RCV")
  BY <1>1 DEF RtuInv, Control, Pending
<1>8. CASE ReceiveFirst
  <2>1. ucRTUBuf' = <<b>> /\ Head(ucRTUBuf') = b
    BY <1>8 DEF ReceiveFirst
  <2>2. Held' \subseteq {n \in Nat : b = <<"req", n, 1>>}
    BY <2>1 DEF Held
  <2>3. Held' \subseteq Read
    BY <1>2, <1>3, <2>2 DEF Starts
  <2>4. Below(Held', Read')
    <3> SUFFICES ASSUME NEW n \in Held', NEW m \in Read' PROVE n < m
      BY DEF Below
    <3>1. n \in Nat /\ b = <<"req", n, 1>>
      BY <2>2
    <3>2. pc' = "bytes" /\ m \in Nat
      BY DEF Read, Starts
    <3>3. PICK i \in (p' + 1)..Len(ucBuffer) : ucBuffer[i] = <<"req", m, 1>>
      BY <1>1, <3>2 DEF Read, Starts
    <3>4. i \in (p + 1)..Len(ucBuffer) /\ p + 1 < i
      BY <1>4, <3>2, <3>3
    <3> QED BY <1>2, <1>3, <3>1, <3>2, <3>3, <3>4 DEF Up
  <2>5. /\ Below(Done', Held') /\ Below(Done', Read') /\ Below(Done', Coming')
        /\ Below(Held', Coming') /\ Below(Read', Coming')
    BY <1>5, <1>6, <2>3 DEF Fresh, Below
  <2>6. Done' \cup Held' \cup Read' \cup Coming' \subseteq 1..Len(sent')
    BY <1>1, <1>5, <1>6, <2>3 DEF Fresh
  <2> QED BY <1>5, <1>6, <2>4, <2>5, <2>6 DEF Fresh
<1>9. CASE ReceiveIgnored \/ ReceiveNext
  <2>1. Held' \subseteq Held
    <3>1. CASE eRcvState' # "RCV"
      BY <1>7, <3>1 DEF Held
    <3>2. CASE eRcvState' = "RCV"
      <4>1. eRcvState = "RCV" /\ ucRTUBuf' = Append(ucRTUBuf, b)
        BY <1>9, <3>2 DEF ReceiveIgnored, ReceiveNext
      <4>2. ucRTUBuf \in Seq(Byte) /\ ucRTUBuf # <<>> /\ b \in Byte
        BY <1>1, <4>1, NextByteType DEF RtuInv, RtuType, Control
      <4>3. Head(ucRTUBuf') = Head(ucRTUBuf)
        BY <4>1, <4>2, HeadTailAppend
      <4> QED BY <1>7, <4>1, <4>3 DEF Held
    <3> QED BY <3>1, <3>2
  <2>2. pos \in Nat /\ pos' \in Nat /\ pos <= pos'
    BY <1>1 DEF RtuInv, RtuType
  <2> QED BY <1>1, <1>5, <1>6, <2>1, <2>2, FreshShrink
<1> QED BY <1>8, <1>9

\* The master starts a request under the next number, sends its bytes, or stalls.
LEMMA FreshMaster ==
  ASSUME RtuInv, Fresh, (\E k \in Kinds : MasterStart(k)) \/ MasterByte
  PROVE  Fresh'
<1> USE DEF event, rcv, snd, port, master, hist
<1>1. UNCHANGED <<executed, pc, event, eRcvState, ucRTUBuf, ucBuffer, uiRxBufferPos>>
  BY DEF MasterStart, MasterByte
<1>2. UNCHANGED <<Done, Held, Read, ExecutedOnce, Up(ucBuffer, uiRxBufferPos)>>
  BY <1>1 DEF Done, Held, Pending, Read, Starts, ExecutedOnce, Up
<1>3. line \in Seq(Byte) /\ Len(line) \in Nat /\ Len(sent) \in Nat /\ pos \in Nat /\ sent \in Seq(Kinds)
  BY LenProperties DEF RtuInv, RtuType
<1>4. ASSUME NEW y \in Byte, line' = Append(line, y)
      PROVE  /\ \A i \in 1..Len(line') : i \in 1..Len(line) \/ i = Len(line) + 1
             /\ \A i \in 1..Len(line) : line'[i] = line[i] /\ i \in 1..Len(line') /\ i < Len(line) + 1
             /\ line'[Len(line) + 1] = y /\ Len(line) + 1 \in 1..Len(line')
  BY <1>3, <1>4, AppendProperties
<1>5. CASE \E k \in Kinds : MasterStart(k)
  <2> DEFINE N == Len(sent) + 1
             y == <<"req", N, 1>>
  <2>1. PICK k \in Kinds : sent' = Append(sent, k) /\ pos' = 1 /\ line' = Append(line, y)
    BY <1>5 DEF MasterStart, Arrive
  <2>2. Len(sent') = N /\ N \in Nat /\ y \in Byte /\ 1..Len(sent) \subseteq 1..N /\ N \in 1..N
    BY <1>3, <2>1, AppendProperties DEF Byte
  <2> HIDE DEF N
  <2>3. /\ \A i \in 1..Len(line') : i \in 1..Len(line) \/ i = Len(line) + 1
        /\ \A i \in 1..Len(line) : line'[i] = line[i] /\ i < Len(line) + 1
        /\ line'[Len(line) + 1] = y
    BY <1>4, <2>1, <2>2
  <2>4. Coming' \subseteq Coming \cup {N}
    <3> SUFFICES ASSUME NEW n \in Coming' PROVE n \in Coming \cup {N}
      OBVIOUS
    <3>1. n \in Nat /\ \E i \in 1..Len(line') : line'[i] = <<"req", n, 1>>
      BY DEF Coming, Starts
    <3> QED BY <2>3, <3>1 DEF Coming, Starts
  <2>5. \A n \in Done \cup Held \cup Read \cup Coming : n < N
    BY <1>3 DEF Fresh, N
  <2>6. Up(line, 0)'
    <3> SUFFICES ASSUME NEW i \in 1..Len(line'), NEW j \in 1..Len(line'), NEW a \in Nat, NEW b \in Nat,
                        i < j, line'[i] = <<"req", a, 1>>, line'[j] = <<"req", b, 1>>
                 PROVE  a < b
      BY DEF Up
    <3>1. i \in 1..Len(line) /\ line[i] = <<"req", a, 1>>
      BY <1>3, <2>3
    <3>2. CASE j \in 1..Len(line)
      <4>1. line[j] = <<"req", b, 1>>
        BY <2>3, <3>2
      <4>2. Up(line, 0)
        BY DEF Fresh
      <4> HIDE DEF y
      <4> QED BY <3>1, <3>2, <4>1, <4>2 DEF Up
    <3>3. CASE j = Len(line) + 1
      <4>1. b = N
        BY <2>3, <3>3
      <4>2. a \in Coming
        BY <3>1 DEF Coming, Starts
      <4> QED BY <2>5, <4>1, <4>2
    <3> QED BY <2>3, <3>2, <3>3
  <2>7. /\ Below(Done', Coming') /\ Below(Held', Coming') /\ Below(Read', Coming')
        /\ Below(Done', Held') /\ Below(Done', Read') /\ Below(Held', Read')
    BY <1>2, <2>4, <2>5 DEF Fresh, Below
  <2>8. Done' \cup Held' \cup Read' \cup Coming' \subseteq 1..Len(sent')
    BY <1>2, <2>2, <2>4 DEF Fresh
  <2>9. ExecutedOnce' /\ (pc' = "bytes" => Up(ucBuffer, uiRxBufferPos)') /\ (sent' # <<>> => pos' >= 1)
    BY <1>1, <1>2, <2>1 DEF Fresh
  <2> QED BY <2>6, <2>7, <2>8, <2>9 DEF Fresh
<1>6. CASE MasterByte
  <2>1. /\ sent' = sent /\ pos' = pos + 1 /\ sent # <<>>
        /\ \/ line' = Append(line, <<"req", Len(sent), pos + 1>>)
           \/ line' = Append(line, Noise)
           \/ line' = line
    BY <1>6 DEF MasterByte, Arrive, InFrame
  <2>2. pos >= 1
    BY <2>1 DEF Fresh
  <2>3. CASE line' = line
    <3>1. Coming' = Coming /\ Up(line, 0)' /\ (pc = "bytes" => Up(ucBuffer, uiRxBufferPos))'
      <4>1. Coming' = Coming
        BY <2>3 DEF Coming, Starts
      <4>2. UNCHANGED Up(line, 0)
        BY <2>3 DEF Up
      <4>3. UNCHANGED Up(ucBuffer, uiRxBufferPos)
        BY <1>2
      <4> QED BY <1>1, <4>1, <4>2, <4>3 DEF Fresh
    <3>2. pos' \in Nat /\ pos <= pos'
      BY <1>3, <2>1
    <3> QED BY <1>1, <1>2, <1>3, <2>1, <3>1, <3>2, FreshShrink
  <2>4. ASSUME NEW y \in Byte, line' = Append(line, y), \A n \in Nat : y # <<"req", n, 1>>
        PROVE  Fresh'
    <3>1. /\ \A i \in 1..Len(line') : i \in 1..Len(line) \/ i = Len(line) + 1
          /\ \A i \in 1..Len(line) : line'[i] = line[i]
          /\ line'[Len(line) + 1] = y
      BY <1>4, <2>4
    <3>2. \A i \in 1..Len(line'), n \in Nat :
             line'[i] = <<"req", n, 1>> => i \in 1..Len(line) /\ line[i] = <<"req", n, 1>>
      BY <2>4, <3>1
    <3>3. Coming' \subseteq Coming
      BY <3>2 DEF Coming, Starts
    <3>4. Up(line, 0)'
      <4>1. Up(line, 0)
        BY DEF Fresh
      <4> QED BY <3>2, <4>1, SMTT(30) DEF Up
    <3>5. pos' \in Nat /\ pos <= pos'
      BY <1>3, <2>1
    <3> QED BY <1>1, <1>2, <1>3, <2>1, <3>3, <3>4, <3>5, FreshShrink DEF Fresh
  <2>5. /\ <<"req", Len(sent), pos + 1>> \in Byte
        /\ \A n \in Nat : <<"req", Len(sent), pos + 1>> # <<"req", n, 1>>
    BY <1>3, <2>2 DEF Byte
  <2>6. Noise \in Byte /\ \A n \in Nat : Noise # <<"req", n, 1>>
    BY DEF Byte, Noise
  <2> QED BY <2>1, <2>3, <2>4, <2>5, <2>6
<1> QED BY <1>5, <1>6

\* The order of the line is kept by every step.
LEMMA FreshStep == RtuInv /\ Fresh /\ [Next]_vars => Fresh'
<1> SUFFICES ASSUME RtuInv, Fresh, [Next]_vars PROVE Fresh'
  OBVIOUS
<1> QED BY RtuSplit, FreshControl, FreshFlush, FreshExecute, FreshRead, FreshByte, FreshMaster

\* No request is on the line at first.
LEMMA FreshInit == Init => Fresh
<1> SUFFICES ASSUME Init PROVE Fresh
  OBVIOUS
<1>1. Len(line) = 0 /\ Len(executed) = 0 /\ ~Pending
  BY DEF Init, Pending
<1> QED BY <1>1 DEF Init, Fresh, Done, Held, Read, Coming, Starts, Up, Below, ExecutedOnce

\* A request on the line is executed at most once and in the order of the line, whatever
\* is lost, damaged or merged on its way through the port and the receiver.
THEOREM RequestsExecutedOnce == Spec => []ExecutedOnce
<1>1. Fresh => ExecutedOnce
  BY DEF Fresh
<1> QED BY <1>1, RtuInit, RtuStep, FreshInit, FreshStep, PTL DEF Spec
-----------------------------------------------------------------------------
(* Replies match.                                                          *)

\* The executed requests are on the line.
LEMMA ExecutedType ==
  ASSUME RtuInv, Fresh
  PROVE  /\ Len(executed) \in Nat /\ Len(written) \in Nat /\ sent \in Seq(Kinds)
         /\ \A i \in 1..Len(executed) : executed[i] \in 1..Len(sent)
         /\ executed # <<>> => Len(executed) \in 1..Len(executed) /\ Last \in 1..Len(sent)
<1>1. /\ Len(executed) \in Nat /\ Len(written) \in Nat /\ sent \in Seq(Kinds) /\ executed \in Seq(Nat)
  BY LenProperties DEF RtuInv, RtuType
<1>2. executed # <<>> => Len(executed) \in Nat \ {0}
  BY <1>1, EmptySeq
<1>3. executed # <<>> => Len(executed) \in 1..Len(executed)
  BY <1>1, <1>2
<1>4. \A i \in 1..Len(executed) : executed[i] \in 1..Len(sent)
  BY DEF Fresh, Done
<1> QED BY <1>1, <1>3, <1>4 DEF Last

\* The thread begins to send only when it executes a request.
LEMMA SendingBegins ==
  ASSUME RtuInv, [Next]_vars, Sending', ~OnExecute
  PROVE  /\ Sending
         /\ \/ TransmitByte \/ TransmitEnd
            \/ /\ UNCHANGED <<uiTxBufferPos, usSndBufferCount, sndCur, ucBuffer, ucRTUBuf, bTxEnabled>>
               /\ pc' = "write" <=> pc = "write"
               /\ EventNone \/ (\E k \in Kinds : MasterStart(k)) \/ MasterByte \/ Silence \/ UNCHANGED vars
<1> USE DEF event, rcv, snd, port, master, hist
<1>1. CASE TransmitByte \/ TransmitEnd
  BY <1>1 DEF TransmitByte, TransmitEnd, RtuInv, Control, RtuType, Sending
<1>2. CASE EventNone
  BY <1>2 DEF EventNone, AfterReceive, Sending
<1>3. CASE (\E k \in Kinds : MasterStart(k)) \/ MasterByte \/ Silence \/ UNCHANGED vars
  BY <1>3, SMTT(30) DEF MasterStart, MasterByte, Silence, vars, Sending
<1>4. CASE eMBRTUStart
  BY <1>4 DEF eMBRTUStart, EnableReceiver, Sending
<1>5. CASE \/ EventGet \/ OnOther \/ OnFrameReceived \/ SerialRead
           \/ SerialReadTimeout \/ SerialWrite \/ TimerIdle \/ T35Expired
  <2>1. UNCHANGED bTxEnabled /\ pc' # "write"
    BY <1>5 DEF EventGet, OnOther, OnFrameReceived, SerialRead, SerialReadTimeout,
                SerialWrite, TimerIdle, T35Expired, AfterReceive
  <2>2. xEventInQueue \/ pc \notin {"get", "xmit"}
    BY <1>5 DEF EventGet, OnOther, OnFrameReceived, SerialRead, SerialReadTimeout,
                SerialWrite, TimerIdle, T35Expired
  <2>3. ~bTxEnabled
    BY <2>2 DEF RtuInv, Control
  <2> QED BY <2>1, <2>3 DEF Sending
<1>6. CASE ReceiveIgnored \/ ReceiveFirst \/ ReceiveNext
  <2>1. UNCHANGED bTxEnabled /\ pc = "bytes" /\ pc' # "write"
    BY <1>6 DEF ReceiveIgnored, ReceiveFirst, ReceiveNext, NextByte
  <2> QED BY <2>1 DEF RtuInv, Control, Sending
<1>7. CASE Abort
  <2>1. pc' = "aborted" /\ Control'
    BY <1>7, RtuStep DEF Abort, RtuInv
  <2> QED BY <2>1 DEF Control, Sending
<1> QED BY RtuSplit, <1>1, <1>2, <1>3, <1>4, <1>5, <1>6, <1>7

\* What is in the line's past is not changed by a step of the master.
LEMMA PastKept ==
  ASSUME RtuInv, [Next]_vars, NEW n \in 1..Len(sent)
  PROVE  sent'[n] = sent[n] /\ Reply(n)' = Reply(n) /\ n \in 1..Len(sent')
<1>1. CASE \E k \in Kinds : MasterStart(k)
  BY <1>1, SentKept DEF RtuInv
<1>2. CASE ~\E k \in Kinds : MasterStart(k)
  <2>1. sent' = sent
    BY <1>2, RtuSplit
       DEF eMBRTUStart, EventGet, EventNone, OnOther, OnFrameReceived, Abort, OnExecute,
           SerialRead, SerialReadTimeout, ReceiveIgnored, ReceiveFirst, ReceiveNext, NextByte,
           TransmitByte, TransmitEnd, SerialWrite, TimerIdle, T35Expired, MasterByte, Silence,
           vars, master
  <2> QED BY <2>1 DEF Reply
<1> QED BY <1>1, <1>2

\* Requests are executed by OnExecute only.
LEMMA ExecutedKept ==
  ASSUME [Next]_vars, ~OnExecute
  PROVE  UNCHANGED executed
BY RtuSplit
   DEF eMBRTUStart, EventGet, EventNone, OnOther, OnFrameReceived, Abort,
       SerialRead, SerialReadTimeout, ReceiveIgnored, ReceiveFirst, ReceiveNext, NextByte,
       TransmitByte, TransmitEnd, SerialWrite, TimerIdle, T35Expired, MasterStart, MasterByte,
       Silence, vars, hist

\* Faults are counted.
LEMMA FaultsGrow ==
  ASSUME [Next]_vars, faults \in Nat
  PROVE  faults' \in Nat /\ faults <= faults'
<1>1. faults' = faults \/ faults' = faults + 1
  BY RtuSplit
     DEF eMBRTUStart, EventGet, EventNone, OnOther, OnFrameReceived, Abort, OnExecute,
         SerialRead, SerialReadTimeout, ReceiveIgnored, ReceiveFirst, ReceiveNext, NextByte,
         TransmitByte, TransmitEnd, SerialWrite, TimerIdle, T35Expired, MasterStart, MasterByte,
         Silence, Fault, vars
<1> QED BY <1>1

\* The reply under way stays the reply to the last executed request.
LEMMA SendStep ==
  ASSUME RtuInv, RtuInv', Fresh, SendInv, [Next]_vars
  PROVE  SendInv'
<1> USE DEF event, rcv, snd, port, master, hist
<1> SUFFICES ASSUME Sending'
             PROVE  (/\ executed # <<>> /\ Addr[sent[Last]] = "own" /\ ucRTUBuf = Reply(Last)
                     /\ \A i \in 1..uiTxBufferPos : ucBuffer[i] = Reply(Last)[i]
                     /\ bTxEnabled => sndCur = uiTxBufferPos + 1
                     /\ IF pc = "write" THEN uiTxBufferPos = ReplySize[sent[Last]]
                                        ELSE uiTxBufferPos + usSndBufferCount = ReplySize[sent[Last]])'
  BY DEF SendInv
<1>1. CASE OnExecute
  <2>1. /\ pc = "event" /\ eEvent = "EXECUTE" /\ pc' = "get" /\ executed' = Append(executed, Current)
        /\ sent' = sent
    BY <1>1 DEF OnExecute
  <2>2. ucRTUBuf # <<>> /\ ~bTxEnabled /\ Accepted
    BY <2>1 DEF RtuInv, Control, AcceptInv, FrameEvent
  <2>3. Current \in 1..Len(sent) /\ ForUs(Current) /\ sent \in Seq(Kinds) /\ Current \in Nat
    <3>1. Len(sent) \in Nat /\ sent \in Seq(Kinds)
      BY LenProperties DEF RtuInv, RtuType
    <3>2. Current \in 1..Len(sent) /\ ForUs(Current)
      BY <2>2, AcceptedCurrent DEF RtuInv
    <3> QED BY <3>1, <3>2
  <2>4. executed' # <<>> /\ Last' = Current
    <3>1. executed \in Seq(Nat)
      BY DEF RtuInv, RtuType
    <3>2. /\ executed' # <<>> /\ Len(executed') = Len(executed) + 1
          /\ executed'[Len(executed) + 1] = Current
      BY <2>1, <2>3, <3>1, AppendProperties, SMTT(30)
    <3> QED BY <3>2 DEF Last
  <2>5. bTxEnabled' /\ Addr[sent[Current]] # "broadcast" /\ eMBRTUSend(Current) /\ eRcvState = "IDLE"
    BY <1>1, <2>1, <2>2 DEF OnExecute, eMBRTUSend, Sending
  <2>6. /\ sndCur' = 1 /\ usSndBufferCount' = ReplySize[sent[Current]] /\ ucRTUBuf' = Reply(Current)
        /\ uiTxBufferPos' = 0
    BY <2>5 DEF eMBRTUSend, EnableTransmitter
  <2>7. Addr[sent[Current]] = "own"
    BY <2>3, <2>5 DEF ForUs
  <2>8. ReplySize[sent[Current]] \in Nat
    BY <2>3, ReplyType
  <2>9. Reply(Last)' = Reply(Current)
    BY <2>1, <2>4 DEF Reply
  <2> QED BY <2>1, <2>4, <2>6, <2>7, <2>8, <2>9
<1>2. CASE ~OnExecute
  <2>1. Sending /\ executed' = executed /\ Last' = Last
    BY <1>2, SendingBegins, ExecutedKept DEF Last
  <2>2. /\ executed # <<>> /\ Addr[sent[Last]] = "own" /\ ucRTUBuf = Reply(Last)
        /\ \A i \in 1..uiTxBufferPos : ucBuffer[i] = Reply(Last)[i]
        /\ bTxEnabled => sndCur = uiTxBufferPos + 1
        /\ IF pc = "write" THEN uiTxBufferPos = ReplySize[sent[Last]]
                           ELSE uiTxBufferPos + usSndBufferCount = ReplySize[sent[Last]]
    BY <2>1 DEF SendInv
  <2>3. Last \in 1..Len(sent) /\ sent \in Seq(Kinds)
    BY <2>2, ExecutedType
  <2>4. sent'[Last] = sent[Last] /\ Reply(Last)' = Reply(Last)
    <3>1. ASSUME NEW n \in 1..Len(sent), n = Last
          PROVE  sent'[n] = sent[n] /\ Reply(n)' = Reply(n)
      BY PastKept
    <3>2. Reply(Last)' = [i \in 1..ReplySize[sent'[Last]] |-> <<"rep", Last, i>>]
      BY <2>1 DEF Reply
    <3> QED BY <2>3, <3>1, <3>2 DEF Reply
  <2>5. CASE UNCHANGED <<uiTxBufferPos, usSndBufferCount, sndCur, ucBuffer, ucRTUBuf, bTxEnabled>>
             /\ (pc' = "write" <=> pc = "write")
    BY <2>1, <2>2, <2>4, <2>5
  <2>6. uiTxBufferPos \in Nat /\ usSndBufferCount \in Nat /\ sndCur \in Nat
    BY DEF RtuInv, RtuType
  <2>7. CASE TransmitByte
    <3>1. /\ pc = "xmit" /\ pc' = "xmit" /\ usSndBufferCount # 0
          /\ uiTxBufferPos' = uiTxBufferPos + 1 /\ sndCur' = sndCur + 1
          /\ usSndBufferCount' = usSndBufferCount - 1 /\ ucRTUBuf' = ucRTUBuf
          /\ bTxEnabled
      BY <2>7 DEF TransmitByte, RtuInv, Control, RtuType
    <3>2. /\ \A i \in 1..uiTxBufferPos : ucBuffer'[i] = ucBuffer[i]
          /\ ucBuffer'[uiTxBufferPos + 1] = ucRTUBuf[sndCur]
      BY <2>7, TransmitEffect DEF RtuInv
    <3>3. sndCur = uiTxBufferPos + 1
      BY <2>2, <3>1
    <3>4. \A i \in 1..uiTxBufferPos' : ucBuffer'[i] = Reply(Last)[i]
      <4> TAKE i \in 1..uiTxBufferPos'
      <4>1. i \in 1..uiTxBufferPos \/ i = uiTxBufferPos + 1
        BY <2>6, <3>1
      <4> QED BY <2>2, <3>2, <3>3, <4>1
    <3>5. /\ sndCur' = uiTxBufferPos' + 1
          /\ uiTxBufferPos' + usSndBufferCount' = ReplySize[sent[Last]]
      BY <2>2, <2>6, <3>1, <3>3
    <3> QED BY <2>1, <2>2, <2>4, <3>1, <3>4, <3>5
  <2>8. CASE TransmitEnd
    <3>1. /\ pc = "xmit" /\ pc' = "write" /\ bTxEnabled /\ bTxEnabled' = FALSE
          /\ UNCHANGED <<uiTxBufferPos, ucBuffer, ucRTUBuf>>
          /\ usSndBufferCount = 0
      BY <2>8 DEF TransmitEnd, EnableReceiver, RtuInv, Control, RtuType
    <3> QED BY <2>1, <2>2, <2>4, <2>6, <3>1
  <2> QED BY <1>2, <2>5, <2>7, <2>8, SendingBegins
<1> QED BY <1>1, <1>2

\* The frames that are written are replies, in the order of the executed requests.
LEMMA MatchStep ==
  ASSUME RtuInv, RtuInv', Fresh, SendInv, Matched, [Next]_vars
  PROVE  Matched'
<1> USE DEF event, rcv, snd, port, master, hist
<1> DEFINE E == Len(executed)
           W == Len(written)
<1>1. PICK f \in [1..W -> 1..E] :
             /\ \A i, j \in 1..W : i < j => f[i] < f[j]
             /\ \A i \in 1..W : /\ \E done \in 0..ReplySize[sent[executed[f[i]]]] :
                                     written[i] = SubSeq(Reply(executed[f[i]]), 1, done)
                                /\ Addr[sent[executed[f[i]]]] = "own"
                                /\ Sending => f[i] < E
             /\ Cardinality(Cut(f)) <= faults
  BY DEF Matched, MatchedBy
<1>c. IsFiniteSet(Cut(f)) /\ Cardinality(Cut(f)) \in Nat /\ faults \in Nat
  <2>1. IsFiniteSet(1..W)
    BY LenProperties, FS_Interval DEF RtuInv, RtuType
  <2>2. Cut(f) \subseteq 1..W
    BY DEF Cut
  <2> QED BY <2>1, <2>2, FS_Subset, FS_CardinalityType DEF RtuInv, RtuType
<1>2. /\ E \in Nat /\ W \in Nat /\ executed \in Seq(Nat)
      /\ \A i \in 1..E : executed[i] \in 1..Len(sent)
  BY ExecutedType DEF RtuInv, RtuType
<1>3. /\ Len(executed') \in Nat /\ Len(executed') >= E
      /\ \A i \in 1..E : executed'[i] = executed[i] /\ i \in 1..Len(executed')
      /\ OnExecute => Len(executed') = E + 1
      /\ ~OnExecute => Len(executed') = E
  <2>1. CASE OnExecute
    <3>1. executed' = Append(executed, Current) /\ Current \in Nat
      <4>1. ucRTUBuf # <<>> /\ Accepted
        BY <2>1 DEF OnExecute, RtuInv, Control, AcceptInv, FrameEvent
      <4>2. Current \in 1..Len(sent)
        BY <4>1, AcceptedCurrent DEF RtuInv
      <4> QED BY <2>1, <4>2, LenProperties DEF OnExecute, RtuInv, RtuType
    <3>2. Len(executed') = E + 1 /\ \A i \in 1..E : executed'[i] = executed[i]
      BY <1>2, <3>1, AppendProperties
    <3> QED BY <1>2, <2>1, <3>2
  <2>2. CASE ~OnExecute
    BY <1>2, <2>2, ExecutedKept
  <2> QED BY <2>1, <2>2
<1>4. \A i \in 1..E : /\ Reply(executed[i])' = Reply(executed[i])
                      /\ sent'[executed'[i]] = sent[executed[i]]
  <2> TAKE i \in 1..E
  <2>1. executed'[i] = executed[i]
    BY <1>3
  <2>2. ASSUME NEW n \in 1..Len(sent) PROVE sent'[n] = sent[n]
    BY PastKept
  <2>3. sent'[executed[i]] = sent[executed[i]]
    BY <1>2, <2>2
  <2> QED BY <2>1, <2>3 DEF Reply
<1>5. CASE UNCHANGED written
  <2>1. f \in [1..Len(written') -> 1..Len(executed')]
    BY <1>3, <1>5
  <2>2. ASSUME NEW i \in 1..W, Sending' PROVE f[i] < Len(executed')
    <3>1. CASE OnExecute
      BY <1>2, <1>3, <3>1
    <3>2. CASE ~OnExecute
      BY <1>1, <1>2, <1>3, <2>2, <3>2, SendingBegins
    <3> QED BY <3>1, <3>2
  <2>3. ASSUME NEW i \in 1..W
        PROVE  /\ \E done \in 0..ReplySize[sent'[executed'[f[i]]]] :
                    written'[i] = SubSeq(Reply(executed[f[i]])', 1, done)
               /\ Addr[sent'[executed'[f[i]]]] = "own"
    BY <1>1, <1>4, <1>5
  <2>4. Len(written') = W
    BY <1>5
  <2>6. Cut(f)' = Cut(f)
    BY <1>1, <1>4, <1>5, <2>4 DEF Cut
  <2>7. Cardinality(Cut(f)') <= faults'
    <3>1. faults' \in Nat /\ faults <= faults'
      BY <1>c, FaultsGrow
    <3> QED BY <1>1, <1>c, <2>6, <3>1
  <2>5. MatchedBy(f)'
    BY <1>1, <2>1, <2>2, <2>3, <2>4, <2>7 DEF MatchedBy
  <2> QED BY <2>1, <2>5 DEF Matched
<1>6. CASE ~UNCHANGED written
  <2>1. SerialWrite
    BY <1>6, RtuSplit
       DEF eMBRTUStart, EventGet, EventNone, OnOther, OnFrameReceived, Abort, OnExecute,
           SerialRead, SerialReadTimeout, ReceiveIgnored, ReceiveFirst, ReceiveNext, NextByte,
           TransmitByte, TransmitEnd, SerialWrite, TimerIdle, T35Expired, MasterStart, MasterByte,
           Silence, vars
  <2>d. PICK done \in 0..uiTxBufferPos :
               /\ written' = Append(written, SubSeq(ucBuffer, 1, done))
               /\ faults' = IF done < uiTxBufferPos THEN faults + 1 ELSE faults
    BY <2>1 DEF SerialWrite, Fault
  <2>2. pc = "write" /\ pc' = "timer" /\ UNCHANGED <<executed, sent, bTxEnabled>> /\ Sending
    BY <2>1 DEF SerialWrite, Sending
  <2>3. ~Sending'
    BY <2>2 DEF Sending, RtuInv, Control
  <2>4. /\ executed # <<>> /\ Addr[sent[Last]] = "own"
        /\ \A i \in 1..uiTxBufferPos : ucBuffer[i] = Reply(Last)[i]
        /\ uiTxBufferPos = ReplySize[sent[Last]]
    BY <2>2 DEF SendInv
  <2>5. E \in 1..E /\ Last \in 1..Len(sent) /\ sent \in Seq(Kinds) /\ Last = executed[E]
    BY <2>4, ExecutedType DEF Last
  <2> DEFINE w == SubSeq(ucBuffer, 1, done)
  <2>6. w \in Seq(Byte) /\ Len(w) = done /\ \A i \in 1..done : w[i] = ucBuffer[i]
    BY <2>2, OutputEffect DEF RtuInv
  <2>7. Reply(Last) \in Seq(Byte) /\ Len(Reply(Last)) = ReplySize[sent[Last]]
    BY <2>5, ReplyType
  <2> HIDE DEF w
  <2>e. uiTxBufferPos \in Nat /\ done \in Nat /\ done <= uiTxBufferPos
    BY DEF RtuInv, RtuType
  <2>8. /\ done \in 0..ReplySize[sent[Last]] /\ w = SubSeq(Reply(Last), 1, done)
        /\ ~(done < uiTxBufferPos) => w = Reply(Last)
    <3> DEFINE v == SubSeq(Reply(Last), 1, done)
    <3>1. \A i \in 1..done : Reply(Last)[i] \in Byte
      BY <2>4, <2>7, <2>e, ElementOfSeq
    <3>2. /\ v \in Seq(Byte)
          /\ Len(v) = (IF 1 <= done THEN done - 1 + 1 ELSE 0)
          /\ \A i \in 1..(done - 1 + 1) : v[i] = Reply(Last)[1 + i - 1]
      BY <2>4, <2>7, <2>e, <3>1, SubSeqProperties
    <3> HIDE DEF v
    <3>3. Len(v) = done /\ \A i \in 1..done : v[i] = Reply(Last)[i]
      BY <2>e, <3>2
    <3>4. \A i \in 1..done : w[i] = Reply(Last)[i]
      BY <2>4, <2>6, <2>e
    <3>5. w = v
      BY <2>6, <3>2, <3>3, <3>4, SeqEqual
    <3>6. ~(done < uiTxBufferPos) => w = Reply(Last)
      BY <2>4, <2>6, <2>7, <2>e, <3>4, SeqEqual
    <3> QED BY <2>4, <2>e, <3>5, <3>6 DEF v
  <2>9. /\ Len(written') = W + 1 /\ \A i \in 1..W : written'[i] = written[i]
        /\ written'[W + 1] = w
    <3>1. written' = Append(written, w)
      BY <2>d DEF w
    <3>2. written \in Seq(Seq(Byte))
      BY DEF RtuInv, RtuType
    <3> QED BY <2>6, <3>1, <3>2, AppendProperties
  <2> DEFINE ext == [i \in 1..(W + 1) |-> IF i = W + 1 THEN E ELSE f[i]]
  <2>g. PICK g : g = ext
    OBVIOUS
  <2>10. \A i \in 1..(W + 1) : (i \in 1..W /\ i # W + 1) \/ i = W + 1
    BY <1>2
  <2>11. /\ g \in [1..(W + 1) -> 1..E] /\ g[W + 1] = E /\ \A i \in 1..W : g[i] = f[i]
    BY <1>1, <1>2, <2>5, <2>10, <2>g
  <2> HIDE DEF ext
  <2>12. \A i, j \in 1..(W + 1) : i < j => g[i] < g[j]
    <3> SUFFICES ASSUME NEW i \in 1..(W + 1), NEW j \in 1..(W + 1), i < j PROVE g[i] < g[j]
      OBVIOUS
    <3>0. i \in 1..W
      BY <1>2
    <3>1. i \in 1..W /\ g[i] = f[i] /\ f[i] < E
      BY <1>1, <2>2, <2>11, <3>0
    <3>2. CASE j = W + 1
      BY <2>11, <3>1, <3>2
    <3>3. CASE j \in 1..W
      BY <1>1, <2>11, <3>1, <3>3
    <3> QED BY <2>10, <3>2, <3>3
  <2>13. ASSUME NEW i \in 1..(W + 1)
         PROVE  /\ \E n \in 0..ReplySize[sent[executed[g[i]]]] :
                     written'[i] = SubSeq(Reply(executed[g[i]]), 1, n)
                /\ Addr[sent[executed[g[i]]]] = "own"
    <3>1. CASE i = W + 1
      BY <2>4, <2>5, <2>8, <2>9, <2>11, <3>1
    <3>2. CASE i \in 1..W
      BY <1>1, <2>9, <2>11, <3>2
    <3> QED BY <2>10, <3>1, <3>2
  <2>14. \A i \in 1..(W + 1) : Reply(executed[g[i]])' = Reply(executed[g[i]])
    BY <2>2 DEF Reply
  <2>15. g \in [1..Len(written') -> 1..Len(executed')]
    BY <2>2, <2>9, <2>11
  <2>17. Cardinality(Cut(g)') <= faults'
    <3>1. Cut(g)' = {i \in 1..(W + 1) : written'[i] # Reply(executed[g[i]])}
      BY <2>9, <2>14 DEF Cut
    <3>2. \A i \in 1..W : written'[i] = written[i] /\ Reply(executed[g[i]]) = Reply(executed[f[i]])
      BY <2>9, <2>11
    <3>3. W + 1 \notin 1..W /\ Reply(executed[g[W + 1]]) = Reply(Last)
      BY <1>2, <2>5, <2>11
    <3>4. CASE done < uiTxBufferPos
      <4>1. Cut(g)' \subseteq Cut(f) \cup {W + 1}
        BY <2>10, <3>1, <3>2 DEF Cut
      <4>2. /\ IsFiniteSet(Cut(f) \cup {W + 1})
            /\ Cardinality(Cut(f) \cup {W + 1}) = Cardinality(Cut(f)) + 1
        <5>1. W + 1 \notin Cut(f)
          BY <3>3 DEF Cut
        <5> QED BY <1>c, <5>1, FS_AddElement
      <4>3. Cardinality(Cut(g)') <= Cardinality(Cut(f) \cup {W + 1}) /\ Cardinality(Cut(g)') \in Nat
        BY <4>1, <4>2, FS_Subset, FS_CardinalityType
      <4> QED BY <1>1, <1>c, <2>d, <3>4, <4>2, <4>3
    <3>5. CASE ~(done < uiTxBufferPos)
      <4>1. Cut(g)' = Cut(f)
        BY <2>8, <2>9, <2>10, <3>1, <3>2, <3>3, <3>5 DEF Cut
      <4> QED BY <1>1, <2>d, <3>5, <4>1
    <3> QED BY <3>4, <3>5
  <2>16. MatchedBy(g)'
    BY <2>2, <2>3, <2>9, <2>12, <2>13, <2>14, <2>15, <2>17 DEF MatchedBy
  <2> QED BY <2>15, <2>16 DEF Matched
<1> QED BY <1>5, <1>6

\* What is written belongs to the reply to an executed request that was no broadcast, at
\* most one each and in their order, although the reply is built and sent in the buffer
\* in which requests are received; it is the whole reply, except for one per fault.
THEOREM RepliesOfExecuted == Spec => []RepliesMatch
<1> DEFINE ReplyInv == RtuInv /\ Fresh /\ SendInv /\ Matched
<1>1. Init => ReplyInv
  <2> SUFFICES ASSUME Init PROVE SendInv /\ Matched
    BY RtuInit, FreshInit
  <2>1. ~Sending /\ Len(written) = 0 /\ Len(executed) = 0
    BY DEF Init, Sending
  <2>2. [i \in 1..0 |-> 1] \in [1..0 -> 1..0] /\ \A i : i \notin 1..0
    OBVIOUS
  <2>3. ASSUME NEW f \in [1..0 -> 1..0] PROVE Cut(f) = {} /\ Cardinality(Cut(f)) = 0
    BY <2>1, FS_EmptySet DEF Cut
  <2>4. faults = 0 /\ 0 <= 0
    BY DEF Init
  <2> QED BY <2>1, <2>2, <2>3, <2>4 DEF SendInv, Matched, MatchedBy
<1>2. ReplyInv /\ [Next]_vars => ReplyInv'
  BY RtuStep, FreshStep, SendStep, MatchStep
<1>3. ReplyInv => RepliesMatch
  BY DEF Matched, MatchedBy, RepliesMatch, Cut
<1> QED BY <1>1, <1>2, <1>3, PTL DEF Spec
-----------------------------------------------------------------------------
(* The holding registers.                                                  *)

\* The quantities on_03 or on_06 has still to copy when k are left.
PendingFields(k) == {Fields[i] : i \in (Len(Fields) - k + 1)..Len(Fields)}

\* A copy loop has something left to copy, and a read stays in the array.
Loops == /\ rpc \in {"on_03", "on_06"} => left >= 1
         /\ rpc \in {"on_03", "read"} => usAddress + usNRegs <= NREGS

\* A register without a quantity may be read as what it holds, and nothing else.
Plain == \A a \in Register :
           (\A f \in Names : Reg[f] # a) =>
             /\ known[a] = {usHoldingRegisters[a]} /\ kept[a] = {usHoldingRegisters[a]}
             /\ rpc \in {"on_03", "read"} => span[a] = {usHoldingRegisters[a]}

\* What a quantity converts to may be read, unless on_06 will replace it ...
Agreed == \A f \in Names :
            ~(rpc = "on_06" /\ f \in PendingFields(left)) => ToReg(MDL[f]) \subseteq known[Reg[f]]

\* ... by what was kept.
Replaced == \A f \in Names :
              rpc = "on_06" /\ f \in PendingFields(left) => kept[Reg[f]] \subseteq known[Reg[f]]

\* Until on_03 refreshes it a register holds what the next write keeps.
Copied == \A f \in Names :
            rpc \in {"idle", "on_06"} \/ (rpc = "on_03" /\ f \in PendingFields(left))
              => usHoldingRegisters[Reg[f]] \in kept[Reg[f]]

\* A read under way may report what could be read, and what on_03 has copied is of that.
Refreshed == \A f \in Names :
               /\ rpc \in {"on_03", "read"} => known[Reg[f]] \subseteq span[Reg[f]]
               /\ rpc = "read" \/ (rpc = "on_03" /\ f \notin PendingFields(left))
                    => usHoldingRegisters[Reg[f]] \in span[Reg[f]]

KnownInv == TypeOK /\ Loops /\ Plain /\ Copied /\ Agreed /\ Replaced /\ Refreshed
-----------------------------------------------------------------------------
(* Facts about the constants and the conversions.                          *)

\* There is a quantity, and every quantity has a register.
LEMMA FieldFacts ==
  /\ Len(Fields) \in Nat \ {0}
  /\ \A i \in 1..Len(Fields) : Fields[i] \in Names
  /\ \A f \in Names : Reg[f] \in Register
<1>1. Fields \in Seq(Names) /\ "uab" \in Names
  BY FieldAssumption
<1>2. Len(Fields) \in Nat /\ \A i \in 1..Len(Fields) : Fields[i] \in Names
  BY <1>1
<1>3. PICK i \in 1..Len(Fields) : Fields[i] = "uab"
  BY <1>1 DEF Names
<1>4. Len(Fields) # 0
  BY <1>2, <1>3
<1> QED BY <1>2, <1>4, RegAssumption DEF Register

\* A function on 1..n is a sequence of length n.
LEMMA FunIsSeq ==
  ASSUME NEW S, NEW n \in Nat, NEW f \in [1..n -> S]
  PROVE  f \in Seq(S) /\ Len(f) = n
<1>1. f \in Seq(S)
  BY SeqDef
<1> QED BY <1>1, LenProperties

\* The conversion of a quantity gives registers.
LEMMA ToRegType ==
  ASSUME NEW q \in Int
  PROVE  ToReg(q) \subseteq Word
<1>0. REG \in Nat \ {0}
  BY RegAssumption
<1>1. CASE -2 < q /\ q < 2 * REG
  <2>1. CASE q < 0
    BY <1>0, <1>1, <2>1 DEF ToReg, Word
  <2>2. CASE ~(q < 0)
    <3>1. q \div 2 \in 0..(REG - 1)
      BY <1>0, <1>1, <2>2
    <3>2. ToReg(q) = {q \div 2}
      BY <1>1, <2>2 DEF ToReg
    <3> QED BY <3>1, <3>2 DEF Word
  <2> QED BY <2>1, <2>2
<1>2. CASE ~(-2 < q /\ q < 2 * REG)
  BY <1>2 DEF ToReg
<1> QED BY <1>1, <1>2

\* A register copied to its quantity and back is the same.
LEMMA RoundTrip ==
  ASSUME NEW r \in Word
  PROVE  FromReg(r) \in Int /\ ToReg(FromReg(r)) = {r}
<1>1. REG \in Nat /\ r \in Nat /\ r <= REG - 1
  BY RegAssumption DEF Word
<1>2. (2 * r) \div 2 = r /\ -2 < 2 * r /\ 2 * r < 2 * REG /\ ~(2 * r < 0)
  BY <1>1
<1> QED BY <1>1, <1>2 DEF ToReg, FromReg

\* Every quantity is pending when a loop starts.
LEMMA PendingAll == PendingFields(Len(Fields)) = Names
  BY FieldFacts DEF PendingFields, Names

\* One step copies the first of the pending quantities.
LEMMA PendingStep ==
  ASSUME NEW k \in 1..Len(Fields)
  PROVE  /\ Fields[Len(Fields) - k + 1] \in Names
         /\ PendingFields(k) = PendingFields(k - 1) \cup {Fields[Len(Fields) - k + 1]}
         /\ Fields[Len(Fields) - k + 1] \notin PendingFields(k - 1)
         /\ PendingFields(0) = {}
<1> DEFINE j == Len(Fields) - k + 1
<1>1. j \in 1..Len(Fields) /\ Len(Fields) - (k - 1) + 1 = j + 1
  BY FieldFacts
<1>2. Fields[j] \in Names
  BY <1>1, FieldFacts
<1>3. j..Len(Fields) = ((j + 1)..Len(Fields)) \cup {j}
  BY <1>1, FieldFacts
<1>4. PendingFields(k) = {Fields[i] : i \in j..Len(Fields)}
  BY DEF PendingFields
<1>5. PendingFields(k - 1) = {Fields[i] : i \in (j + 1)..Len(Fields)}
  BY <1>1 DEF PendingFields
<1>6. Fields[j] \notin PendingFields(k - 1)
  BY <1>1, <1>5, FieldAssumption, FieldFacts
<1>7. PendingFields(0) = {}
  BY FieldFacts DEF PendingFields
<1> HIDE DEF j
<1>8. PendingFields(k) = PendingFields(k - 1) \cup {Fields[j]}
  BY <1>3, <1>4, <1>5
<1> QED BY <1>2, <1>6, <1>7, <1>8 DEF j
-----------------------------------------------------------------------------
(* The invariant holds at start-up.                                        *)

\* The registers are zero and main has set the quantities.
LEMMA KnownInit == RegInit => KnownInv
<1> SUFFICES ASSUME RegInit PROVE KnownInv
  OBVIOUS
<1>1. \A f \in Names : known[Reg[f]] = ToReg(MDLInit[f])
  <2> SUFFICES ASSUME NEW f \in Names PROVE known[Reg[f]] = ToReg(MDLInit[f])
    OBVIOUS
  <2> DEFINE g == CHOOSE g \in Names : Reg[g] = Reg[f]
  <2>1. g \in Names /\ Reg[g] = Reg[f]
    OBVIOUS
  <2>2. g = f
    BY <2>1, RegAssumption
  <2>3. Reg[f] \in Register
    BY FieldFacts
  <2>4. known[Reg[f]] = ToReg(MDLInit[g])
    BY <2>1, <2>3 DEF RegInit
  <2> QED BY <2>2, <2>4
<1>2. \A a \in Register : (\A f \in Names : Reg[f] # a) => known[a] = {0}
  BY DEF RegInit
<1>3. \A f \in Names : MDLInit[f] \in Int /\ ToReg(MDLInit[f]) \subseteq Word
  BY ToRegType, InputAssumption
<1>z. 0 \in Word
  BY RegAssumption DEF Word
<1>4. known \in [Register -> SUBSET Word]
  <2>1. \A a \in Register : known[a] \in SUBSET Word
    <3> SUFFICES ASSUME NEW a \in Register PROVE known[a] \subseteq Word
      OBVIOUS
    <3>1. CASE \E f \in Names : Reg[f] = a
      BY <1>1, <1>3, <3>1
    <3>2. CASE ~\E f \in Names : Reg[f] = a
      BY <1>2, <1>z, <3>2
    <3> QED BY <3>1, <3>2
  <2>2. known = [a \in Register |-> known[a]]
    BY DEF RegInit
  <2> QED BY <2>1, <2>2
<1>5. usHoldingRegisters \in [Register -> Word] /\ kept \in [Register -> SUBSET Word]
  BY <1>z DEF RegInit
<1>6. reply \in [exception : {"NONE", "ILLEGAL_DATA_VALUE", "ILLEGAL_DATA_ADDRESS"},
                 regs : Seq(Word)]
  BY DEF RegInit
<1>7. TypeOK
  BY <1>4, <1>5, <1>6, FieldFacts, InputAssumption, OpsAssumption DEF RegInit, TypeOK
<1>8. Plain
  BY <1>2 DEF RegInit, Plain
<1>9. Agreed
  BY <1>1 DEF RegInit, Agreed
<1>10. Copied
  BY FieldFacts DEF RegInit, Copied
<1> QED BY <1>7, <1>8, <1>9, <1>10 DEF RegInit, KnownInv, Loops, Replaced, Refreshed
-----------------------------------------------------------------------------
(* A step of each operation preserves it.                                  *)

\* The replies there are.
LEMMA AnswerType ==
  ASSUME TypeOK,
         \/ UNCHANGED reply
         \/ Answer("NONE", <<>>)
         \/ Answer("ILLEGAL_DATA_VALUE", <<>>)
         \/ Answer("ILLEGAL_DATA_ADDRESS", <<>>)
  PROVE  reply' \in [exception : {"NONE", "ILLEGAL_DATA_VALUE", "ILLEGAL_DATA_ADDRESS"},
                     regs : Seq(Word)]
<1>1. <<>> \in Seq(Word)
  OBVIOUS
<1>2. CASE UNCHANGED reply
  BY <1>2 DEF TypeOK
<1>3. CASE Answer("NONE", <<>>)
  BY <1>1, <1>3 DEF Answer
<1>4. CASE Answer("ILLEGAL_DATA_VALUE", <<>>)
  BY <1>1, <1>4 DEF Answer
<1>5. CASE Answer("ILLEGAL_DATA_ADDRESS", <<>>)
  BY <1>1, <1>5 DEF Answer
<1> QED BY <1>2, <1>3, <1>4, <1>5

\* Requests that are refused change none of what the invariant relates.
LEMMA RefuseStep ==
  ASSUME KnownInv, NewRequest, NEW e \in {"ILLEGAL_DATA_VALUE", "ILLEGAL_DATA_ADDRESS"}, Refuse(e),
         UNCHANGED <<usHoldingRegisters, MDL, sets>>, usAddress' \in Nat, usNRegs' \in Nat
  PROVE  KnownInv'
<1>1. rpc = "idle" /\ requests' \in 0..MaxRegRequests
  BY OpsAssumption DEF KnownInv, TypeOK, NewRequest
<1>2. Answer(e, <<>>) /\ UNCHANGED <<rpc, left, known, kept, span>>
  BY DEF Refuse, reghist
<1>3. TypeOK'
  BY <1>1, <1>2, AnswerType DEF KnownInv, TypeOK
<1>4. Loops' /\ Plain' /\ Copied'
  BY <1>1, <1>2 DEF KnownInv, Loops, Plain, Copied
<1>5. Agreed' /\ Replaced' /\ Refreshed'
  BY <1>1, <1>2 DEF KnownInv, Agreed, Replaced, Refreshed
<1> QED BY <1>3, <1>4, <1>5 DEF KnownInv

\* eMBFuncReadHoldingRegister: refused, or on_03 starts.
LEMMA ReadStep ==
  ASSUME KnownInv, NEW a \in Nat, NEW c \in Nat, NEW usLen,
         eMBFuncReadHoldingRegister(a, c, usLen)
  PROVE  KnownInv'
<1> DEFINE n == c % BYTE
<1>1. n \in Nat
  BY RegAssumption
<1>2. /\ NewRequest /\ usAddress' = a /\ usNRegs' = n
      /\ UNCHANGED <<usHoldingRegisters, MDL, sets>>
  BY DEF eMBFuncReadHoldingRegister
<1>3. rpc = "idle" /\ requests' \in 0..MaxRegRequests
  BY <1>2, OpsAssumption DEF NewRequest, KnownInv, TypeOK
<1>4. /\ rpc = "idle" /\ NewRequest /\ requests' \in 0..MaxRegRequests
      /\ usAddress' = a /\ usNRegs' = n
      /\ UNCHANGED <<usHoldingRegisters, MDL, sets>>
  BY <1>2, <1>3
<1>5. \/ Refuse("ILLEGAL_DATA_VALUE") \/ Refuse("ILLEGAL_DATA_ADDRESS")
      \/ /\ rpc' = "on_03" /\ left' = Len(Fields) /\ span' = known
         /\ UNCHANGED <<reply, known, kept>>
         /\ InRange(a, n)
  <2> DEFINE valid == usLen = 5 /\ n \in 1..READ_MAX
  <2>1. CASE ~valid
    BY <2>1 DEF eMBFuncReadHoldingRegister
  <2>2. CASE valid /\ ~InRange(a, n)
    BY <2>2 DEF eMBFuncReadHoldingRegister
  <2>3. CASE valid /\ InRange(a, n)
    BY <2>3 DEF eMBFuncReadHoldingRegister
  <2> QED BY <2>1, <2>2, <2>3
<1> HIDE DEF n
<1>6. CASE Refuse("ILLEGAL_DATA_VALUE") \/ Refuse("ILLEGAL_DATA_ADDRESS")
  BY <1>1, <1>4, <1>6, RefuseStep
<1>7. CASE /\ rpc' = "on_03" /\ left' = Len(Fields) /\ span' = known
           /\ UNCHANGED <<reply, known, kept>>
           /\ InRange(a, n)
  <2>1. TypeOK'
    BY <1>1, <1>4, <1>7, AnswerType, FieldFacts DEF KnownInv, TypeOK
  <2>2. Loops'
    BY <1>1, <1>4, <1>7, FieldFacts DEF Loops, InRange
  <2>3. Plain'
    BY <1>4, <1>7 DEF KnownInv, Plain
  <2>4. Copied'
    BY <1>4, <1>7, PendingAll DEF KnownInv, Copied
  <2>5. Agreed'
    BY <1>4, <1>7 DEF KnownInv, Agreed
  <2>6. Replaced' /\ Refreshed'
    BY <1>7, PendingAll DEF Replaced, Refreshed
  <2> QED BY <2>1, <2>2, <2>3, <2>4, <2>5, <2>6 DEF KnownInv
<1> QED BY <1>5, <1>6, <1>7

\* on_03 refreshes one register from its quantity.
LEMMA On03Step ==
  ASSUME KnownInv, On03
  PROVE  KnownInv'
<1> DEFINE f == Field
<1>1. left \in 1..Len(Fields) /\ left' = left - 1 /\ rpc = "on_03"
  BY FieldFacts DEF KnownInv, TypeOK, Loops, On03
<1>2. /\ f \in Names /\ PendingFields(left) = PendingFields(left') \cup {f} /\ f \notin PendingFields(left')
      /\ PendingFields(0) = {}
  BY <1>1, PendingStep DEF Field
<1>3. PICK r \in ToReg(MDL[f]) : usHoldingRegisters' = [usHoldingRegisters EXCEPT ![Reg[f]] = r]
  BY DEF On03
<1>4. /\ rpc' = IF left = 1 THEN "read" ELSE rpc
      /\ UNCHANGED <<usAddress, usNRegs, reply, MDL, known, kept, span, requests, sets>>
  BY DEF On03, reghist
<1> HIDE DEF f
<1>5. r \in Word /\ Reg[f] \in Register
  <2>1. MDL[f] \in Int
    BY <1>2 DEF KnownInv, TypeOK
  <2>2. ToReg(MDL[f]) \subseteq Word
    BY <2>1, ToRegType
  <2> QED BY <1>2, <1>3, <2>2, FieldFacts
<1>6. /\ usHoldingRegisters' \in [Register -> Word]
      /\ usHoldingRegisters'[Reg[f]] = r
      /\ \A a \in Register : a # Reg[f] => usHoldingRegisters'[a] = usHoldingRegisters[a]
  BY <1>3, <1>5 DEF KnownInv, TypeOK
<1>7. \A g \in Names : g # f => usHoldingRegisters'[Reg[g]] = usHoldingRegisters[Reg[g]]
  BY <1>2, <1>6, RegAssumption, FieldFacts
<1>8. r \in span[Reg[f]]
  <2>1. ToReg(MDL[f]) \subseteq known[Reg[f]]
    BY <1>1, <1>2 DEF KnownInv, Agreed
  <2>2. known[Reg[f]] \subseteq span[Reg[f]]
    BY <1>1, <1>2 DEF KnownInv, Refreshed
  <2> QED BY <1>3, <2>1, <2>2
<1>9. TypeOK'
  BY <1>1, <1>4, <1>6 DEF KnownInv, TypeOK
<1>10. Loops'
  BY <1>1, <1>4 DEF KnownInv, Loops
<1>11. Plain'
  BY <1>1, <1>2, <1>4, <1>6 DEF KnownInv, Plain
<1>12. Copied'
  <2> SUFFICES ASSUME NEW g \in Names, rpc' = "on_03" /\ g \in PendingFields(left')
               PROVE  usHoldingRegisters'[Reg[g]] \in kept[Reg[g]]
    BY <1>1, <1>4 DEF Copied
  <2>1. g # f /\ g \in PendingFields(left)
    BY <1>2
  <2> QED BY <1>1, <1>7, <2>1 DEF KnownInv, Copied
<1>13. Agreed' /\ Replaced'
  BY <1>1, <1>4 DEF KnownInv, Agreed, Replaced
<1>14. Refreshed'
  <2> SUFFICES ASSUME NEW g \in Names
               PROVE  /\ known[Reg[g]] \subseteq span[Reg[g]]
                      /\ rpc' = "read" \/ (rpc' = "on_03" /\ g \notin PendingFields(left'))
                           => usHoldingRegisters'[Reg[g]] \in span[Reg[g]]
    BY <1>1, <1>4 DEF Refreshed
  <2>1. known[Reg[g]] \subseteq span[Reg[g]]
    BY <1>1 DEF KnownInv, Refreshed
  <2>2. CASE g = f
    BY <1>6, <1>8, <2>1, <2>2
  <2>3. CASE g # f
    <3>1. rpc' = "read" \/ (rpc' = "on_03" /\ g \notin PendingFields(left')) => g \notin PendingFields(left)
      BY <1>1, <1>2, <1>4, <2>3
    <3> QED BY <1>1, <1>7, <2>1, <2>3, <3>1 DEF KnownInv, Refreshed
  <2> QED BY <2>2, <2>3
<1> QED BY <1>9, <1>10, <1>11, <1>12, <1>13, <1>14 DEF KnownInv

\* The reply of a read leaves registers and quantities alone.
LEMMA ReplyStep ==
  ASSUME KnownInv, ReadReply
  PROVE  KnownInv'
<1>1. /\ rpc = "read" /\ rpc' = "idle" /\ kept' = span
      /\ reply' = [exception |-> "NONE",
                   regs |-> [i \in 1..usNRegs |-> usHoldingRegisters[usAddress + i - 1]]]
      /\ UNCHANGED <<usAddress, usNRegs, left, usHoldingRegisters, MDL, known, span,
                     requests, sets>>
  BY DEF ReadReply, Answer
<1>2. \A i \in 1..usNRegs : usAddress + i - 1 \in Register
  BY <1>1, RegAssumption DEF KnownInv, Loops, TypeOK, Register
<1>3. [i \in 1..usNRegs |-> usHoldingRegisters[usAddress + i - 1]] \in Seq(Word)
  <2>1. [i \in 1..usNRegs |-> usHoldingRegisters[usAddress + i - 1]] \in [1..usNRegs -> Word]
    BY <1>2 DEF KnownInv, TypeOK
  <2>2. usNRegs \in Nat
    BY DEF KnownInv, TypeOK
  <2> QED BY <2>1, <2>2, FunIsSeq
<1>4. TypeOK'
  BY <1>1, <1>3 DEF KnownInv, TypeOK
<1>5. Loops' /\ Replaced' /\ Refreshed'
  BY <1>1 DEF Loops, Replaced, Refreshed
<1>6. Plain'
  BY <1>1 DEF KnownInv, Plain
<1>7. Copied'
  BY <1>1 DEF KnownInv, Refreshed, Copied
<1>8. Agreed'
  BY <1>1 DEF KnownInv, Agreed
<1> QED BY <1>4, <1>5, <1>6, <1>7, <1>8 DEF KnownInv

\* What a write does to the registers and to what may be read.
LEMMA WriteStep ==
  ASSUME KnownInv, NewRequest, NEW a \in Nat, NEW vs \in Seq(Word), RegWrite(a, vs)
  PROVE  KnownInv'
<1> DEFINE n == Len(vs)
<1> DEFINE range == a..(a + n - 1)
<1> DEFINE sets1 == [i \in 1..n |-> {vs[i]}]
<1>1. n \in Nat /\ \A b \in range : b - a + 1 \in 1..n /\ vs[b - a + 1] \in Word
  <2>1. n \in Nat
    OBVIOUS
  <2>2. \A b \in range : b - a + 1 \in 1..n
    BY <2>1
  <2>3. \A i \in 1..n : vs[i] \in Word
    OBVIOUS
  <2> QED BY <2>1, <2>2, <2>3
<1>2. /\ rpc = "idle" /\ requests' \in 0..MaxRegRequests
      /\ usAddress' = a /\ usNRegs' = n
      /\ UNCHANGED <<MDL, sets>>
  BY OpsAssumption DEF KnownInv, TypeOK, NewRequest, RegWrite
<1>3. CASE ~InRange(a, n)
  <2>1. Refuse("ILLEGAL_DATA_ADDRESS") /\ UNCHANGED usHoldingRegisters
    BY <1>3 DEF RegWrite
  <2> QED BY <1>1, <1>2, <2>1, RefuseStep
<1>4. CASE InRange(a, n)
  <2>1. /\ usHoldingRegisters' = Put(usHoldingRegisters, a, vs)
        /\ kept' = Put(kept, a, sets1)
        /\ known' = kept'
        /\ rpc' = "on_06" /\ left' = Len(Fields) /\ UNCHANGED <<reply, span>>
    BY <1>4 DEF RegWrite
  <2>l. sets1 \in Seq({{v} : v \in Word}) /\ Len(sets1) = n
    <3>1. sets1 \in [1..n -> {{v} : v \in Word}]
      OBVIOUS
    <3> HIDE DEF sets1
    <3> QED BY <1>1, <3>1, FunIsSeq
  <2>2. \A b \in Register : usHoldingRegisters'[b] = IF b \in range THEN vs[b - a + 1]
                                                                  ELSE usHoldingRegisters[b]
    BY <2>1 DEF Put
  <2>3. \A b \in Register : kept'[b] = IF b \in range THEN {vs[b - a + 1]} ELSE kept[b]
    <3>1. \A b \in Register : kept'[b] = IF b \in range THEN sets1[b - a + 1] ELSE kept[b]
      BY <2>1, <2>l DEF Put
    <3> QED BY <1>1, <3>1
  <2>4. kept' = [b \in Register |-> kept'[b]]
    BY <2>1 DEF Put
  <2>5. \A f \in Names : Reg[f] \in Register
    BY FieldFacts
  <2> HIDE DEF n, range, sets1
  <2>6. usHoldingRegisters' \in [Register -> Word]
    <3>1. \A b \in Register : usHoldingRegisters'[b] \in Word
      BY <1>1, <2>2 DEF KnownInv, TypeOK
    <3>2. usHoldingRegisters' = [b \in Register |-> usHoldingRegisters'[b]]
      BY <2>1 DEF Put
    <3> QED BY <3>1, <3>2
  <2>7. kept' \in [Register -> SUBSET Word]
    <3>1. ASSUME NEW b \in Register PROVE kept'[b] \in SUBSET Word
      <4>1. CASE b \in range
        <5>1. vs[b - a + 1] \in Word /\ kept'[b] = {vs[b - a + 1]}
          BY <1>1, <2>3, <4>1
        <5> QED BY <5>1
      <4>2. CASE b \notin range
        BY <2>3, <4>2 DEF KnownInv, TypeOK
      <4> QED BY <4>1, <4>2
    <3> QED BY <2>4, <3>1
  <2>8. TypeOK'
    BY <1>1, <1>2, <2>1, <2>6, <2>7, FieldFacts DEF KnownInv, TypeOK
  <2>9. Loops'
    BY <2>1, FieldFacts DEF Loops
  <2>10. Plain'
    <3> SUFFICES ASSUME NEW b \in Register, \A f \in Names : Reg[f] # b
                 PROVE  kept'[b] = {usHoldingRegisters'[b]}
      BY <2>1 DEF Plain
    <3>1. kept[b] = {usHoldingRegisters[b]}
      BY DEF KnownInv, Plain
    <3> QED BY <2>2, <2>3, <3>1
  <2>11. Copied'
    <3> SUFFICES ASSUME NEW f \in Names PROVE usHoldingRegisters'[Reg[f]] \in kept'[Reg[f]]
      BY DEF Copied
    <3>1. usHoldingRegisters[Reg[f]] \in kept[Reg[f]]
      BY <1>2 DEF KnownInv, Copied
    <3> QED BY <2>2, <2>3, <2>5, <3>1
  <2>12. Agreed' /\ Replaced' /\ Refreshed'
    BY <2>1, PendingAll DEF Agreed, Replaced, Refreshed
  <2> QED BY <2>8, <2>9, <2>10, <2>11, <2>12 DEF KnownInv
<1> QED BY <1>3, <1>4

\* A handler refuses a write, or it is carried out.
LEMMA RefuseWriteStep ==
  ASSUME KnownInv, NewRequest, RefuseWrite
  PROVE  KnownInv'
<1>1. usAddress' \in Nat /\ usNRegs' \in Nat
  BY DEF RefuseWrite, KnownInv, TypeOK
<1> QED BY <1>1, RefuseStep DEF RefuseWrite

LEMMA WriteMultipleStep ==
  ASSUME KnownInv, NEW a \in Nat, NEW n \in Nat, NEW usLen, NEW bc,
         NEW buffer \in [1..WRITE_MAX -> Values],
         eMBFuncWriteMultipleHoldingRegister(a, n, usLen, bc, buffer)
  PROVE  KnownInv'
<1>1. NewRequest
  BY DEF eMBFuncWriteMultipleHoldingRegister
<1> DEFINE ok == usLen >= 6 /\ n \in 1..WRITE_MAX /\ bc = (2 * n) % BYTE
<1>2. CASE ok
  <2>1. RegWrite(a, SubSeq(buffer, 1, n))
    BY <1>2 DEF eMBFuncWriteMultipleHoldingRegister
  <2>2. n <= WRITE_MAX /\ WRITE_MAX \in Nat
    BY <1>2, MaxAssumption
  <2>3. buffer \in Seq(Values) /\ Len(buffer) = WRITE_MAX
    BY <2>2, FunIsSeq
  <2>4. ASSUME NEW i \in 1..n PROVE buffer[i] \in Word
    <3>1. i \in 1..WRITE_MAX
      BY <2>2
    <3>2. buffer[i] \in Values
      BY <3>1
    <3> QED BY <3>2, InputAssumption DEF Word
  <2>5. SubSeq(buffer, 1, n) = [i \in 1..n |-> buffer[1 + i - 1]]
    BY <2>2, <2>3
  <2>6. SubSeq(buffer, 1, n) \in [1..n -> Word]
    <3>1. \A i \in 1..n : 1 + i - 1 = i
      OBVIOUS
    <3>2. \A i \in 1..n : buffer[1 + i - 1] \in Word
      BY <2>4, <3>1
    <3> QED BY <2>5, <3>2
  <2>7. SubSeq(buffer, 1, n) \in Seq(Word)
    BY <2>6, FunIsSeq
  <2> QED BY <1>1, <2>1, <2>7, WriteStep
<1>3. CASE ~ok
  BY <1>1, <1>3, RefuseWriteStep DEF eMBFuncWriteMultipleHoldingRegister
<1> QED BY <1>2, <1>3

\* on_06 replaces one quantity by its register.
LEMMA On06Step ==
  ASSUME KnownInv, On06
  PROVE  KnownInv'
<1> DEFINE f == Field
<1>1. left \in 1..Len(Fields) /\ left' = left - 1 /\ rpc = "on_06"
  BY FieldFacts DEF KnownInv, TypeOK, Loops, On06
<1>2. /\ f \in Names /\ PendingFields(left) = PendingFields(left') \cup {f} /\ f \notin PendingFields(left')
      /\ PendingFields(0) = {}
  BY <1>1, PendingStep DEF Field
<1>3. /\ MDL' = [MDL EXCEPT ![f] = FromReg(usHoldingRegisters[Reg[f]])]
      /\ rpc' = IF left = 1 THEN "idle" ELSE rpc
      /\ UNCHANGED reply \/ Answer("NONE", <<>>)
      /\ UNCHANGED <<usAddress, usNRegs, usHoldingRegisters, known, kept, span, requests, sets>>
  BY <1>1 DEF On06, reghist
<1> HIDE DEF f
<1>4. /\ usHoldingRegisters[Reg[f]] \in Word
      /\ FromReg(usHoldingRegisters[Reg[f]]) \in Int
      /\ ToReg(FromReg(usHoldingRegisters[Reg[f]])) = {usHoldingRegisters[Reg[f]]}
  <2>1. usHoldingRegisters[Reg[f]] \in Word
    BY <1>2, FieldFacts DEF KnownInv, TypeOK
  <2> QED BY <2>1, RoundTrip
<1>5. /\ MDL' \in [Names -> Int]
      /\ MDL'[f] = FromReg(usHoldingRegisters[Reg[f]])
      /\ \A g \in Names : g # f => MDL'[g] = MDL[g]
  BY <1>2, <1>3, <1>4 DEF KnownInv, TypeOK
<1>6. TypeOK'
  BY <1>1, <1>3, <1>5, AnswerType DEF KnownInv, TypeOK
<1>7. Loops'
  BY <1>1, <1>3 DEF Loops
<1>8. Plain' /\ Copied'
  BY <1>1, <1>3 DEF KnownInv, Plain, Copied
<1>9. Agreed'
  <2> SUFFICES ASSUME NEW g \in Names, ~(rpc' = "on_06" /\ g \in PendingFields(left'))
               PROVE  ToReg(MDL'[g]) \subseteq known[Reg[g]]
    BY <1>3 DEF Agreed
  <2>1. g \notin PendingFields(left')
    BY <1>1, <1>2, <1>3
  <2>2. CASE g = f
    <3>1. kept[Reg[f]] \subseteq known[Reg[f]]
      BY <1>1, <1>2 DEF KnownInv, Replaced
    <3>2. usHoldingRegisters[Reg[f]] \in kept[Reg[f]]
      BY <1>1, <1>2 DEF KnownInv, Copied
    <3> QED BY <1>4, <1>5, <2>2, <3>1, <3>2
  <2>3. CASE g # f
    <3>1. g \notin PendingFields(left)
      BY <1>2, <2>1, <2>3
    <3>2. ToReg(MDL[g]) \subseteq known[Reg[g]]
      BY <3>1 DEF KnownInv, Agreed
    <3> QED BY <1>5, <2>3, <3>2
  <2> QED BY <2>2, <2>3
<1>10. Replaced'
  BY <1>1, <1>2, <1>3 DEF KnownInv, Replaced
<1>11. Refreshed'
  BY <1>1, <1>3 DEF Refreshed
<1> QED BY <1>6, <1>7, <1>8, <1>9, <1>10, <1>11 DEF KnownInv

\* "set uab" widens what a read or a write under way may leave.
LEMMA SetStep ==
  ASSUME KnownInv, NEW p \in Params, SetUab(p)
  PROVE  KnownInv'
<1> DEFINE u == Reg["uab"]
<1> DEFINE k == ToReg(p) \cup (IF rpc = "on_06" THEN kept[u] ELSE {})
<1>1. p \in Int /\ ToReg(p) \subseteq Word /\ "uab" \in Names /\ u \in Register
  BY InputAssumption, ToRegType, FieldAssumption, FieldFacts
<1>2. /\ MDL' = [MDL EXCEPT !["uab"] = p]
      /\ known' = [known EXCEPT ![u] = k]
      /\ span' = [span EXCEPT ![u] = @ \cup ToReg(p)]
      /\ sets < MaxSets /\ sets' = sets + 1
      /\ UNCHANGED <<rpc, usAddress, usNRegs, left, reply, usHoldingRegisters, kept, requests>>
  BY DEF SetUab, modbus
<1>3. /\ MDL' \in [Names -> Int] /\ MDL'["uab"] = p
      /\ \A f \in Names : f # "uab" => MDL'[f] = MDL[f]
  BY <1>1, <1>2 DEF KnownInv, TypeOK
<1>4. /\ known' \in [Register -> SUBSET Word] /\ known'[u] = k
      /\ \A a \in Register : a # u => known'[a] = known[a]
  <2>1. k \subseteq Word
    BY <1>1 DEF KnownInv, TypeOK
  <2> HIDE DEF k
  <2> QED BY <1>1, <1>2, <2>1 DEF KnownInv, TypeOK
<1>5. /\ span' \in [Register -> SUBSET Word] /\ span'[u] = span[u] \cup ToReg(p)
      /\ \A a \in Register : a # u => span'[a] = span[a]
  <2>1. span[u] \cup ToReg(p) \subseteq Word
    BY <1>1 DEF KnownInv, TypeOK
  <2> QED BY <1>1, <1>2, <2>1 DEF KnownInv, TypeOK
<1>6. TypeOK'
  BY <1>1, <1>2, <1>3, <1>4, <1>5, OpsAssumption DEF KnownInv, TypeOK
<1>7. \A f \in Names : f # "uab" => Reg[f] # u /\ Reg[f] \in Register
  BY <1>1, RegAssumption, FieldFacts
<1>8. Loops' /\ Copied'
  BY <1>2 DEF KnownInv, Loops, Copied
<1>9. Plain'
  BY <1>1, <1>2, <1>4, <1>5 DEF KnownInv, Plain
<1>10. Agreed'
  <2> SUFFICES ASSUME NEW f \in Names, ~(rpc = "on_06" /\ f \in PendingFields(left))
               PROVE  ToReg(MDL'[f]) \subseteq known'[Reg[f]]
    BY <1>2 DEF Agreed
  <2>1. CASE f = "uab"
    BY <1>3, <1>4, <2>1
  <2>2. CASE f # "uab"
    BY <1>3, <1>4, <1>7, <2>2 DEF KnownInv, Agreed
  <2> QED BY <2>1, <2>2
<1>11. Replaced'
  <2> SUFFICES ASSUME NEW f \in Names, rpc = "on_06" /\ f \in PendingFields(left)
               PROVE  kept[Reg[f]] \subseteq known'[Reg[f]]
    BY <1>2 DEF Replaced
  <2>1. CASE f = "uab"
    BY <1>4, <2>1
  <2>2. CASE f # "uab"
    BY <1>4, <1>7, <2>2 DEF KnownInv, Replaced
  <2> QED BY <2>1, <2>2
<1>12. Refreshed'
  <2> SUFFICES ASSUME NEW f \in Names
               PROVE  /\ rpc \in {"on_03", "read"} => known'[Reg[f]] \subseteq span'[Reg[f]]
                      /\ rpc = "read" \/ (rpc = "on_03" /\ f \notin PendingFields(left))
                           => usHoldingRegisters[Reg[f]] \in span'[Reg[f]]
    BY <1>2 DEF Refreshed
  <2>1. CASE f = "uab"
    BY <1>4, <1>5, <2>1 DEF KnownInv, Refreshed
  <2>2. CASE f # "uab"
    BY <1>4, <1>5, <1>7, <2>2 DEF KnownInv, Refreshed
  <2> QED BY <2>1, <2>2
<1> QED BY <1>6, <1>8, <1>9, <1>10, <1>11, <1>12 DEF KnownInv

\* Every step preserves the invariant.
LEMMA KnownStep ==
  ASSUME KnownInv, [RegNext]_regvars
  PROVE  KnownInv'
<1>1. CASE UNCHANGED regvars
  BY <1>1 DEF regvars, modbus, reghist, KnownInv, TypeOK, Loops, Plain, Copied, Agreed, Replaced, Refreshed
<1>2. ASSUME NEW a \in Addresses, NEW c \in Counts, NEW usLen \in Lengths,
             eMBFuncReadHoldingRegister(a, c, usLen)
      PROVE  KnownInv'
  BY <1>2, ReadStep, InputAssumption
<1>3. ASSUME NEW a \in Addresses, NEW v \in Values, NEW usLen \in Lengths,
             eMBFuncWriteHoldingRegister(a, v, usLen)
      PROVE  KnownInv'
  <2>1. a \in Nat /\ <<v>> \in Seq(Word)
    BY InputAssumption DEF Word
  <2>2. CASE usLen = 5
    BY <1>3, <2>1, <2>2, WriteStep DEF eMBFuncWriteHoldingRegister
  <2>3. CASE usLen # 5
    BY <1>3, <2>3, RefuseWriteStep DEF eMBFuncWriteHoldingRegister
  <2> QED BY <2>2, <2>3
<1>4. ASSUME NEW a \in Addresses, NEW n \in Counts, NEW usLen \in Lengths, NEW bc \in ByteCounts,
             NEW buffer \in [1..WRITE_MAX -> Values],
             eMBFuncWriteMultipleHoldingRegister(a, n, usLen, bc, buffer)
      PROVE  KnownInv'
  <2>1. a \in Nat /\ n \in Nat
    BY InputAssumption
  <2> QED BY <1>4, <2>1, WriteMultipleStep
<1>5. ASSUME NEW p \in Params, SetUab(p)
      PROVE  KnownInv'
  BY <1>5, SetStep
<1> QED BY <1>1, <1>2, <1>3, <1>4, <1>5, On03Step, ReplyStep, On06Step DEF RegNext
-----------------------------------------------------------------------------
\* The indices, counts and values of the register callbacks stay in their
\* ranges; in particular no request reaches beyond usHoldingRegisters.
THEOREM RegistersTypeCorrect == RegSpec => []TypeOK
<1>1. KnownInv => TypeOK
  BY DEF KnownInv
<1> QED BY <1>1, KnownInit, KnownStep, PTL DEF RegSpec

\* A read (eMBRegHoldingCB, MB_REG_READ) reports for each of its registers what the
\* requests and commands before and during it leave possible: what was last written or
\* set, or what a write has taken the quantity back to.
THEOREM ReadsKnownAlways == RegSpec => ReadsKnown
<1>1. ASSUME KnownInv, ReadReply, NEW i \in 1..usNRegs
      PROVE  reply'.regs[i] \in span[usAddress + i - 1]
  <2> DEFINE a == usAddress + i - 1
  <2>1. rpc = "read" /\ reply'.regs[i] = usHoldingRegisters[a]
    BY <1>1 DEF ReadReply, Answer
  <2>2. a \in Register
    BY <1>1, <2>1, RegAssumption DEF KnownInv, Loops, TypeOK, Register
  <2> HIDE DEF a
  <2>3. (\A f \in Names : Reg[f] # a) => usHoldingRegisters[a] \in span[a]
    BY <1>1, <2>1, <2>2 DEF KnownInv, Plain
  <2>4. (\E f \in Names : Reg[f] = a) => usHoldingRegisters[a] \in span[a]
    BY <1>1, <2>1 DEF KnownInv, Refreshed
  <2> QED BY <2>1, <2>3, <2>4 DEF a
<1>2. KnownInv => [ReadReply => \A i \in 1..usNRegs :
                                  reply'.regs[i] \in span[usAddress + i - 1]]_regvars
  BY <1>1
<1> QED BY <1>2, KnownInit, KnownStep, PTL DEF RegSpec, ReadsKnown
=============================================================================
