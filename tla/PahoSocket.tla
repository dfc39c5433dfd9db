----------------------------- MODULE PahoSocket -----------------------------
(***************************************************************************)
(* How Paho moves packets over a socket that takes and gives any number of *)
(* bytes at a time (component/paho.mqtt.c-1.3.9: Socket.c, SocketBuffer.c, *)
(* MQTTPacket.c and their callers).                                        *)
(*                                                                         *)
(* A packet that could be written in part only becomes a pending write; it *)
(* is finished by the receive thread, inside Socket_getReadySocket, under  *)
(* socket_mutex alone, while the publisher works under mqttclient_mutex.   *)
(* A packet that could be read in part only is kept in a queue; the next   *)
(* attempt replays its fixed header from there.  Lists and queues are      *)
(* found by socket number, and a new connection gets the number of the old.*)
(*                                                                         *)
(* A byte is <<packet, place>>, of an outbound packet also with the length *)
(* of the packet; outbound packets are numbered as they are sent.          *)
(***************************************************************************)
EXTENDS Integers, Sequences, FiniteSets, SequencesExt

CONSTANTS
    Iovecs,         \* lengths of the buffers of a PUBLISH
    Input,          \* per packet the broker sends: <<header, rest, answered>>
    MaxPublish,     \* bound: publications
    MaxPings,       \* bound: PINGREQs
    MaxConns,       \* bound: connections
    MaxFaults       \* bound: broken connections, full send buffers

ASSUME PahoSocketAssumption ==
    /\ Iovecs \in Seq(Nat \ {0})
    /\ Input \in Seq((2 .. 5) \X Nat \X BOOLEAN)
    /\ MaxPublish \in Nat /\ MaxPings \in Nat /\ MaxConns \in Nat /\ MaxFaults \in Nat

VARIABLES
    up,         \* the client has a socket and is connected
    broken,     \* the connection takes nothing more, and ends after its input
    wire,       \* the bytes written on this connection
    writes,     \* SocketBuffer: pending writes, of [pkt, lens, bytes]
    wpending,   \* the socket is in mod_s.write_pending
    wset,       \* the socket is in mod_s.pending_wset
    pwset,      \* the receive thread's copy of it
    avail, read,    \* number of input bytes that arrived, and that were taken
    queue,      \* SocketBuffer: the packet being read
    got,        \* history: packets MQTTPacket_Factory returned
    pub, rcv,   \* where the publisher and the receive thread are
    owner,      \* who holds mqttclient_mutex
    sent,       \* outbound packets so far
    published, pings, conns, faults

net == <<up, broken, wire>>
pend == <<writes, wpending, wset>>
input == <<avail, read, queue, got>>
bounds == <<published, pings, conns, faults>>
vars == <<net, pend, pwset, input, pub, rcv, owner, sent, bounds>>

NoQueue == [listed |-> FALSE, index |-> 0, header |-> <<>>, data |-> <<>>]

\* Where each of some buffers ends: curbuflen in the loops over them.
Ends(lens) ==
    LET end[i \in 0 .. Len(lens)] == IF i = 0 THEN 0 ELSE end[i - 1] + lens[i] IN end

Total(lens) == Ends(lens)[Len(lens)]
Least(a, b) == IF a < b THEN a ELSE b

Fault == faults < MaxFaults /\ faults' = faults + 1

Init ==
    /\ up = FALSE /\ broken = FALSE /\ wire = <<>>
    /\ writes = <<>> /\ wpending = FALSE /\ wset = FALSE /\ pwset = FALSE
    /\ avail = 0 /\ read = 0 /\ queue = NoQueue /\ got = <<>>
    /\ pub = "idle" /\ rcv = "idle" /\ owner = "none"
    /\ sent = 0 /\ published = 0 /\ pings = 0 /\ conns = 0 /\ faults = 0

(***************************************************************************)
(* Writing.                                                                *)
(***************************************************************************)

MutLeft(pkt, lens, done) ==
    LET start(i) == Ends(lens)[i - 1]
        offset(i) == IF done <= start(i) \/ done >= start(i) + lens[i]
                     THEN IF done > start(i) + lens[i] THEN lens[i] ELSE 0
                     ELSE done - start(i)
    IN FlattenSeq([i \in DOMAIN lens |->
          [k \in 1 .. (lens[i] - offset(i)) |-> <<pkt, start(i) + offset(i) + k, Total(lens)>>]])

\* The bytes of a packet after the first `done` ones, put together from the
\* buffers that were not, or not fully, written.
Left(pkt, lens, done) ==
    LET start(i) == Ends(lens)[i - 1]
        offset(i) == IF done <= start(i) THEN 0
                     ELSE Least(done - start(i), lens[i])
    IN FlattenSeq([i \in DOMAIN lens |->
          [k \in 1 .. (lens[i] - offset(i)) |-> <<pkt, start(i) + offset(i) + k, Total(lens)>>]])

\* writev takes n of the bytes.
Writev(bytes, n) == wire' = wire \o SubSeq(bytes, 1, n)

\* Socket_putdatas of a new packet, up to its entry in the list of pending
\* writes: n bytes are written; what is left is kept in SocketBuffer.
PutDatas(lens, n) ==
    /\ sent' = sent + 1
    /\ Writev(Left(sent + 1, lens, 0), n)
    /\ writes' = IF n = Total(lens) THEN writes
                 ELSE Append(writes, [pkt |-> sent + 1, lens |-> lens, bytes |-> n])

\* Acknowledgements, PINGREQ and DISCONNECT are one buffer of two bytes here.
Short == <<2>>

MutSocketClose ==
    /\ writes' = IF writes = <<>> THEN <<>> ELSE Tail(writes)
    /\ wpending' = FALSE /\ wset' = FALSE
    /\ UNCHANGED queue

\* Socket_close removes everything kept for the socket number.
SocketClose ==
    /\ writes' = IF writes = <<>> THEN <<>> ELSE Tail(writes)
    /\ wpending' = FALSE /\ wset' = FALSE
    /\ queue' = NoQueue

\* A DISCONNECT is tried first; it fails if a write is pending.
MQTTClient_closeSession ==
    /\ up' = FALSE
    /\ IF wpending \/ broken THEN UNCHANGED <<wire, sent>>
       ELSE /\ sent' = sent + 1
            /\ \E n \in 0 .. 2 : Writev(Left(sent + 1, Short, 0), n)
    /\ SocketClose
    /\ UNCHANGED <<broken, avail, read, got>>

\* A new connection.  Nothing is reset but what the new socket brings.
Connect ==
    /\ ~up /\ pub = "idle" /\ owner = "none" /\ conns < MaxConns
    /\ conns' = conns + 1
    /\ up' = TRUE /\ broken' = FALSE /\ wire' = <<>>
    /\ avail' = 0 /\ read' = 0 /\ got' = <<>>
    /\ UNCHANGED <<pend, pwset, queue, pub, rcv, owner, sent, published, pings, faults>>

\* MQTTClient_publish5 waits until no write is pending, and sends.
Publish ==
    /\ pub = "idle" /\ up /\ owner = "none" /\ ~wpending /\ published < MaxPublish
    /\ published' = published + 1
    /\ \/ /\ ~broken
          /\ \E n \in 0 .. Total(Iovecs) :
                /\ PutDatas(Iovecs, n)
                /\ IF n = Total(Iovecs) THEN UNCHANGED <<pub, owner>>
                   ELSE pub' = "register" /\ owner' = "pub"
       \/ /\ broken
          /\ pub' = "close" /\ owner' = "pub"
          /\ UNCHANGED <<wire, writes, sent>>
    /\ UNCHANGED <<up, broken, wpending, wset, pwset, input, rcv, pings, conns, faults>>

MutRegister ==
    /\ pub = "register"
    /\ wpending' = TRUE /\ UNCHANGED wset
    /\ pub' = "wait" /\ owner' = "none"
    /\ UNCHANGED <<net, writes, pwset, input, rcv, sent, bounds>>

\* The rest of Socket_putdatas: the socket joins the lists the receive thread
\* goes through.  Then the publisher lets go of the mutex and waits.
Register ==
    /\ pub = "register"
    /\ wpending' = TRUE /\ wset' = TRUE
    /\ pub' = "wait" /\ owner' = "none"
    /\ UNCHANGED <<net, writes, pwset, input, rcv, sent, bounds>>

InSocketMutex == rcv \in {"continue", "remove", "fail"}

PublishWaits ==
    /\ pub = "wait" /\ owner = "none" /\ ~InSocketMutex
    /\ writes = <<>> \/ ~up
    /\ pub' = "idle"
    /\ UNCHANGED <<net, pend, pwset, input, rcv, owner, sent, bounds>>

PublishFails ==
    /\ pub = "close" /\ ~InSocketMutex
    /\ MQTTClient_closeSession
    /\ pub' = "idle" /\ owner' = "none"
    /\ UNCHANGED <<pwset, rcv, bounds>>

(***************************************************************************)
(* The receive thread: MQTTClient_cycle.                                   *)
(***************************************************************************)

\* The sets are copied under socket_mutex, which select does without.
Select ==
    /\ rcv = "idle"
    /\ rcv' = "select" /\ pwset' = wset
    /\ UNCHANGED <<net, pend, input, pub, owner, sent, bounds>>

\* select found the socket writable and a write is pending.
SelectWritable ==
    /\ rcv = "select" /\ pwset /\ wpending
    /\ rcv' = "continue"
    /\ UNCHANGED <<net, pend, pwset, input, pub, owner, sent, bounds>>

\* Otherwise the socket is read if it has input, takes output and has no
\* pending write.
Readable == up /\ (avail > read \/ broken) /\ ~wpending

SelectDone ==
    /\ rcv = "select"
    /\ \/ Readable /\ rcv' = "ready" /\ UNCHANGED faults
       \/ Readable /\ Fault /\ rcv' = "retry"       \* not writable just now
       \/ ~Readable /\ rcv' = "retry" /\ UNCHANGED faults
    /\ UNCHANGED <<net, pend, pwset, input, pub, owner, sent, published, pings, conns>>

\* Socket_continueWrite, and on its end the first part of Socket_continueWrites.
\* After an error a pending write is given up as well.
Socket_continueWrite ==
    LET pw == writes[1]
        rest == Left(pw.pkt, pw.lens, pw.bytes) IN
    /\ rcv = "continue"
    /\ \/ /\ ~broken
          /\ \E n \in 1 .. Len(rest) :
                /\ Writev(rest, n)
                /\ IF pw.bytes + n = Total(pw.lens)
                   THEN writes' = Tail(writes) /\ wset' = FALSE /\ rcv' = "remove"
                   ELSE /\ writes' = [writes EXCEPT ![1].bytes = @ + n]
                        /\ rcv' = "retry" /\ UNCHANGED wset
       \/ /\ broken
          /\ writes' = Tail(writes) /\ wset' = FALSE /\ rcv' = "fail"
          /\ UNCHANGED wire
    /\ UNCHANGED <<up, broken, wpending, pwset, input, pub, owner, sent, bounds>>

\* The end of Socket_continueWrites.  The code of the error is overwritten in
\* MQTTClient_cycle, so the socket is read as if it were ready.
RemovePending ==
    /\ rcv \in {"remove", "fail"}
    /\ wpending' = FALSE
    /\ rcv' = IF rcv = "fail" THEN "ready"
              ELSE IF up /\ (avail > read \/ broken) THEN "ready" ELSE "retry"
    /\ UNCHANGED <<net, writes, wset, pwset, input, pub, owner, sent, bounds>>

\* The client is looked up by its socket: it may have gone since.
CycleBegins ==
    /\ rcv = "ready" /\ owner = "none"
    /\ owner' = "rcv"
    /\ rcv' = IF up THEN "head" ELSE "retry"
    /\ UNCHANGED <<net, pend, pwset, input, pub, sent, bounds>>

(***************************************************************************)
(* Reading: MQTTPacket_Factory.                                            *)
(***************************************************************************)

InLen(p) == Input[p][1] + Input[p][2]
Stream == FlattenSeq([p \in DOMAIN Input |-> [k \in 1 .. InLen(p) |-> <<p, k>>]])

\* Whether a length byte says that another one follows, and the length.
Continues(byte) == byte[2] < Input[byte[1]][1]
Rest(header) == Input[header[1][1]][2]

\* A read ended early: the queue is kept, to be read again from the start.
Interrupted(data) ==
    queue' = [queue EXCEPT !.listed = TRUE, !.index = 0, !.data = data]

\* The byte is the header byte or a byte of the length: go on accordingly.
After(byte) == rcv' = IF rcv = "len" /\ ~Continues(byte) THEN "body" ELSE "len"

MutWouldBlock == avail = read

\* recv has nothing to give now; at the end of a broken connection it says so.
WouldBlock == avail = read /\ ~broken

\* Socket_getch: first from the queue, then from the socket.  No more than four
\* bytes of length are read.
Socket_getch ==
    /\ rcv \in {"head", "len"}
    /\ \/ /\ queue.index > 4
          /\ rcv' = "error" /\ UNCHANGED <<read, queue>>
       \/ /\ queue.index <= 4 /\ queue.listed /\ queue.index < Len(queue.header)
          /\ queue' = [queue EXCEPT !.index = @ + 1]
          /\ After(queue.header[queue.index + 1]) /\ UNCHANGED read
       \/ /\ queue.index <= 4 /\ ~(queue.listed /\ queue.index < Len(queue.header))
          /\ \/ /\ avail > read
                /\ read' = read + 1
                /\ queue' = [queue EXCEPT !.index = @ + 1,
                       !.header = Append(SubSeq(@, 1, queue.index), Stream[read + 1])]
                /\ After(Stream[read + 1])
             \/ /\ WouldBlock
                /\ Interrupted(<<>>)
                /\ rcv' = "retry" /\ UNCHANGED read
             \/ /\ avail = read /\ ~WouldBlock
                /\ rcv' = "error" /\ UNCHANGED <<read, queue>>
    /\ UNCHANGED <<net, pend, pwset, avail, got, pub, owner, sent, bounds>>

\* Socket_getdata: what is queued already and what the socket gives.
Socket_getdata ==
    LET have == IF queue.listed THEN queue.data ELSE <<>>
        n == Least(Rest(queue.header) - Len(have), avail - read)
        data == have \o SubSeq(Stream, read + 1, read + n) IN
    /\ rcv = "body"
    /\ \/ /\ Len(data) = Rest(queue.header)
          /\ got' = Append(got, queue.header \o data)
          /\ queue' = NoQueue
          /\ rcv' = IF Input[queue.header[1][1]][3] THEN "answer" ELSE "retry"
       \/ /\ Len(data) < Rest(queue.header) /\ (n > 0 \/ ~broken)
          /\ Interrupted(data)
          /\ rcv' = "retry" /\ UNCHANGED got
       \/ /\ Len(data) < Rest(queue.header) /\ n = 0 /\ broken
          /\ rcv' = "error" /\ UNCHANGED <<queue, got>>
    /\ read' = read + n
    /\ UNCHANGED <<net, pend, pwset, avail, pub, owner, sent, bounds>>

\* MQTTProtocol_handlePublishes, -Pubrecs, -Pubrels: an answer is sent, unless a
\* publication is half written by now, which counts as an error of the socket.
Answer ==
    /\ rcv = "answer"
    /\ \/ /\ ~wpending /\ ~broken
          /\ \E n \in 0 .. 2 :
                /\ PutDatas(Short, n)
                /\ IF n < 2 THEN wpending' = TRUE /\ wset' = TRUE
                   ELSE UNCHANGED <<wpending, wset>>
          /\ rcv' = "retry"
       \/ /\ wpending \/ broken
          /\ rcv' = "error" /\ UNCHANGED <<wire, pend, sent>>
    /\ UNCHANGED <<up, broken, pwset, input, pub, owner, bounds>>

\* MQTTProtocol_keepalive, if it has something to do.  A PINGREQ that is due is put
\* off while a write is pending.  The session ends if it is put off too long, is
\* not answered, fails or can be written in part only.
MQTTProtocol_keepalive ==
    \/ UNCHANGED <<net, pend, input, sent, pings>>
    \/ /\ up /\ ~wpending /\ ~broken /\ pings < MaxPings
       /\ pings' = pings + 1 /\ sent' = sent + 1
       /\ \E n \in 0 .. 2 :
             /\ Writev(Left(sent + 1, Short, 0), n)
             /\ IF n = 2 THEN UNCHANGED <<up, pend, queue>>
                ELSE up' = FALSE /\ SocketClose
       /\ UNCHANGED <<broken, avail, read, got>>
    \/ /\ up /\ pings < MaxPings
       /\ pings' = pings + 1
       /\ MQTTClient_closeSession

\* The end of MQTTClient_cycle.
MQTTClient_retry ==
    /\ rcv = "retry" /\ owner # "pub"
    /\ MQTTProtocol_keepalive
    /\ rcv' = "idle" /\ owner' = "none"
    /\ UNCHANGED <<pwset, pub, published, conns, faults>>

\* The same after an error.  MQTTClient_run then takes the mutex anew and ends the
\* session that has the socket number by now.
ErrorReturned ==
    /\ rcv = "error" /\ owner = "rcv"
    /\ MQTTProtocol_keepalive
    /\ owner' = "none"
    /\ UNCHANGED <<pwset, pub, rcv, published, conns, faults>>

RunCloses ==
    /\ rcv = "error" /\ owner = "none"
    /\ IF up THEN MQTTClient_closeSession ELSE UNCHANGED <<net, pend, input, sent>>
    /\ rcv' = "idle"
    /\ UNCHANGED <<pwset, pub, owner, bounds>>

(***************************************************************************)
(* The network.                                                            *)
(***************************************************************************)

Arrive ==
    /\ up /\ ~broken /\ avail < Len(Stream)
    /\ avail' = avail + 1
    /\ UNCHANGED <<net, pend, pwset, read, queue, got, pub, rcv, owner, sent, bounds>>

Break ==
    /\ up /\ ~broken /\ Fault
    /\ broken' = TRUE
    /\ UNCHANGED <<up, wire, pend, pwset, input, pub, rcv, owner, sent, published, pings, conns>>

Publisher == Publish \/ Register \/ PublishWaits \/ PublishFails

Receiver ==
    \/ Select \/ SelectWritable \/ SelectDone \/ Socket_continueWrite \/ RemovePending
    \/ CycleBegins \/ Socket_getch \/ Socket_getdata \/ Answer
    \/ MQTTClient_retry \/ ErrorReturned \/ RunCloses

Next == Connect \/ Publisher \/ Receiver \/ Arrive \/ Break

Spec == Init /\ [][Next]_vars

\* Both threads run.  A peer that reads makes the socket writable again and again.
FairSpec ==
    /\ Spec
    /\ WF_vars(Register \/ PublishWaits \/ PublishFails) /\ WF_vars(Receiver)
    /\ SF_vars(SelectWritable)

(***************************************************************************)
(* Properties.                                                             *)
(***************************************************************************)

\* However the writes are cut, and whoever finishes them, the broker sees whole
\* packets one after the other: no byte twice, none left out, no packet inside
\* another and nothing of the previous connection.  Only the last one may be
\* incomplete, and then it is the pending write or the session is over.
PacketsWhole ==
    /\ wire # <<>> => wire[1][2] = 1
    /\ \A i \in 1 .. Len(wire) - 1 :
          LET this == wire[i]  next == wire[i + 1] IN
          \/ next[1] = this[1] /\ next[2] = this[2] + 1
          \/ next[1] > this[1] /\ next[2] = 1 /\ this[2] = this[3]
    /\ \A i \in DOMAIN writes : up =>
          \/ writes[i].bytes = 0 /\ (wire = <<>> \/ Last(wire)[2] = Last(wire)[3])
          \/ wire # <<>> /\ SubSeq(Last(wire), 1, 2) = <<writes[i].pkt, writes[i].bytes>>

\* However the input arrives, MQTTPacket_Factory returns the packets the broker
\* sent on this connection, whole and in order: what the queue keeps when a read
\* ends early is found again, and is gone with its socket.
PacketsRead ==
    \A i \in DOMAIN got : got[i] = [k \in 1 .. InLen(i) |-> <<i, k>>]

\* A pending write is finished or given up; nothing else can be sent before.
PendingEnds == writes # <<>> ~> writes = <<>>

\* A broken connection is closed, also when the error was met in finishing a
\* pending write, whose code nobody looks at.
BrokenIsClosed == (broken /\ up) ~> ~up
=============================================================================
