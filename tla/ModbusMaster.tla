---------------------------- MODULE ModbusMaster ----------------------------
(***************************************************************************)
(* The Modbus master of a channel: the register and bit functions of       *)
(* platform/device/chan/chan.c with their retry and restart loops, over    *)
(* one transaction of libmodbus (modbus.c, modbus-rtu.c, modbus-tcp.c).    *)
(* The slave, the line and the network are external.                       *)
(*                                                                         *)
(* A call is a number, an attempt is a number; request and answer carry    *)
(* both. Of their contents the model keeps what check_confirmation looks   *)
(* at: function, quantity and, over TCP, the transaction identifier. An    *)
(* answer comes in two parts, so that a time-out or a flush can fall       *)
(* between them. Checksums are modelled by what they are for: no bytes     *)
(* other than the two parts of one undamaged answer pass; likewise the     *)
(* rest of an answer never happens to look like a header with the          *)
(* expected transaction identifier.                                        *)
(*                                                                         *)
(* Not modelled: errcnt, rstcnt and started, which are only displayed.     *)
(***************************************************************************)
EXTENDS Integers, Sequences, FiniteSets

CONSTANTS Backends,      \* subset of {"rtu", "rtu_tcp", "tcp"}
          RETRY,         \* chan_t.retry_times
          RESTART,       \* chan_t.restart_times
          MAX_NB,        \* MODBUS_MAX_READ_REGISTERS and the like
          Quantities,    \* how many values the calls ask for
          TID_MOD,       \* 2^16, the range of t_id
          Resets,        \* may another thread call chan_reset?
          MaxCalls,      \* bound: calls of the channel functions
          MaxFaults      \* bound: losses, delays, refusals and failed connects

ASSUME BackendAssumption == Backends \subseteq {"rtu", "rtu_tcp", "tcp"}
ASSUME TimesAssumption == RETRY \in Nat /\ RESTART \in Nat
ASSUME RangeAssumption ==
  Quantities \subseteq Nat \ {0} /\ MAX_NB \in Nat \ {0} /\ TID_MOD \in Nat \ {0}
ASSUME FlagAssumption == Resets \in BOOLEAN
ASSUME CallBoundAssumption == MaxCalls \in Nat /\ MaxFaults \in Nat

NULL == 0              \* contexts are numbered from 1

VARIABLES
  backend,   \* chan_t.mode
  ctx,       \* chan_t.ctx
  live,      \* the contexts allocated and not freed
  made,      \* number of contexts allocated so far
  t_id,      \* the static variable of _modbus_tcp_build_request_basis
  pc,        \* where the calling thread is
  reset,     \* where the thread of the shared memory is in chan_reset
  call,      \* the call: number, function, quantity, does it retry?
  retries, restarts,   \* retry_times and restart_times of the loops
  held,      \* the context that the transaction was started with
  req,       \* the request of the attempt
  rsp,       \* the parts read so far
  rc,        \* did the attempt succeed?
  ret,       \* what the call returned
  inq,       \* input queue of the port or socket
  todo,      \* requests on their way to the slave
  out,       \* parts of answers on their way back
  broken,    \* is ctx not connected, or its connection closed?
  faults,    \* faults so far
  sent,      \* number of attempts so far
  failed,    \* which steps of opening a channel have failed
  raced,     \* did both threads use the channel at a time?
  overdue,   \* did an answer outlive its transaction?
  clean      \* was all at rest, with no fault to come, at the start of the call?

chan == <<backend, ctx, live, made, t_id>>
loop == <<call, retries, restarts>>
attempt == <<held, req, rsp, rc>>
line == <<inq, todo, out, broken>>
hist == <<faults, sent, failed, raced, overdue, clean>>
vars == <<chan, pc, reset, loop, attempt, ret, line, hist>>

NoReq == [call |-> 0, no |-> 0, fn |-> "none", nb |-> 0, tid |-> 0]
Reads == {"read_bits", "read_input_bits", "read_holding", "read_input"}
Writes == {"write_bit", "write_register", "write_bits", "write_registers"}
BitReads == {"read_bits", "read_input_bits"}
SingleWrites == {"write_bit", "write_register"}

Init ==
  /\ backend \in Backends
  /\ ctx = 1 /\ live = {1} /\ made = 1
  /\ t_id = IF backend = "tcp" THEN TID_MOD - 1 ELSE 0   \* about to wrap around
  /\ pc = "idle" /\ reset = "none"
  /\ call = [no |-> 0, fn |-> "none", nb |-> 0, retry |-> FALSE]
  /\ retries = 0 /\ restarts = 0
  /\ held = NULL /\ req = NoReq /\ rsp = <<>> /\ rc = FALSE /\ ret = "none"
  /\ inq = <<>> /\ todo = <<>> /\ out = <<>> /\ broken = FALSE
  /\ faults = 0 /\ sent = 0 /\ failed = {} /\ raced = FALSE /\ overdue = FALSE /\ clean = FALSE

Fault == faults < MaxFaults /\ faults' = faults + 1
AtRest ==
  inq = <<>> /\ todo = <<>> /\ out = <<>> /\ faults = MaxFaults /\ reset = "none"

\* The calling thread begins or goes on to use the channel, which chan_reset may be
\* working on.
Uses == raced' = (raced \/ reset # "none")

-----------------------------------------------------------------------------
(* The functions of chan.c. Each starts a call; ctx == NULL is an error    *)
(* except in the reads with retry, which restart the channel.              *)

Begin(fn, nb, retry) ==
  /\ pc = "idle" /\ call.no < MaxCalls
  /\ call' = [no |-> call.no + 1, fn |-> fn, nb |-> nb, retry |-> retry]
  /\ retries' = IF retry THEN RETRY ELSE 0
  /\ restarts' = IF retry THEN RESTART - 1 ELSE 0
  /\ held' = NULL /\ req' = NoReq /\ rsp' = <<>> /\ rc' = FALSE
  /\ clean' = AtRest
  /\ UNCHANGED <<chan, reset, line, faults, sent, failed, overdue>>

Refused(result) == pc' = "idle" /\ ret' = result /\ UNCHANGED raced

Plain(fn, nb) ==
  /\ Begin(fn, nb, FALSE)
  /\ \/ ctx = NULL /\ Refused("error")
     \/ ctx # NULL /\ pc' = "call" /\ ret' = "none" /\ Uses

MutReadWithRetry(fn, nb) ==
  /\ Begin(fn, nb, TRUE)
  /\ \/ ctx = NULL /\ Refused("error")
     \/ ctx # NULL /\ pc' = "attempt" /\ ret' = "none" /\ UNCHANGED raced
ReadWithRetry(fn, nb) ==
  /\ Begin(fn, nb, TRUE)
  /\ \/ RESTART = 0 /\ Refused("error")
     \/ RESTART > 0 /\ pc' = "attempt" /\ ret' = "none" /\ UNCHANGED raced

chan_write_single_register == Plain("write_register", 1)
chan_write_multi_registers == \E nb \in Quantities : Plain("write_registers", nb)
\* Returns rc instead of ret, and rc is not assigned when the channel is down: the
\* caller sees any number.
chan_read_input_bits ==
  \E nb \in Quantities :
    \/ ctx # NULL /\ Plain("read_input_bits", nb)
    \/ ctx = NULL /\ Begin("read_input_bits", nb, FALSE) /\ Refused("unassigned")
chan_read_input_registers == \E nb \in Quantities : Plain("read_input", nb)
chan_read_bits == \E nb \in Quantities : Plain("read_bits", nb)
chan_write_bit == Plain("write_bit", 1)
chan_write_bits == \E nb \in Quantities : Plain("write_bits", nb)
chan_read_holdingregisters == \E nb \in Quantities : Plain("read_holding", nb)

chan_write_single_register_with_retry ==
  /\ Begin("write_register", 1, TRUE)
  /\ \/ (ctx = NULL \/ RESTART = 0) /\ Refused("error")
     \/ ctx # NULL /\ RESTART > 0 /\ pc' = "attempt" /\ ret' = "none" /\ UNCHANGED raced
chan_read_input_bits_with_retry ==
  \E nb \in Quantities : ReadWithRetry("read_input_bits", nb)
chan_read_input_registers_with_retry ==
  \E nb \in Quantities : ReadWithRetry("read_input", nb)
chan_read_holdingregisters_with_retry ==
  \E nb \in Quantities : ReadWithRetry("read_holding", nb)

Return(result) ==
  /\ pc' = "idle" /\ ret' = result
  /\ UNCHANGED <<chan, reset, loop, attempt, line, hist>>

\* The head of the inner loop: another attempt, a turn without one because the
\* channel is down, or the end of the loop.
MutTryAgain ==
  /\ pc = "attempt" /\ ctx # NULL /\ retries > 0
  /\ pc' = "call" /\ Uses
  /\ UNCHANGED <<chan, reset, loop, attempt, ret, line, faults, sent, failed, overdue, clean>>
TryAgain ==
  /\ pc = "attempt" /\ retries > 0 /\ ctx # NULL
  /\ retries' = retries - 1 /\ pc' = "call" /\ Uses
  /\ UNCHANGED <<chan, reset, call, restarts, attempt, ret, line, faults, sent, failed,
                 overdue, clean>>
SkipTries ==
  /\ pc = "attempt" /\ retries > 0 /\ ctx = NULL
  /\ retries' = 0
  /\ UNCHANGED <<chan, pc, reset, call, restarts, attempt, ret, line, hist>>
TriesUsed ==
  /\ pc = "attempt" /\ retries = 0
  /\ \/ /\ call.retry /\ pc' = "start" /\ Uses
        /\ UNCHANGED <<chan, reset, loop, attempt, ret, line, faults, sent, failed,
                       overdue, clean>>
     \/ ~call.retry /\ Return("error")

\* The end of an attempt.
Evaluate ==
  /\ pc = "evaluate"
  /\ \/ rc /\ Return("ok")
     \/ ~rc /\ pc' = "attempt" /\ UNCHANGED <<chan, reset, loop, attempt, ret, line, hist>>

-----------------------------------------------------------------------------
(* chan_start, called at the end of a round, and chan_reset, called by the *)
(* thread that serves the shared memory. They take no lock, so every       *)
(* access to ctx is a step of its own and reads it anew. Both go the same  *)
(* way, except that chan_reset leaves ctx pointing to the freed context    *)
(* until the new one is allocated, and chan_start in the mode              *)
(* modbus_rtu_tcp neither closes and frees the old context nor forgets a   *)
(* new one that failed to connect.                                         *)

Threads == {"caller", "shm"}
At(t, place) == (IF t = "caller" THEN pc ELSE reset) = place
Goto(t, place) == IF t = "caller" THEN pc' = place /\ UNCHANGED reset
                                  ELSE reset' = place /\ UNCHANGED pc
Opened(t) == IF t = "caller" THEN "round" ELSE "none"

\* What an opening leaves alone.
Opening(t) ==
  /\ t = "caller" \/ pc # "undefined"
  /\ UNCHANGED <<backend, t_id, loop, attempt, ret, sent, raced, overdue, clean>>

\* A connection that is closed, or left, takes with it what is in flight; a serial
\* line keeps that.
Disconnected ==
  /\ inq' = <<>> /\ broken' = TRUE
  /\ IF backend = "rtu" THEN UNCHANGED <<todo, out>>
                        ELSE todo' = <<>> /\ out' = <<>>

LookAtContext(t) ==
  /\ At(t, "start")
  /\ Goto(t, IF ctx # NULL /\ backend # "rtu_tcp" THEN "close" ELSE "new")
  /\ Opening(t) /\ UNCHANGED <<ctx, live, made, line, faults, failed>>

CloseContext(t) ==
  /\ At(t, "close") /\ ctx \in live \cup {NULL}
  /\ Goto(t, "free")
  /\ IF ctx = NULL THEN UNCHANGED line ELSE Disconnected
  /\ Opening(t) /\ UNCHANGED <<ctx, live, made, faults, failed>>

\* The old context, or a new one that failed to connect.
MutFreeContext(t) ==
  /\ \/ At(t, "free") /\ Goto(t, IF t = "caller" THEN "clear" ELSE "new")
     \/ At(t, "drop") /\ Goto(t, Opened(t))
  /\ ctx \in live \cup {NULL} /\ live' = live \ {ctx}
  /\ Opening(t) /\ UNCHANGED <<ctx, made, line, faults, failed>>
FreeContext(t) ==
  /\ \/ At(t, "free") /\ Goto(t, IF t = "caller" THEN "clear" ELSE "new")
     \/ At(t, "drop") /\ Goto(t, IF backend = "rtu_tcp" THEN Opened(t) ELSE "forget")
  /\ ctx \in live \cup {NULL} /\ live' = live \ {ctx}
  /\ Opening(t) /\ UNCHANGED <<ctx, made, line, faults, failed>>

ClearContext(t) ==
  /\ \/ At(t, "clear") /\ Goto(t, "new")
     \/ At(t, "forget") /\ Goto(t, Opened(t))
  /\ ctx' = NULL
  /\ Opening(t) /\ UNCHANGED <<live, made, line, faults, failed>>

NewContext(t) ==
  /\ At(t, "new") /\ Goto(t, "test")
  /\ \/ /\ made' = made + 1 /\ ctx' = made + 1 /\ live' = live \cup {made + 1}
        /\ Disconnected /\ UNCHANGED <<faults, failed>>
     \/ /\ Fault /\ failed' = failed \cup {"new"} /\ ctx' = NULL
        /\ UNCHANGED <<live, made, line>>
  /\ Opening(t)

\* Without a context, chan_start sets the debug flag of NULL in the mode modbus_rtu.
TestContext(t) ==
  /\ At(t, "test") /\ ~(ctx = NULL /\ backend = "rtu")
  /\ Goto(t, IF ctx = NULL THEN Opened(t) ELSE "connect")
  /\ Opening(t) /\ UNCHANGED <<ctx, live, made, line, faults, failed>>

ConnectContext(t) ==
  /\ At(t, "connect") /\ ctx \in live
  /\ \/ /\ Goto(t, Opened(t)) /\ inq' = <<>> /\ broken' = FALSE
        /\ UNCHANGED <<todo, out, faults, failed>>
     \/ Goto(t, "drop") /\ Fault /\ failed' = failed \cup {"connect"} /\ UNCHANGED line
  /\ Opening(t) /\ UNCHANGED <<ctx, live, made>>

Open(t) ==
  \/ LookAtContext(t) \/ CloseContext(t) \/ FreeContext(t) \/ ClearContext(t)
  \/ NewContext(t) \/ TestContext(t) \/ ConnectContext(t)

\* The end of a round of the outer loop, and the head of the next.
NextRound ==
  /\ pc = "round"
  /\ retries' = RETRY
  /\ \/ restarts > 0 /\ restarts' = restarts - 1 /\ pc' = "attempt" /\ UNCHANGED ret
     \/ restarts = 0 /\ pc' = "idle" /\ ret' = "error" /\ UNCHANGED restarts
  /\ UNCHANGED <<chan, reset, call, attempt, line, hist>>

\* chan_reset begins. The caller looks at ctx anew before each attempt, so that
\* between two of them nothing is disturbed.
chan_reset ==
  /\ Resets /\ backend = "tcp" /\ reset = "none" /\ pc # "undefined"
  /\ Fault
  /\ reset' = "start"
  /\ raced' = (raced \/ pc \notin {"idle", "attempt", "evaluate"})
  /\ UNCHANGED <<chan, pc, loop, attempt, ret, line, sent, failed, overdue, clean>>

-----------------------------------------------------------------------------
(* A transaction of libmodbus: build and send the request, receive, check, *)
(* flush. The functions use the context they were called with, the flush   *)
(* the one that chan_t points to by then.                                  *)

\* Using a context that was freed, or NULL, is undefined; here it is the end. Only
\* modbus_close and modbus_free look whether it is NULL.
Undefined ==
  /\ pc' = "undefined"
  /\ UNCHANGED <<chan, reset, loop, attempt, ret, line, hist>>

UseAfterFree ==
  /\ \/ pc \in {"call", "flush"} /\ ctx \notin live
     \/ pc \in {"build", "receive"} /\ held \notin live
     \/ pc # "undefined" /\ \E t \in Threads :
          \/ At(t, "connect") /\ ctx \notin live
          \/ At(t, "test") /\ ctx = NULL /\ backend = "rtu"
          \/ ctx \notin live \cup {NULL} /\ \E p \in {"close", "free", "drop"} : At(t, p)
  /\ Undefined

\* modbus_set_slave, and the call of the libmodbus function with the same context.
SetSlave ==
  /\ pc = "call" /\ ctx \in live
  /\ pc' = "build" /\ held' = ctx
  /\ UNCHANGED <<chan, reset, loop, req, rsp, rc, ret, line, hist>>

\* The bytes that carry nb values, and the length of the answer.
NbBytes(nb) == (nb \div 8) + (IF nb % 8 # 0 THEN 1 ELSE 0)
ResponseLength(fn, nb) ==
  CASE fn \in BitReads -> 2 + NbBytes(nb)
    [] fn \in Reads \ BitReads -> 2 + 2 * nb
    [] OTHER -> 5
Values(fn, nb) ==
  CASE fn \in BitReads -> NbBytes(nb)
    [] fn \in SingleWrites -> 1
    [] OTHER -> nb

NextTid(t) == IF t < TID_MOD - 1 THEN t + 1 ELSE 0

\* The range check of the libmodbus functions, before anything is sent.
TooMany ==
  /\ pc = "build" /\ held \in live /\ call.nb > MAX_NB
  /\ rc' = FALSE /\ pc' = "flush"
  /\ UNCHANGED <<chan, reset, loop, held, req, rsp, ret, line, hist>>

\* build_request_basis and send_msg; error recovery is off.
Send(arrives) ==
  /\ pc = "build" /\ held \in live /\ call.nb <= MAX_NB
  /\ sent' = sent + 1
  /\ t_id' = IF backend = "tcp" THEN NextTid(t_id) ELSE t_id
  /\ req' = [call |-> call.no, no |-> sent', fn |-> call.fn, nb |-> call.nb, tid |-> t_id']
  /\ rsp' = <<>> /\ rc' = FALSE
  /\ todo' = IF arrives THEN Append(todo, req') ELSE todo
  /\ UNCHANGED <<backend, ctx, live, made, reset, loop, held, ret, inq, out, broken,
                 failed, raced, overdue, clean>>

SendMsg == pc' = "receive" /\ Send(~broken) /\ UNCHANGED faults
SendFails ==
  /\ pc' = "flush" /\ Send(FALSE)
  /\ \/ broken /\ UNCHANGED faults
     \/ ~broken /\ Fault

\* receive_msg reads a header and then what the header announces. Where the
\* input begins with the rest of an older answer, the length it seems to
\* announce is arbitrary.
ReceivePart ==
  /\ pc = "receive" /\ held \in live /\ inq # <<>>
  /\ rsp' = Append(rsp, Head(inq)) /\ inq' = Tail(inq)
  /\ \/ Len(rsp) = 1 /\ pc' = "check"
     \/ Len(rsp) = 0 /\ pc' = "receive"
     \/ Len(rsp) = 0 /\ Head(inq).part = 2 /\ pc' = "check"
  /\ UNCHANGED <<chan, reset, loop, held, req, rc, ret, todo, out, broken, hist>>

\* The response or the byte time-out, or a closed connection: nothing more comes,
\* or it comes late.
ReceiveFails ==
  /\ pc = "receive" /\ held \in live /\ inq = <<>>
  /\ \/ todo = <<>> /\ out = <<>> /\ UNCHANGED faults
     \/ (todo # <<>> \/ out # <<>>) /\ Fault
  /\ pc' = "flush"
  /\ UNCHANGED <<chan, reset, loop, attempt, ret, line, sent, failed, raced, overdue, clean>>

\* check_integrity: the bytes read are the two parts of one answer.
Whole(m) ==
  /\ Len(m) = 2 /\ m[1].part = 1 /\ m[2].part = 2
  /\ m[1].no = m[2].no /\ ~m[1].bad /\ ~m[2].bad

MutPreCheck(q, m) == TRUE
pre_check_confirmation(q, m) == backend = "tcp" => q.tid = m[1].tid

\* check_confirmation: length, function and quantity. Neither the slave nor the
\* register address is looked at.
check_confirmation(q, m) ==
  /\ Whole(m)
  /\ pre_check_confirmation(q, m)
  /\ ~m[1].exception
  /\ ResponseLength(m[1].fn, m[1].nb) = ResponseLength(q.fn, q.nb)
  /\ m[1].fn = q.fn
  /\ Values(m[1].fn, m[1].nb) = Values(q.fn, q.nb)

Check ==
  /\ pc = "check"
  /\ rc' = check_confirmation(req, rsp)
  /\ pc' = "flush"
  /\ UNCHANGED <<chan, reset, loop, held, req, rsp, ret, line, hist>>

modbus_flush ==
  /\ pc = "flush" /\ ctx \in live
  /\ inq' = <<>>
  /\ overdue' = (overdue \/ todo # <<>> \/ out # <<>>)
  /\ pc' = "evaluate"
  /\ UNCHANGED <<chan, reset, loop, attempt, ret, todo, out, broken, faults, sent, failed,
                 raced, clean>>

-----------------------------------------------------------------------------
(* The slave, the line and the network: external.                          *)

Part(q, i, exception) ==
  [part |-> i, no |-> q.no, call |-> q.call, fn |-> q.fn, nb |-> q.nb, tid |-> q.tid,
   exception |-> exception, bad |-> FALSE]

SlaveAnswers ==
  /\ todo # <<>> /\ todo' = Tail(todo)
  /\ \E exception \in BOOLEAN :
       /\ IF exception THEN Fault ELSE UNCHANGED faults
       /\ out' = out \o <<Part(Head(todo), 1, exception), Part(Head(todo), 2, exception)>>
  /\ UNCHANGED <<chan, pc, reset, loop, attempt, ret, inq, broken, sent, failed, raced, overdue,
                 clean>>

Arrive ==
  /\ out # <<>> /\ out' = Tail(out)
  /\ inq' = Append(inq, Head(out))
  /\ UNCHANGED <<chan, pc, reset, loop, attempt, ret, todo, broken, hist>>

\* Only a serial line loses or damages bytes.
LineFault ==
  /\ Fault /\ backend = "rtu"
  /\ \/ todo # <<>> /\ todo' = Tail(todo) /\ UNCHANGED out
     \/ out # <<>> /\ out' = Tail(out) /\ UNCHANGED todo
     \/ /\ out # <<>> /\ ~Head(out).bad /\ UNCHANGED todo
        /\ out' = <<[Head(out) EXCEPT !.bad = TRUE]>> \o Tail(out)
  /\ UNCHANGED <<chan, pc, reset, loop, attempt, ret, inq, broken, sent, failed, raced, overdue,
                 clean>>

PeerCloses ==
  /\ Fault /\ backend # "rtu" /\ ctx \in live /\ ~broken
  /\ broken' = TRUE /\ todo' = <<>> /\ out' = <<>>
  /\ UNCHANGED <<chan, pc, reset, loop, attempt, ret, inq, sent, failed, raced, overdue, clean>>

-----------------------------------------------------------------------------
Caller ==
  \/ chan_write_single_register \/ chan_write_multi_registers
  \/ chan_write_bit \/ chan_write_bits
  \/ chan_read_bits \/ chan_read_input_bits
  \/ chan_read_holdingregisters \/ chan_read_input_registers
  \/ chan_write_single_register_with_retry \/ chan_read_input_bits_with_retry
  \/ chan_read_input_registers_with_retry \/ chan_read_holdingregisters_with_retry

Transaction ==
  \/ TryAgain \/ SkipTries \/ TriesUsed \/ Evaluate \/ Open("caller") \/ NextRound
  \/ SetSlave \/ TooMany \/ SendMsg \/ UseAfterFree
  \/ ReceivePart \/ ReceiveFails \/ Check \/ modbus_flush

World == SlaveAnswers \/ Arrive

Next ==
  \/ Caller \/ Transaction \/ SendFails \/ chan_reset \/ Open("shm")
  \/ World \/ LineFault \/ PeerCloses

Spec == Init /\ [][Next]_vars

\* The calling thread runs, and what was sent is answered and arrives.
FairSpec == Spec /\ WF_vars(Transaction) /\ WF_vars(World)

-----------------------------------------------------------------------------
\* A call that reports success was confirmed by an answer to one of its own
\* requests. Over TCP the transaction identifier ensures it, whatever arrives late
\* (pre_check_confirmation); the RTU framings, where check_confirmation looks at
\* function and quantity only, as long as no answer outlived the flush of its
\* transaction.
OwnAnswer ==
  pc = "idle" /\ ret = "ok" =>
    \/ rsp # <<>> /\ rsp[1].call = call.no
    \/ backend # "tcp" /\ overdue

\* The ownership of contexts between two threads without a lock. Whatever overlaps,
\* ctx is a live context or NULL unless a thread is between freeing a context and its
\* next assignment. A context is used after it was freed only if both threads used
\* the channel at a time or, as the source reads, after a new context could not be
\* connected in the mode modbus_rtu_tcp or not be allocated in the mode modbus_rtu;
\* and none is leaked unless they overlapped or in the mode modbus_rtu_tcp.
ContextOwned ==
  /\ \/ pc \in {"clear", "forget", "undefined"} \/ reset \in {"new", "forget"}
     \/ backend = "rtu_tcp" /\ "connect" \in failed
     \/ ctx \in live \cup {NULL}
  /\ pc = "undefined" => \/ raced
                         \/ backend = "rtu_tcp" /\ "connect" \in failed
                         \/ backend = "rtu" /\ "new" \in failed
  /\ raced \/ backend = "rtu_tcp" \/ live \subseteq {ctx}

\* A read with retry that starts when nothing is in flight and no fault follows
\* succeeds, even if the channel was down or its connection closed: the restart
\* loop brings the channel back (two rounds suffice).
ReadsRecover ==
  (/\ pc = "idle" /\ clean /\ call.retry /\ call.fn \in Reads /\ call.nb <= MAX_NB
   /\ RETRY > 0 /\ RESTART > 1 /\ backend # "rtu_tcp")
  => ret = "ok"

\* Every call ends, whatever is lost, late or refused: the retry and restart loops
\* are bounded.
CallReturns == pc # "idle" ~> pc \in {"idle", "undefined"}
=============================================================================
