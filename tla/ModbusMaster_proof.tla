-------------------------- MODULE ModbusMaster_proof --------------------------
(***************************************************************************)
(* Proofs about the Modbus master: its contexts are freed once and not     *)
(* used afterwards, a confirmed call was confirmed by its own answer, and  *)
(* the restart loop of a read brings a channel back.                       *)
(***************************************************************************)
EXTENDS ModbusMaster, SequenceTheorems, TLAPS

-----------------------------------------------------------------------------
(* Types.                                                                  *)

Fns == Reads \cup Writes \cup {"none"}
Tids == 0..(TID_MOD - 1)
Requests == [call : Nat, no : Nat, fn : Fns, nb : Nat, tid : Tids]
Parts == [part : {1, 2}, no : Nat, call : Nat, fn : Fns, nb : Nat, tid : Tids,
          exception : BOOLEAN, bad : BOOLEAN]
Opens == {"start", "close", "free", "clear", "new", "test", "connect", "drop", "forget"}
Resetting == Opens \ {"clear"}
Pcs == {"idle", "attempt", "call", "build", "receive", "check", "flush", "evaluate",
        "round", "undefined"} \cup Opens

ChanType ==
  /\ backend \in {"rtu", "rtu_tcp", "tcp"}
  /\ made \in Nat /\ ctx \in 0..made /\ live \subseteq 1..made
  /\ t_id \in Tids
LoopType ==
  /\ pc \in Pcs /\ reset \in Resetting \cup {"none"}
  /\ call \in [no : Nat, fn : Fns, nb : Nat, retry : BOOLEAN]
  /\ retries \in Nat /\ restarts \in Int
LineType ==
  /\ req \in Requests /\ rsp \in Seq(Parts)
  /\ inq \in Seq(Parts) /\ todo \in Seq(Requests) /\ out \in Seq(Parts)
HistType ==
  /\ faults \in 0..MaxFaults /\ sent \in Nat
  /\ rc \in BOOLEAN /\ broken \in BOOLEAN
  /\ raced \in BOOLEAN /\ overdue \in BOOLEAN /\ clean \in BOOLEAN
MasterType == ChanType /\ LoopType /\ LineType /\ HistType

\* Every function of chan.c begins a call, and either returns an error at once or
\* makes its first attempt; a read with retry always does, if there are rounds at all.
Begins(fn, nb, retry) ==
  /\ Begin(fn, nb, retry)
  /\ \/ pc' = "idle" /\ ret' \in {"error", "unassigned"} /\ UNCHANGED raced
        /\ (retry /\ fn \in Reads => RESTART = 0)
     \/ pc' = "attempt" /\ retry /\ ret' = "none" /\ UNCHANGED raced
     \/ pc' = "call" /\ ~retry /\ ret' = "none" /\ ctx # NULL /\ Uses

LEMMA CallerBegins ==
  ASSUME Caller
  PROVE  \E fn \in Reads \cup Writes, nb \in Nat, retry \in BOOLEAN : Begins(fn, nb, retry)
<1>0. /\ 1 \in Nat /\ Quantities \subseteq Nat /\ TRUE \in BOOLEAN /\ FALSE \in BOOLEAN
      /\ "write_register" \in Writes /\ "write_registers" \in Writes /\ "write_bit" \in Writes
      /\ "write_bits" \in Writes /\ "read_bits" \in Reads /\ "read_input_bits" \in Reads
      /\ "read_holding" \in Reads /\ "read_input" \in Reads /\ "write_register" \notin Reads
  BY RangeAssumption DEF Reads, Writes
<1>1. ASSUME NEW fn, NEW nb, Plain(fn, nb)
      PROVE  Begins(fn, nb, FALSE)
  BY <1>1 DEF Plain, Begins, Refused
<1>2. ASSUME NEW fn, NEW nb, ReadWithRetry(fn, nb)
      PROVE  Begins(fn, nb, TRUE)
  BY <1>2 DEF ReadWithRetry, Begins, Refused
<1>3. CASE chan_write_single_register
  BY <1>0, <1>1, <1>3 DEF chan_write_single_register
<1>4. CASE chan_write_multi_registers
  BY <1>0, <1>1, <1>4 DEF chan_write_multi_registers
<1>5. CASE chan_write_bit
  BY <1>0, <1>1, <1>5 DEF chan_write_bit
<1>6. CASE chan_write_bits
  BY <1>0, <1>1, <1>6 DEF chan_write_bits
<1>7. CASE chan_read_bits
  BY <1>0, <1>1, <1>7 DEF chan_read_bits
<1>8. CASE chan_read_input_bits
  <2>1. PICK nb \in Quantities : \/ Plain("read_input_bits", nb)
                                 \/ /\ Begin("read_input_bits", nb, FALSE)
                                    /\ pc' = "idle" /\ ret' = "unassigned" /\ UNCHANGED raced
    BY <1>8 DEF chan_read_input_bits, Refused
  <2>2. Begins("read_input_bits", nb, FALSE)
    BY <1>1, <2>1 DEF Begins
  <2> QED BY <1>0, <2>2
<1>9. CASE chan_read_holdingregisters
  BY <1>0, <1>1, <1>9 DEF chan_read_holdingregisters
<1>10. CASE chan_read_input_registers
  BY <1>0, <1>1, <1>10 DEF chan_read_input_registers
<1>11. CASE chan_write_single_register_with_retry
  <2>1. Begins("write_register", 1, TRUE)
    BY <1>0, <1>11 DEF chan_write_single_register_with_retry, Begins, Refused
  <2> QED BY <1>0, <2>1
<1>12. CASE chan_read_input_bits_with_retry
  BY <1>0, <1>2, <1>12 DEF chan_read_input_bits_with_retry
<1>13. CASE chan_read_input_registers_with_retry
  BY <1>0, <1>2, <1>13 DEF chan_read_input_registers_with_retry
<1>14. CASE chan_read_holdingregisters_with_retry
  BY <1>0, <1>2, <1>14 DEF chan_read_holdingregisters_with_retry
<1> QED
  BY <1>3, <1>4, <1>5, <1>6, <1>7, <1>8, <1>9, <1>10, <1>11, <1>12, <1>13, <1>14 DEF Caller

LEMMA NextSplit ==
  ASSUME [Next]_vars
  PROVE  \/ Caller \/ TryAgain \/ SkipTries \/ TriesUsed \/ Evaluate \/ NextRound
         \/ (\E t \in Threads : Open(t)) \/ SetSlave \/ TooMany \/ SendMsg \/ SendFails \/ UseAfterFree
         \/ ReceivePart \/ ReceiveFails \/ Check \/ modbus_flush
         \/ chan_reset \/ SlaveAnswers \/ Arrive \/ LineFault \/ PeerCloses
         \/ UNCHANGED vars
  BY DEF Next, Transaction, World, Threads

\* What a step of chan_start or chan_reset does, place by place.
LEMMA OpenPlaces ==
  ASSUME NEW t \in Threads, Open(t)
  PROVE  \/ /\ At(t, "start") /\ UNCHANGED <<ctx, live, failed>>
            /\ \/ Goto(t, "close")
               \/ Goto(t, "new") /\ (ctx = NULL \/ backend = "rtu_tcp")
         \/ At(t, "close") /\ Goto(t, "free") /\ UNCHANGED <<ctx, live, failed>>
         \/ /\ At(t, "free") /\ Goto(t, IF t = "caller" THEN "clear" ELSE "new")
            /\ live' = live \ {ctx} /\ UNCHANGED <<ctx, failed>>
         \/ /\ At(t, "drop") /\ Goto(t, IF backend = "rtu_tcp" THEN Opened(t) ELSE "forget")
            /\ live' = live \ {ctx} /\ UNCHANGED <<ctx, failed>>
         \/ At(t, "clear") /\ Goto(t, "new") /\ ctx' = NULL /\ UNCHANGED <<live, failed>>
         \/ At(t, "forget") /\ Goto(t, Opened(t)) /\ ctx' = NULL /\ UNCHANGED <<live, failed>>
         \/ /\ At(t, "new") /\ Goto(t, "test") /\ UNCHANGED failed
            /\ ctx' = made + 1 /\ live' = live \cup {made + 1}
         \/ /\ At(t, "new") /\ Goto(t, "test") /\ failed' = failed \cup {"new"}
            /\ ctx' = NULL /\ UNCHANGED live
         \/ /\ At(t, "test") /\ UNCHANGED <<ctx, live, failed>>
            /\ Goto(t, IF ctx = NULL THEN Opened(t) ELSE "connect")
         \/ /\ At(t, "connect") /\ ctx \in live /\ UNCHANGED <<ctx, live>>
            /\ \/ Goto(t, Opened(t)) /\ UNCHANGED failed
               \/ Goto(t, "drop") /\ failed' = failed \cup {"connect"}
<1>1. CASE LookAtContext(t)
  BY <1>1 DEF LookAtContext
<1>2. CASE CloseContext(t)
  BY <1>2 DEF CloseContext
<1>3. CASE FreeContext(t)
  BY <1>3 DEF FreeContext
<1>4. CASE ClearContext(t)
  BY <1>4 DEF ClearContext
<1>5. CASE NewContext(t)
  BY <1>5 DEF NewContext
<1>6. CASE TestContext(t)
  BY <1>6 DEF TestContext
<1>7. CASE ConnectContext(t)
  BY <1>7 DEF ConnectContext
<1> QED BY <1>1, <1>2, <1>3, <1>4, <1>5, <1>6, <1>7 DEF Open

\* A step of chan_start or chan_reset: what it does to the line, to the contexts and to
\* the place of its thread.
OpensLine ==
  \/ UNCHANGED line
  \/ /\ inq' = <<>> /\ broken' = TRUE
     /\ \/ backend = "rtu" /\ todo' = todo /\ out' = out
        \/ backend # "rtu" /\ todo' = <<>> /\ out' = <<>>
  \/ inq' = <<>> /\ broken' = FALSE /\ UNCHANGED <<todo, out>>

OpensContext ==
  \/ UNCHANGED <<ctx, live, made>>
  \/ ctx \in live \cup {NULL} /\ live' = live \ {ctx} /\ UNCHANGED <<ctx, made>>
  \/ ctx' = NULL /\ UNCHANGED <<live, made>>
  \/ made' = made + 1 /\ ctx' = made + 1 /\ live' = live \cup {made + 1}

LEMMA OpenEffect ==
  ASSUME NEW t \in Threads, Open(t)
  PROVE  /\ UNCHANGED <<backend, t_id, loop, attempt, ret, sent, raced, overdue, clean>>
         /\ Fault \/ UNCHANGED faults
         /\ OpensLine /\ OpensContext
         /\ \/ /\ t = "caller" /\ pc \in Opens /\ pc' \in Opens \cup {"round"}
               /\ UNCHANGED reset
            \/ /\ t = "shm" /\ reset \in Opens /\ reset' \in Resetting \cup {"none"}
               /\ pc # "undefined" /\ UNCHANGED pc
<1>1. Opening(t)
  BY DEF Open, LookAtContext, CloseContext, FreeContext, ClearContext, NewContext, TestContext,
         ConnectContext
<1>2. Fault \/ UNCHANGED faults
  BY DEF Open, LookAtContext, CloseContext, FreeContext, ClearContext, NewContext, TestContext,
         ConnectContext
<1>3. OpensLine
  BY DEF Open, LookAtContext, CloseContext, FreeContext, ClearContext, NewContext, TestContext,
         ConnectContext, Disconnected, OpensLine
<1>4. OpensContext
  BY DEF Open, LookAtContext, CloseContext, FreeContext, ClearContext, NewContext, TestContext,
         ConnectContext, OpensContext
<1>5. ASSUME t = "caller"
      PROVE  pc \in Opens /\ pc' \in Opens \cup {"round"} /\ UNCHANGED reset
  BY <1>5, OpenPlaces DEF At, Goto, Opened, Opens
<1>6. ASSUME t = "shm"
      PROVE  reset \in Opens /\ reset' \in Resetting \cup {"none"} /\ UNCHANGED pc
  BY <1>6, OpenPlaces DEF At, Goto, Opened, Opens, Resetting
<1>7. t \in {"caller", "shm"}
  BY DEF Threads
<1> QED BY <1>1, <1>2, <1>3, <1>4, <1>5, <1>6, <1>7 DEF Opening

LEMMA OpenType ==
  ASSUME ChanType, LineType, NEW t \in Threads, Open(t)
  PROVE  /\ ChanType' /\ broken' \in {broken, TRUE, FALSE}
         /\ inq' \in Seq(Parts) /\ todo' \in Seq(Requests) /\ out' \in Seq(Parts)
<1>1. OpensLine /\ OpensContext /\ UNCHANGED <<backend, t_id>>
  BY OpenEffect
<1>2. ctx' \in 0..made' /\ live' \subseteq 1..made' /\ made' \in Nat
  <2>1. /\ made' \in {made, made + 1} /\ made \in Nat
        /\ ctx' \in {ctx, 0, made'} /\ live' \subseteq live \cup {made'}
        /\ made' = made => live' \subseteq live
    BY <1>1 DEF OpensContext, ChanType, NULL
  <2>2. ctx \in 0..made /\ live \subseteq 1..made
    BY DEF ChanType
  <2>3. CASE made' = made
    BY <2>1, <2>2, <2>3
  <2>4. CASE made' = made + 1
    <3>1. made' \in 1..made' /\ 1..made \subseteq 1..made' /\ 0..made \subseteq 0..made'
      BY <2>1, <2>4
    <3>2. made' \in 0..made' /\ 0 \in 0..made'
      BY <2>1, <2>4
    <3> QED BY <2>1, <2>2, <3>1, <3>2
  <2> QED BY <2>1, <2>3, <2>4
<1> QED BY <1>1, <1>2, EmptySeq DEF OpensLine, ChanType, LineType, line

LEMMA NoneType == NoReq \in Requests /\ <<>> \in Seq(Parts) /\ <<>> \in Seq(Requests)
<1>1. 0 \in Tids
  BY RangeAssumption DEF Tids
<1> QED BY <1>1, EmptySeq DEF NoReq, Requests, Fns

\* What sending a request does.
LEMMA SendType ==
  ASSUME MasterType, NEW a \in BOOLEAN, Send(a)
  PROVE  /\ t_id' \in Tids /\ sent' = sent + 1 /\ sent' \in Nat
         /\ req' \in Requests /\ req'.no = sent' /\ req'.call = call.no /\ req'.tid = t_id'
         /\ rsp' = <<>> /\ rsp' \in Seq(Parts) /\ todo' \in Seq(Requests)
         /\ UNCHANGED <<backend, ctx, live, made, reset, loop, held, ret, inq, out, broken,
                        failed, raced, overdue, clean>>
<1>1. t_id' \in Tids /\ sent' = sent + 1 /\ sent' \in Nat
  BY RangeAssumption DEF Send, NextTid, Tids, MasterType, ChanType, HistType
<1>2. /\ req' = [call |-> call.no, no |-> sent', fn |-> call.fn, nb |-> call.nb, tid |-> t_id']
      /\ rsp' = <<>> /\ todo' \in {todo, Append(todo, req')}
      /\ UNCHANGED <<backend, ctx, live, made, reset, loop, held, ret, inq, out, broken,
                     failed, raced, overdue, clean>>
  BY DEF Send
<1>3. req' \in Requests
  BY <1>1, <1>2 DEF Requests, MasterType, LoopType
<1>4. Append(todo, req') \in Seq(Requests) /\ todo \in Seq(Requests)
  BY <1>3, AppendProperties DEF MasterType, LineType
<1> QED BY <1>1, <1>2, <1>3, <1>4, EmptySeq

\* What the slave sends back for the oldest request.
LEMMA AnswerType ==
  ASSUME MasterType, todo # <<>>, NEW e \in BOOLEAN
  PROVE  /\ Head(todo) \in Requests /\ Head(todo) = todo[1] /\ Tail(todo) \in Seq(Requests)
         /\ Len(todo) \in Nat \ {0} /\ Len(Tail(todo)) = Len(todo) - 1
         /\ \A i \in 1..Len(Tail(todo)) : Tail(todo)[i] = todo[i + 1]
         /\ \A i \in {1, 2} : Part(Head(todo), i, e) \in Parts
<1>1. todo \in Seq(Requests)
  BY DEF MasterType, LineType
<1>2. /\ Head(todo) \in Requests /\ Tail(todo) \in Seq(Requests)
      /\ Head(todo) = todo[1] /\ Len(todo) \in Nat \ {0} /\ Len(Tail(todo)) = Len(todo) - 1
      /\ \A i \in 1..Len(Tail(todo)) : Tail(todo)[i] = todo[i + 1]
  BY <1>1, HeadTailProperties, EmptySeq
<1>3. \A i \in {1, 2} : Part(Head(todo), i, e) \in Parts
  BY <1>2 DEF Part, Parts, Requests
<1> QED BY <1>2, <1>3

LEMMA PairAppended ==
  ASSUME NEW S, NEW s \in Seq(S), NEW a \in S, NEW b \in S
  PROVE  /\ s \o <<a, b>> \in Seq(S) /\ Len(s \o <<a, b>>) = Len(s) + 2 /\ Len(s) \in Nat
         /\ \A i \in 1..Len(s) : (s \o <<a, b>>)[i] = s[i]
         /\ (s \o <<a, b>>)[Len(s) + 1] = a /\ (s \o <<a, b>>)[Len(s) + 2] = b
<1>1. <<a, b>> \in Seq(S) /\ Len(<<a, b>>) = 2 /\ <<a, b>>[1] = a /\ <<a, b>>[2] = b
  OBVIOUS
<1>2. s \o <<a, b>> \in Seq(S) /\ Len(s \o <<a, b>>) = Len(s) + 2 /\ Len(s) \in Nat
  BY <1>1, ConcatProperties, LenProperties
<1>3. \A i \in 1..(Len(s) + 2) : (s \o <<a, b>>)[i] = IF i <= Len(s) THEN s[i] ELSE <<a, b>>[i - Len(s)]
  BY <1>1, ConcatProperties
<1> QED BY <1>1, <1>2, <1>3

\* Taking the first part off a queue.
LEMMA PartTaken ==
  ASSUME NEW q \in Seq(Parts), q # <<>>
  PROVE  /\ Head(q) \in Parts /\ Head(q) = q[1] /\ Tail(q) \in Seq(Parts)
         /\ Len(q) \in Nat \ {0} /\ Len(Tail(q)) = Len(q) - 1
         /\ \A i \in 1..Len(Tail(q)) : Tail(q)[i] = q[i + 1]
  BY HeadTailProperties, EmptySeq

\* A damaged part is a part.
Damaged(p) == [p EXCEPT !.bad = TRUE]
LEMMA DamagedType ==
  ASSUME NEW p \in Parts
  PROVE  /\ Damaged(p) \in Parts
         /\ Damaged(p).no = p.no /\ Damaged(p).call = p.call /\ Damaged(p).tid = p.tid
  BY DEF Damaged, Parts
LEMMA DamagedHead ==
  ASSUME NEW q \in Seq(Parts), q # <<>>
  PROVE  /\ <<Damaged(Head(q))>> \o Tail(q) \in Seq(Parts)
         /\ Len(<<Damaged(Head(q))>> \o Tail(q)) = Len(q)
         /\ (<<Damaged(Head(q))>> \o Tail(q))[1] = Damaged(q[1])
         /\ \A i \in 2..Len(q) : (<<Damaged(Head(q))>> \o Tail(q))[i] = q[i]
<1> DEFINE d == Damaged(Head(q))
<1>1. d \in Parts /\ d = Damaged(q[1])
  BY PartTaken, DamagedType
<1> HIDE DEF d
<1>2. <<d>> \in Seq(Parts) /\ Len(<<d>>) = 1 /\ <<d>>[1] = d
  BY <1>1
<1>3. Tail(q) \in Seq(Parts) /\ Len(Tail(q)) = Len(q) - 1 /\ Len(q) \in Nat \ {0}
  BY PartTaken
<1>4. <<d>> \o Tail(q) \in Seq(Parts) /\ Len(<<d>> \o Tail(q)) = Len(q)
  BY <1>2, <1>3, ConcatProperties
<1>5. \A i \in 1..Len(q) : (<<d>> \o Tail(q))[i] = IF i <= 1 THEN <<d>>[i] ELSE Tail(q)[i - 1]
  BY <1>2, <1>3, ConcatProperties
<1>6. \A i \in 2..Len(q) : Tail(q)[i - 1] = q[i]
  BY <1>3, PartTaken
<1> QED BY <1>1, <1>2, <1>3, <1>4, <1>5, <1>6 DEF d

LEMMA TypeInit ==
  ASSUME Init
  PROVE  MasterType
<1>1. ChanType
  BY BackendAssumption, RangeAssumption DEF Init, ChanType, Tids
<1>2. LoopType
  BY DEF Init, LoopType, Pcs, Opens, Fns
<1>3. LineType
  BY NoneType DEF Init, LineType
<1>4. HistType
  <2>1. 0 \in 0..MaxFaults /\ 0 \in Nat
    BY CallBoundAssumption
  <2> QED BY <2>1 DEF Init, HistType
<1> QED BY <1>1, <1>2, <1>3, <1>4 DEF MasterType

\* A fault is counted, up to the bound.
LEMMA FaultType ==
  ASSUME HistType, Fault \/ UNCHANGED faults
  PROVE  faults' \in 0..MaxFaults /\ faults' \in {faults, faults + 1}
  BY CallBoundAssumption DEF Fault, HistType

\* Parts of the type that an action leaves alone.
LEMMA LineKept ==
  ASSUME LineType, UNCHANGED <<req, rsp, inq, todo, out>>
  PROVE  LineType'
  BY DEF LineType
LEMMA HistKept ==
  ASSUME HistType, UNCHANGED <<sent, rc, broken, raced, overdue, clean>>, Fault \/ UNCHANGED faults
  PROVE  HistType'
  BY FaultType DEF HistType
LEMMA LoopKept ==
  ASSUME LoopType, UNCHANGED <<reset, loop>>, pc' \in Pcs
  PROVE  LoopType'
  BY DEF LoopType, loop
LEMMA ChanKept ==
  ASSUME ChanType, UNCHANGED chan
  PROVE  ChanType'
  BY DEF ChanType, chan

LEMMA TypeStep ==
  ASSUME MasterType, [Next]_vars
  PROVE  MasterType'
<1> USE DEF MasterType
<1> SUFFICES ChanType' /\ LoopType' /\ LineType' /\ HistType'
  OBVIOUS
<1>1. CASE Caller
  <2>1. PICK fn \in Reads \cup Writes, nb \in Nat, retry \in BOOLEAN : Begins(fn, nb, retry)
    BY <1>1, CallerBegins
  <2>2. /\ call' = [no |-> call.no + 1, fn |-> fn, nb |-> nb, retry |-> retry]
        /\ retries' \in {RETRY, 0} /\ restarts' \in {RESTART - 1, 0}
        /\ pc' \in {"idle", "attempt", "call"}
        /\ req' = NoReq /\ rsp' = <<>> /\ rc' = FALSE /\ clean' = AtRest
        /\ raced' \in {raced, raced \/ reset # "none"}
        /\ UNCHANGED <<chan, reset, line, faults, sent, overdue>>
    BY <2>1 DEF Begins, Begin, Uses
  <2>3. LoopType'
    BY <2>2, TimesAssumption DEF LoopType, Fns, Pcs
  <2>4. LineType'
    BY <2>2, NoneType DEF LineType, line
  <2>5. clean' \in BOOLEAN /\ raced' \in BOOLEAN
    BY <2>2 DEF AtRest, HistType
  <2> QED BY <2>2, <2>3, <2>4, <2>5, ChanKept DEF HistType, line
<1>2. CASE TryAgain \/ SkipTries \/ TriesUsed \/ Evaluate \/ SetSlave \/ TooMany \/ UseAfterFree
  <2>1. /\ UNCHANGED <<chan, reset, line, req, rsp, call, restarts, faults, sent, overdue, clean>>
        /\ pc' \in Pcs
    BY <1>2 DEF TryAgain, SkipTries, TriesUsed, Evaluate, Return, SetSlave, TooMany, UseAfterFree,
                Undefined, attempt, loop, hist, Pcs, Opens, LoopType
  <2>2. /\ rc' \in {rc, FALSE}
        /\ retries' = retries \/ retries' = 0 \/ (retries > 0 /\ retries' = retries - 1)
    BY <1>2 DEF TryAgain, SkipTries, TriesUsed, Evaluate, Return, SetSlave, TooMany, UseAfterFree,
                Undefined, attempt, loop
  <2>3. raced' \in {raced, raced \/ reset # "none"}
    BY <1>2 DEF TryAgain, SkipTries, TriesUsed, Evaluate, Return, SetSlave, TooMany, UseAfterFree,
                Undefined, hist, Uses
  <2>4. LoopType'
    BY <2>1, <2>2 DEF LoopType
  <2>5. raced' \in BOOLEAN
    BY <2>3 DEF HistType
  <2>6. HistType'
    BY <2>1, <2>2, <2>5 DEF HistType, line
  <2> QED BY <2>1, <2>4, <2>6, ChanKept, LineKept DEF line
<1>3. CASE NextRound
  <2>1. /\ retries' = RETRY /\ (restarts' = restarts \/ restarts' = restarts - 1)
        /\ pc' \in {"attempt", "idle"}
        /\ UNCHANGED <<chan, reset, call, attempt, line, hist>>
    BY <1>3 DEF NextRound
  <2>2. LoopType'
    BY <2>1, TimesAssumption DEF LoopType, Pcs
  <2> QED BY <2>1, <2>2, ChanKept, LineKept, HistKept DEF attempt, line, hist
<1>4. CASE chan_reset
  <2>1. /\ Fault /\ reset' = "start" /\ UNCHANGED <<chan, pc, loop, attempt, line, sent, overdue, clean>>
        /\ raced' = (raced \/ pc \notin {"idle", "attempt", "evaluate"})
    BY <1>4 DEF chan_reset
  <2>2. LoopType' /\ LineType'
    BY <2>1, LineKept DEF LoopType, loop, attempt, line, Opens, Resetting
  <2>3. raced' \in BOOLEAN
    BY <2>1
  <2> QED BY <2>1, <2>2, <2>3, ChanKept, FaultType DEF HistType, attempt, line
<1>15. ASSUME NEW t \in Threads, Open(t)
       PROVE  ChanType' /\ LoopType' /\ LineType' /\ HistType'
  <2>1. /\ UNCHANGED <<loop, attempt, sent, raced, overdue, clean>>
        /\ Fault \/ UNCHANGED faults
        /\ pc' \in Pcs /\ reset' \in Resetting \cup {"none"}
    BY <1>15, OpenEffect DEF LoopType, Pcs
  <2>2. ChanType' /\ LineType' /\ broken' \in BOOLEAN
    BY <1>15, <2>1, OpenType DEF LineType, HistType, attempt
  <2>3. LoopType'
    BY <2>1 DEF LoopType, loop
  <2> QED BY <2>1, <2>2, <2>3, FaultType DEF HistType, attempt
<1>5. CASE SendMsg \/ SendFails
  <2>1. PICK a \in BOOLEAN : Send(a)
    BY <1>5 DEF SendMsg, SendFails, HistType
  <2>2. pc' \in {"receive", "flush"} /\ rc' = FALSE /\ (Fault \/ UNCHANGED faults)
    BY <1>5 DEF SendMsg, SendFails, Send
  <2>3. ChanType' /\ LineType'
    BY <2>1, SendType DEF ChanType, LineType
  <2>4. LoopType'
    BY <2>1, <2>2, SendType, LoopKept DEF Pcs
  <2> QED BY <2>1, <2>2, <2>3, <2>4, SendType, FaultType DEF HistType
<1>6. CASE ReceivePart
  <2>1. /\ inq # <<>> /\ rsp' = Append(rsp, Head(inq)) /\ inq' = Tail(inq)
        /\ pc' \in {"receive", "check"}
        /\ UNCHANGED <<chan, reset, loop, req, rc, todo, out, broken, hist>>
    BY <1>6 DEF ReceivePart
  <2>2. rsp' \in Seq(Parts) /\ inq' \in Seq(Parts)
    BY <2>1, PartTaken, AppendProperties DEF LineType
  <2> QED BY <2>1, <2>2, ChanKept, LoopKept, HistKept DEF LineType, Pcs, hist
<1>7. CASE ReceiveFails
  <2>1. /\ pc' = "flush" /\ (Fault \/ UNCHANGED faults)
        /\ UNCHANGED <<chan, reset, loop, attempt, line, sent, raced, overdue, clean>>
    BY <1>7 DEF ReceiveFails
  <2> QED BY <2>1, ChanKept, LoopKept, HistKept, LineKept DEF Pcs, attempt, line
<1>8. CASE Check
  <2>1. /\ pc' = "flush" /\ rc' = check_confirmation(req, rsp)
        /\ UNCHANGED <<chan, reset, loop, req, rsp, line, hist>>
    BY <1>8 DEF Check
  <2>2. rc' \in BOOLEAN
    BY <2>1 DEF check_confirmation
  <2> QED BY <2>1, <2>2, ChanKept, LoopKept, LineKept DEF Pcs, HistType, hist, line
<1>9. CASE modbus_flush
  <2>1. /\ pc' = "evaluate" /\ inq' = <<>> /\ overdue' = (overdue \/ todo # <<>> \/ out # <<>>)
        /\ UNCHANGED <<chan, reset, loop, req, rsp, rc, todo, out, broken, faults, sent, raced, clean>>
    BY <1>9 DEF modbus_flush, attempt
  <2>2. overdue' \in BOOLEAN
    BY <2>1
  <2> QED BY <2>1, <2>2, ChanKept, LoopKept, NoneType DEF LineType, HistType, Pcs
<1>10. CASE SlaveAnswers
  <2>1. PICK e \in BOOLEAN :
          /\ todo # <<>> /\ todo' = Tail(todo) /\ (Fault \/ UNCHANGED faults)
          /\ out' = out \o <<Part(Head(todo), 1, e), Part(Head(todo), 2, e)>>
          /\ UNCHANGED <<chan, pc, reset, loop, attempt, inq, broken, sent, raced, overdue, clean>>
    BY <1>10 DEF SlaveAnswers
  <2>2. /\ Tail(todo) \in Seq(Requests)
        /\ Part(Head(todo), 1, e) \in Parts /\ Part(Head(todo), 2, e) \in Parts
    BY <2>1, AnswerType
  <2>3. out' \in Seq(Parts)
    BY <2>1, <2>2, PairAppended DEF LineType
  <2>4. UNCHANGED <<req, rsp, rc, pc>>
    BY <2>1 DEF attempt
  <2>5. LoopType'
    BY <2>1, <2>4, LoopKept DEF LoopType
  <2> QED BY <2>1, <2>2, <2>3, <2>4, <2>5, ChanKept, HistKept DEF LineType
<1>11. CASE Arrive
  <2>1. /\ out # <<>> /\ out' = Tail(out) /\ inq' = Append(inq, Head(out))
        /\ UNCHANGED <<chan, pc, reset, loop, req, rsp, rc, todo, broken, hist>>
    BY <1>11 DEF Arrive, attempt
  <2>2. inq' \in Seq(Parts) /\ out' \in Seq(Parts)
    BY <2>1, PartTaken, AppendProperties DEF LineType
  <2>3. LoopType'
    BY <2>1, LoopKept DEF LoopType
  <2> QED BY <2>1, <2>2, <2>3, ChanKept, HistKept DEF LineType, hist
<1>12. CASE LineFault
  <2>1. /\ Fault
        /\ UNCHANGED <<chan, pc, reset, loop, req, rsp, rc, inq, broken, sent, raced, overdue, clean>>
        /\ \/ todo # <<>> /\ todo' = Tail(todo) /\ UNCHANGED out
           \/ out # <<>> /\ out' = Tail(out) /\ UNCHANGED todo
           \/ out # <<>> /\ UNCHANGED todo /\ out' = <<Damaged(Head(out))>> \o Tail(out)
    BY <1>12 DEF LineFault, Damaged, attempt
  <2>2. out' \in Seq(Parts) /\ todo' \in Seq(Requests)
    BY <2>1, AnswerType, PartTaken, DamagedHead DEF LineType
  <2>3. LoopType'
    BY <2>1, LoopKept DEF LoopType
  <2> QED BY <2>1, <2>2, <2>3, ChanKept, HistKept DEF LineType
<1>13. CASE PeerCloses
  <2>1. /\ Fault /\ broken' = TRUE /\ todo' = <<>> /\ out' = <<>>
        /\ UNCHANGED <<chan, pc, reset, loop, req, rsp, rc, inq, sent, raced, overdue, clean>>
    BY <1>13 DEF PeerCloses, attempt
  <2>2. LoopType'
    BY <2>1, LoopKept DEF LoopType
  <2> QED BY <2>1, <2>2, ChanKept, FaultType, NoneType DEF LineType, HistType
<1>14. CASE UNCHANGED vars
  BY <1>14 DEF vars, chan, loop, attempt, line, hist, ChanType, LoopType, LineType, HistType
<1> QED BY <1>1, <1>2, <1>3, <1>4, <1>5, <1>6, <1>7, <1>8, <1>9, <1>10, <1>11, <1>12, <1>13, <1>14,
           <1>15, NextSplit

-----------------------------------------------------------------------------
(* Contexts. As long as the two threads have not overlapped, and no new    *)
(* context failed to connect in the mode modbus_rtu_tcp, ctx is live where *)
(* the place of a thread says so; whatever overlaps, a freed context is    *)
(* left in ctx only until the next assignment of the thread that freed it. *)

Alone == {"idle", "attempt", "evaluate"}
Dangling == pc \in {"clear", "forget", "undefined"} \/ reset \in {"new", "forget"}
Broke(step) == step \in failed
Forgets == backend = "rtu_tcp" /\ Broke("connect")
Sound == ~raced /\ ~Forgets
Freed == pc \in {"clear", "forget", "new"} \/ reset \in {"new", "forget"}

Owner ==
  /\ reset # "none" => backend = "tcp"
  /\ pc = "drop" => Broke("connect")
  /\ Forgets \/ Dangling \/ ctx \in live \cup {NULL}
  /\ backend = "rtu_tcp" \/ raced \/ (live \subseteq {ctx} /\ (Freed => live = {}))
  /\ ~raced => reset = "none" \/ pc \in Alone
  /\ Sound =>
       /\ pc = "undefined" => backend = "rtu" /\ Broke("new")
       /\ pc \in {"call", "check", "flush", "connect", "drop"} => ctx \in live
       /\ reset \in {"connect", "drop"} => ctx \in live
       /\ pc \in {"build", "receive"} => held = ctx /\ ctx \in live
       /\ pc = "test" /\ ctx = NULL => Broke("new")

\* Before the calling thread uses the channel, no thread is opening it.
LEMMA OwnerEnters ==
  ASSUME MasterType, Owner, UNCHANGED <<backend, ctx, live, reset, failed>>, Uses,
         pc \in Alone, pc' \in {"call", "start"}, pc' = "call" => ctx # NULL
  PROVE  Owner'
<1>1. ~raced' => ~raced /\ reset = "none"
  BY DEF Uses, MasterType, HistType
<1>2. (Forgets' <=> Forgets) /\ (\A s : Broke(s)' <=> Broke(s)) /\ (raced => raced')
  BY DEF Forgets, Broke, Uses, MasterType, HistType
<1>3. Dangling => Dangling'
  BY DEF Dangling, Alone
<1>4. Sound' /\ pc' = "call" => ctx' \in live'
  <2> SUFFICES ASSUME Sound', pc' = "call" PROVE ctx \in live
    OBVIOUS
  <2>1. reset = "none" /\ ~Forgets
    BY <1>1, <1>2 DEF Sound
  <2> QED BY <2>1 DEF Owner, Dangling, Alone
<1> QED BY <1>1, <1>2, <1>3, <1>4 DEF Owner, Sound, Alone, Freed

\* The other steps of the calling thread outside chan_start, and those of the world.
LEMMA OwnerKept ==
  ASSUME MasterType, Owner, UNCHANGED <<backend, ctx, live, reset, failed, raced>>,
         \/ UNCHANGED <<pc, held>>
         \/ pc \in Alone \cup {"round"} /\ pc' \in Alone
         \/ pc = "call" /\ pc' = "build" /\ held' = ctx
         \/ pc \in {"build", "receive"} /\ pc' \in {"receive", "check", "flush"} /\ UNCHANGED held
         \/ pc = "check" /\ pc' = "flush"
         \/ pc = "flush" /\ pc' = "evaluate"
  PROVE  Owner'
<1>1. (Forgets' <=> Forgets) /\ (\A s : Broke(s)' <=> Broke(s)) /\ (Sound' <=> Sound)
  BY DEF Forgets, Broke, Sound
<1>2. Dangling => Dangling'
  BY DEF Dangling, Alone
<1>3. ~raced' => reset' = "none" \/ pc' \in Alone
  BY DEF Owner, Alone
<1>4. Sound' =>
        /\ pc' \in {"check", "flush", "call"} => ctx' \in live'
        /\ pc' \in {"build", "receive"} => held' = ctx' /\ ctx' \in live'
  BY <1>1 DEF Owner, Alone
<1> QED BY <1>1, <1>2, <1>3, <1>4 DEF Owner, Alone, Freed

\* Undefined behaviour is one of the three cases.
LEMMA OwnerUndefined ==
  ASSUME MasterType, Owner, UseAfterFree
  PROVE  Owner'
<1>1. pc' = "undefined" /\ pc # "undefined" /\ UNCHANGED <<backend, ctx, live, held, reset, failed, raced>>
  BY DEF UseAfterFree, Undefined, chan, attempt, hist
<1>2. (Forgets' <=> Forgets) /\ (\A s : Broke(s)' <=> Broke(s)) /\ (Sound' <=> Sound)
  BY <1>1 DEF Forgets, Broke, Sound
<1>3. ASSUME Sound PROVE backend = "rtu" /\ Broke("new")
  <2>0. ~raced /\ ~Forgets
    BY <1>3 DEF Sound
  <2>1. CASE pc \in {"call", "flush"} /\ ctx \notin live
    BY <1>3, <2>1 DEF Owner
  <2>2. CASE pc \in {"build", "receive"} /\ held \notin live
    BY <1>3, <2>2 DEF Owner
  <2>3. ASSUME NEW t \in Threads, At(t, "connect"), ctx \notin live PROVE FALSE
    BY <1>3, <2>3 DEF Owner, At
  <2>4. ASSUME NEW t \in Threads, At(t, "test"), ctx = NULL, backend = "rtu" PROVE Broke("new")
    <3>1. pc = "test"
      BY <2>4 DEF Owner, At
    <3> QED BY <1>3, <2>4, <3>1 DEF Owner
  <2>5. ASSUME NEW t \in Threads, NEW p \in {"close", "free", "drop"}, At(t, p),
               ctx \notin live \cup {NULL}
        PROVE  FALSE
    <3>1. Dangling
      BY <2>0, <2>5 DEF Owner
    <3>2. reset = "none" \/ pc \in Alone
      BY <2>0 DEF Owner
    <3> QED BY <1>1, <2>5, <3>1, <3>2 DEF Dangling, At, Alone
  <2> QED BY <2>1, <2>2, <2>3, <2>4, <2>5 DEF UseAfterFree
<1>4. Dangling'
  BY <1>1 DEF Dangling
<1>5. ~raced => reset = "none"
  <2> SUFFICES ASSUME ~raced PROVE reset = "none"
    OBVIOUS
  <2>1. reset # "none" => Sound
    BY DEF Owner, Sound, Forgets
  <2> QED BY <1>3, <2>1 DEF Owner
<1> QED BY <1>1, <1>2, <1>3, <1>4, <1>5 DEF Owner, Freed

\* The calling thread in chan_start.
LEMMA OwnerStart ==
  ASSUME MasterType, Owner, Open("caller")
  PROVE  Owner'
<1>0. "caller" \in Threads /\ "caller" # "shm"
  BY DEF Threads
<1>1. /\ UNCHANGED <<backend, held, reset, raced>> /\ pc \in Opens /\ pc' \in Opens \cup {"round"}
  BY <1>0, OpenEffect DEF attempt
<1>2. \/ /\ pc = "start" /\ UNCHANGED <<ctx, live, failed>>
         /\ \/ pc' = "close"
            \/ pc' = "new" /\ (ctx = NULL \/ backend = "rtu_tcp")
      \/ pc = "close" /\ pc' = "free" /\ UNCHANGED <<ctx, live, failed>>
      \/ pc = "free" /\ pc' = "clear" /\ live' = live \ {ctx} /\ UNCHANGED <<ctx, failed>>
      \/ /\ pc = "drop" /\ pc' = (IF backend = "rtu_tcp" THEN "round" ELSE "forget")
         /\ live' = live \ {ctx} /\ UNCHANGED <<ctx, failed>>
      \/ pc = "clear" /\ pc' = "new" /\ ctx' = NULL /\ UNCHANGED <<live, failed>>
      \/ pc = "forget" /\ pc' = "round" /\ ctx' = NULL /\ UNCHANGED <<live, failed>>
      \/ /\ pc = "new" /\ pc' = "test" /\ UNCHANGED failed
         /\ ctx' = made + 1 /\ live' = live \cup {made + 1}
      \/ /\ pc = "new" /\ pc' = "test" /\ failed' = failed \cup {"new"}
         /\ ctx' = NULL /\ UNCHANGED live
      \/ /\ pc = "test" /\ UNCHANGED <<ctx, live, failed>>
         /\ pc' = IF ctx = NULL THEN "round" ELSE "connect"
      \/ /\ pc = "connect" /\ ctx \in live /\ UNCHANGED <<ctx, live>>
         /\ \/ pc' = "round" /\ UNCHANGED failed
            \/ pc' = "drop" /\ failed' = failed \cup {"connect"}
  BY <1>0, OpenPlaces DEF At, Goto, Opened
<1>3. /\ Broke("new") => Broke("new")'
      /\ Broke("connect") => Broke("connect")'
      /\ Forgets => Forgets'
      /\ pc' = "drop" => Broke("connect")'
      /\ pc = "new" /\ ctx' = NULL => Broke("new")'
  <2>1. made + 1 # NULL
    BY DEF MasterType, ChanType, NULL
  <2>2. pc' = "drop" => "connect" \in failed'
    BY <1>2 DEF Owner, Broke
  <2>3. pc = "new" /\ ctx' = NULL => "new" \in failed'
    BY <1>2, <2>1
  <2>4. failed \subseteq failed'
    BY <1>2
  <2> QED BY <1>1, <2>2, <2>3, <2>4 DEF Broke, Forgets
<1>4. ~raced => reset = "none"
  BY <1>1 DEF Owner, Alone, Opens
<1>5. Forgets' \/ Dangling' \/ ctx' \in live' \cup {NULL}
  <2>1. CASE pc \in {"clear", "forget", "new"}
    BY <1>2, <2>1
  <2>2. CASE pc = "drop"
    BY <1>1, <1>2, <1>3, <2>2 DEF Dangling, Owner, Forgets
  <2>3. CASE pc = "free"
    BY <1>2, <2>3 DEF Dangling
  <2>4. CASE pc \in {"start", "close", "test", "connect"}
    <3>1. UNCHANGED <<ctx, live>>
      BY <1>2, <2>4
    <3>2. Dangling => Dangling'
      BY <1>1, <2>4 DEF Dangling
    <3> QED BY <1>3, <3>1, <3>2 DEF Owner
  <2> QED BY <1>1, <2>1, <2>2, <2>3, <2>4 DEF Opens
<1>6. Sound' => Sound
  BY <1>1, <1>3 DEF Sound
<1>7. ASSUME backend # "rtu_tcp", ~raced PROVE Sound
  BY <1>7 DEF Sound, Forgets
<1>8. backend' = "rtu_tcp" \/ raced' \/ (live' \subseteq {ctx'} /\ (Freed' => live' = {}))
  <2> SUFFICES ASSUME backend # "rtu_tcp", ~raced
               PROVE  live' \subseteq {ctx'} /\ (Freed' => live' = {})
    BY <1>1
  <2>1. live \subseteq {ctx} /\ (pc \in {"clear", "forget", "new"} => live = {})
    BY DEF Owner, Freed
  <2>2. live' \subseteq {ctx'}
    BY <1>2, <2>1
  <2>3. Freed' => pc' \in {"clear", "forget", "new"}
    BY <1>1, <1>4 DEF Freed
  <2>4. ctx = NULL => live = {}
    BY <2>1 DEF MasterType, ChanType, NULL
  <2>5. pc' \in {"clear", "forget", "new"} => live' = {}
    BY <1>2, <2>1, <2>4
  <2> QED BY <2>2, <2>3, <2>5
<1>9. ASSUME Sound'
      PROVE  /\ reset' = "none"
             /\ pc' \in {"connect", "drop"} => ctx' \in live'
             /\ pc' = "test" /\ ctx' = NULL => Broke("new")'
  <2>1. Sound /\ reset = "none"
    BY <1>4, <1>6, <1>9 DEF Sound
  <2>2. pc = "test" /\ ctx # NULL => ctx \in live
    BY <2>1 DEF Owner, Sound, Dangling
  <2> QED BY <1>1, <1>2, <1>3, <2>1, <2>2
<1> QED BY <1>1, <1>3, <1>4, <1>5, <1>6, <1>8, <1>9 DEF Owner, Opens

\* chan_reset in the other thread.
LEMMA OwnerReset ==
  ASSUME MasterType, Owner, Open("shm")
  PROVE  Owner'
<1>0. "shm" \in Threads /\ "caller" # "shm"
  BY DEF Threads
<1>1. /\ UNCHANGED <<backend, held, pc, raced>> /\ reset \in Resetting /\ reset' \in Resetting \cup {"none"}
      /\ pc # "undefined" /\ backend = "tcp"
  BY <1>0, OpenEffect DEF attempt, Opens, Resetting, Owner, MasterType, LoopType
<1>2. \/ /\ reset = "start" /\ UNCHANGED <<ctx, live, failed>>
         /\ \/ reset' = "close"
            \/ reset' = "new" /\ ctx = NULL
      \/ reset = "close" /\ reset' = "free" /\ UNCHANGED <<ctx, live, failed>>
      \/ reset = "free" /\ reset' = "new" /\ live' = live \ {ctx} /\ UNCHANGED <<ctx, failed>>
      \/ reset = "drop" /\ reset' = "forget" /\ live' = live \ {ctx} /\ UNCHANGED <<ctx, failed>>
      \/ reset = "forget" /\ reset' = "none" /\ ctx' = NULL /\ UNCHANGED <<live, failed>>
      \/ /\ reset = "new" /\ reset' = "test" /\ failed \subseteq failed'
         /\ \/ ctx' = made + 1 /\ live' = live \cup {made + 1}
            \/ ctx' = NULL /\ UNCHANGED live
      \/ /\ reset = "test" /\ UNCHANGED <<ctx, live, failed>>
         /\ reset' = IF ctx = NULL THEN "none" ELSE "connect"
      \/ /\ reset = "connect" /\ ctx \in live /\ UNCHANGED <<ctx, live>>
         /\ reset' \in {"none", "drop"} /\ failed \subseteq failed'
  BY <1>0, <1>1, OpenPlaces DEF At, Goto, Opened, Resetting
<1>3. /\ ~Forgets' /\ ~Forgets /\ (Sound' <=> ~raced) /\ (Sound <=> ~raced)
      /\ \A s : Broke(s) => Broke(s)'
  <2>1. failed \subseteq failed'
    BY <1>2
  <2> QED BY <1>1, <2>1 DEF Forgets, Sound, Broke
<1>4. ~raced => pc \in Alone
  BY <1>1 DEF Owner, Opens, Resetting
<1>5. Dangling' \/ ctx' \in live' \cup {NULL}
  <2>1. CASE reset \in {"forget", "new"}
    BY <1>2, <2>1
  <2>2. CASE reset \in {"free", "drop"}
    BY <1>2, <2>2 DEF Dangling
  <2>3. CASE reset \in {"start", "close", "test", "connect"}
    <3>1. UNCHANGED <<ctx, live>>
      BY <1>2, <2>3
    <3>2. Dangling => Dangling'
      BY <1>1, <2>3 DEF Dangling
    <3> QED BY <1>3, <3>1, <3>2 DEF Owner
  <2> QED BY <1>1, <2>1, <2>2, <2>3 DEF Opens, Resetting
<1>6. raced' \/ (live' \subseteq {ctx'} /\ (Freed' => live' = {}))
  <2> SUFFICES ASSUME ~raced
               PROVE  live' \subseteq {ctx'} /\ (Freed' => live' = {})
    BY <1>1
  <2>1. live \subseteq {ctx} /\ (reset \in {"forget", "new"} => live = {})
    BY <1>1 DEF Owner, Freed
  <2>2. live' \subseteq {ctx'}
    BY <1>2, <2>1
  <2>3. Freed' => reset' \in {"forget", "new"}
    BY <1>1, <1>4 DEF Freed, Alone
  <2>4. ctx = NULL => live = {}
    BY <2>1 DEF MasterType, ChanType, NULL
  <2>5. reset' \in {"forget", "new"} => live' = {}
    BY <1>2, <2>1, <2>4
  <2> QED BY <2>2, <2>3, <2>5
<1>7. ASSUME ~raced PROVE reset' \in {"connect", "drop"} => ctx' \in live'
  <2>1. reset = "test" /\ ctx # NULL => ctx \in live
    BY <1>3, <1>4, <1>7 DEF Owner, Dangling, Alone
  <2> QED BY <1>2, <2>1
<1>8. pc = "drop" => Broke("connect")'
  BY <1>3 DEF Owner
<1> QED BY <1>1, <1>3, <1>4, <1>5, <1>6, <1>7, <1>8 DEF Owner, Alone

LEMMA OwnerStep ==
  ASSUME MasterType, Owner, [Next]_vars
  PROVE  Owner'
<1>1. CASE Caller
  <2>1. /\ UNCHANGED <<backend, ctx, live, reset, failed>> /\ pc = "idle"
        /\ \/ pc' \in {"idle", "attempt"} /\ UNCHANGED raced
           \/ pc' = "call" /\ ctx # NULL /\ Uses
    BY <1>1, CallerBegins DEF Begins, Begin, chan
  <2> QED BY <2>1, OwnerEnters, OwnerKept DEF Alone
<1>2. CASE TryAgain
  <2>1. /\ UNCHANGED <<backend, ctx, live, reset, failed>> /\ Uses
        /\ pc = "attempt" /\ pc' = "call" /\ ctx # NULL
    BY <1>2 DEF TryAgain, chan
  <2> QED BY <2>1, OwnerEnters DEF Alone
<1>3. CASE TriesUsed
  <2>1. /\ UNCHANGED <<backend, ctx, live, reset, failed>> /\ pc = "attempt"
        /\ \/ pc' = "start" /\ Uses
           \/ pc' = "idle" /\ UNCHANGED raced
    BY <1>3 DEF TriesUsed, Return, chan, hist
  <2> QED BY <2>1, OwnerEnters, OwnerKept DEF Alone
<1>4. CASE SkipTries \/ Evaluate \/ NextRound \/ SetSlave \/ TooMany \/ ReceivePart \/ ReceiveFails
           \/ Check \/ modbus_flush
  <2>1. UNCHANGED <<backend, ctx, live, reset, failed, raced>>
    BY <1>4 DEF SkipTries, Evaluate, Return, NextRound, SetSlave, TooMany, ReceivePart, ReceiveFails,
                Check, modbus_flush, chan, hist
  <2>2. \/ UNCHANGED <<pc, held>>
        \/ pc \in Alone \cup {"round"} /\ pc' \in Alone
        \/ pc = "call" /\ pc' = "build" /\ held' = ctx
        \/ pc \in {"build", "receive"} /\ pc' \in {"receive", "check", "flush"} /\ UNCHANGED held
        \/ pc = "check" /\ pc' = "flush"
        \/ pc = "flush" /\ pc' = "evaluate"
    BY <1>4 DEF SkipTries, Evaluate, Return, NextRound, SetSlave, TooMany, ReceivePart, ReceiveFails,
                Check, modbus_flush, attempt, Alone
  <2> QED BY <2>1, <2>2, OwnerKept
<1>5. CASE SendMsg \/ SendFails
  <2>1. /\ UNCHANGED <<backend, ctx, live, reset, failed, raced, held>>
        /\ pc = "build" /\ pc' \in {"receive", "flush"}
    BY <1>5 DEF SendMsg, SendFails, Send
  <2> QED BY <2>1, OwnerKept
<1>6. CASE SlaveAnswers \/ Arrive \/ LineFault \/ PeerCloses \/ UNCHANGED vars
  <2>1. UNCHANGED <<backend, ctx, live, reset, failed, raced, held, pc>>
    BY <1>6 DEF SlaveAnswers, Arrive, LineFault, PeerCloses, vars, chan, attempt, hist
  <2> QED BY <2>1, OwnerKept
<1>7. CASE chan_reset
  <2>1. /\ UNCHANGED <<backend, ctx, live, held, pc, failed>> /\ backend = "tcp"
        /\ reset = "none" /\ reset' = "start" /\ raced' = (raced \/ pc \notin Alone)
    BY <1>7 DEF chan_reset, chan, attempt, Alone
  <2>2. raced \in BOOLEAN
    BY DEF MasterType, HistType
  <2>3. (raced => raced') /\ (~raced' => ~raced /\ pc \in Alone)
    BY <2>1, <2>2
  <2>4. (Forgets' <=> Forgets) /\ (\A s : Broke(s)' <=> Broke(s)) /\ (Sound' => Sound)
    BY <2>1, <2>3 DEF Forgets, Broke, Sound
  <2>5. (Dangling' <=> Dangling) /\ (Freed' <=> Freed)
    BY <2>1 DEF Dangling, Freed
  <2> QED BY <2>1, <2>3, <2>4, <2>5 DEF Owner, Alone
<1>8. ASSUME NEW t \in Threads, Open(t)
      PROVE  Owner'
  BY <1>8, OwnerStart, OwnerReset DEF Threads
<1> QED BY <1>1, <1>2, <1>3, <1>4, <1>5, <1>6, <1>7, <1>8, OwnerUndefined, NextSplit

\* Whatever chan_reset in one thread overlaps in the other, ctx is live or NULL between a
\* free and the next assignment of the same thread; and without such an overlap no
\* context is used after it was freed or leaked, but for the two cases of chan_start that
\* the property names.
THEOREM ContextIsOwned == Spec => []ContextOwned
<1>1. Init => MasterType /\ Owner
  <2>1. Init => Owner
    BY DEF Init, Owner, Alone, Broke, Freed, Dangling
  <2> QED BY <2>1, TypeInit
<1>2. MasterType /\ Owner /\ [Next]_vars => (MasterType /\ Owner)'
  BY TypeStep, OwnerStep
<1>3. MasterType /\ Owner => ContextOwned
  <2> SUFFICES ASSUME MasterType, Owner PROVE ContextOwned
    OBVIOUS
  <2>1. raced \in BOOLEAN
    BY DEF MasterType, HistType
  <2>2. pc = "undefined" => raced \/ Forgets \/ (backend = "rtu" /\ Broke("new"))
    BY <2>1 DEF Owner, Sound
  <2> QED BY <2>1, <2>2 DEF Owner, ContextOwned, Dangling, Forgets, Broke
<1> QED BY <1>1, <1>2, <1>3, PTL DEF Spec

-----------------------------------------------------------------------------
(* Answers. In the order of the line every part is younger than the one    *)
(* before it. Over TCP an answer is late by at most as many transactions   *)
(* as there were faults, since a transaction that ends without one has     *)
(* taken an answer off the line; so fewer than TID_MOD faults cannot       *)
(* confuse two transaction identifiers.                                    *)

\* The place of a part among all parts ever sent.
Key(p) == 2 * p.no + p.part

\* The parts a arrived, then the parts b, then the requests c that follow.
Ordered(a, b, c) ==
  /\ \A i, j \in 1..Len(a) : i < j => Key(a[i]) < Key(a[j])
  /\ \A i, j \in 1..Len(b) : i < j => Key(b[i]) < Key(b[j])
  /\ \A i, j \in 1..Len(c) : i < j => c[i].no < c[j].no
  /\ \A i \in 1..Len(a), j \in 1..Len(b) : Key(a[i]) < Key(b[j])
  /\ \A i \in 1..Len(a), j \in 1..Len(c) : a[i].no < c[j].no
  /\ \A i \in 1..Len(b), j \in 1..Len(c) : b[i].no < c[j].no
Before(p, a, b, c) ==
  /\ \A i \in 1..Len(a) : Key(p) < Key(a[i])
  /\ \A i \in 1..Len(b) : Key(p) < Key(b[i])
  /\ \A i \in 1..Len(c) : p.no < c[i].no

\* What identifies a request and the parts of its answer.
Id(x) == [no |-> x.no, call |-> x.call, tid |-> x.tid]
Ids == [no : Nat, call : Nat, tid : Tids]
On(q) == {Id(q[i]) : i \in 1..Len(q)}
Ahead == On(out) \cup On(todo)
Moving == On(inq) \cup Ahead

\* In a transaction the newest number belongs to the present call, and of the last
\* TID_MOD numbers the transaction identifier tells how old they are.
Numbered(x) ==
  /\ x.no <= sent
  /\ pc \in {"receive", "check"} /\ x.no = sent => x.call = call.no
  /\ backend = "tcp" /\ sent - x.no < TID_MOD =>
       \/ t_id - x.tid = sent - x.no
       \/ t_id - x.tid = sent - x.no - TID_MOD
AllNumbered ==
  /\ \A x \in Moving : Numbered(x)
  /\ pc \in {"receive", "check"} => \A x \in On(rsp) : Numbered(x)

\* x is at most n transactions older than the newest.
Within(x, n) == sent - x.no <= n

Late ==
  backend = "tcp" =>
    /\ Ordered(inq, out, todo)
    /\ broken => out = <<>> /\ todo = <<>>
    /\ pc = "receive" => Len(rsp) <= 1 /\ \A x \in Moving : Within(x, faults)
    /\ pc = "receive" /\ rsp # <<>> => Before(rsp[1], inq, out, todo)
    /\ pc \in {"receive", "check"} /\ rsp # <<>> => Within(rsp[1], faults)
    /\ pc \notin {"receive", "undefined"} => \A x \in Ahead : Within(x, faults - 1)
    /\ pc \notin {"receive", "check", "flush", "undefined"} => \A x \in Moving : Within(x, faults - 1)

\* Without an answer that outlived its transaction the line carries nothing but the
\* answer to the present request.
Prompt ==
  ~overdue =>
    /\ pc \notin {"receive", "check", "flush", "undefined"} =>
         inq = <<>> /\ out = <<>> /\ todo = <<>>
    /\ pc \in {"receive", "check", "flush"} => \A x \in Moving : x.no = sent
    /\ pc \in {"receive", "check"} => \A x \in On(rsp) : x.no = sent

\* What the caller may conclude from success.
Trusted == (backend = "tcp" /\ faults < TID_MOD) \/ (backend # "tcp" /\ ~overdue)
Confirmed ==
  /\ pc \in {"receive", "check"} => req.no = sent /\ req.tid = t_id /\ ~rc
  /\ pc \in {"flush", "evaluate"} /\ rc /\ Trusted => rsp # <<>> /\ rsp[1].call = call.no
  /\ pc = "idle" /\ ret = "ok" /\ Trusted => rsp # <<>> /\ rsp[1].call = call.no

AnswerInv == AllNumbered /\ Late /\ Prompt /\ Confirmed

\* What the operations on queues do to the identities on them.
Carriers == Parts \cup Requests

LEMMA IdType ==
  ASSUME NEW x \in Carriers
  PROVE  Id(x) \in Ids /\ Id(x).no = x.no /\ Id(x).call = x.call /\ Id(x).tid = x.tid
  BY DEF Carriers, Parts, Requests, Id, Ids
LEMMA OnEmpty == On(<<>>) = {}
  BY EmptySeq DEF On
LEMMA OnType ==
  ASSUME NEW S, S \subseteq Carriers, NEW q \in Seq(S)
  PROVE  On(q) \subseteq Ids /\ \A i \in 1..Len(q) : Id(q[i]) \in On(q)
<1>1. ASSUME NEW i \in 1..Len(q) PROVE q[i] \in Carriers
  BY <1>1, ElementOfSeq
<1> QED BY <1>1, IdType DEF On
LEMMA OnTail ==
  ASSUME NEW S, NEW q \in Seq(S), q # <<>>
  PROVE  /\ On(Tail(q)) \subseteq On(q) /\ Id(Head(q)) \in On(q)
<1>1. /\ Head(q) = q[1] /\ Len(q) \in Nat \ {0} /\ Len(Tail(q)) = Len(q) - 1
      /\ \A i \in 1..Len(Tail(q)) : Tail(q)[i] = q[i + 1]
  BY HeadTailProperties, EmptySeq
<1> QED BY <1>1 DEF On
LEMMA OnAppend ==
  ASSUME NEW S, NEW q \in Seq(S), NEW x \in S
  PROVE  On(Append(q, x)) = On(q) \cup {Id(x)}
<1>1. /\ Len(q) \in Nat /\ Len(Append(q, x)) = Len(q) + 1 /\ Append(q, x)[Len(q) + 1] = x
      /\ \A i \in 1..Len(q) : Append(q, x)[i] = q[i]
  BY AppendProperties, LenProperties
<1> QED BY <1>1 DEF On
LEMMA OnPair ==
  ASSUME NEW S, NEW q \in Seq(S), NEW a \in S, NEW b \in S
  PROVE  On(q \o <<a, b>>) = On(q) \cup {Id(a), Id(b)}
<1>1. /\ Len(q) \in Nat /\ Len(q \o <<a, b>>) = Len(q) + 2
      /\ \A i \in 1..Len(q) : (q \o <<a, b>>)[i] = q[i]
      /\ (q \o <<a, b>>)[Len(q) + 1] = a /\ (q \o <<a, b>>)[Len(q) + 2] = b
  BY PairAppended
<1>2. 1..(Len(q) + 2) = 1..Len(q) \cup {Len(q) + 1, Len(q) + 2}
  BY <1>1
<1> QED BY <1>1, <1>2 DEF On
LEMMA OnDamaged ==
  ASSUME NEW q \in Seq(Parts), q # <<>>
  PROVE  On(<<Damaged(Head(q))>> \o Tail(q)) \subseteq On(q)
<1> DEFINE d == <<Damaged(Head(q))>> \o Tail(q)
<1>1. Len(d) = Len(q) /\ d[1] = Damaged(q[1]) /\ \A i \in 2..Len(q) : d[i] = q[i]
  BY DamagedHead
<1>2. Len(q) \in Nat \ {0} /\ q[1] \in Parts
  BY PartTaken
<1>3. Id(Damaged(q[1])) = Id(q[1])
  BY <1>2, DamagedType DEF Id
<1> HIDE DEF d
<1>4. \A i \in 1..Len(d) : Id(d[i]) = Id(q[i])
  BY <1>1, <1>2, <1>3
<1>5. On(d) \subseteq On(q)
  BY <1>1, <1>4 DEF On
<1> QED BY <1>5 DEF d

\* The order of the line through its operations.
LEMMA OrderTaken ==
  ASSUME NEW a \in Seq(Parts), NEW b \in Seq(Parts), NEW c \in Seq(Requests), a # <<>>,
         Ordered(a, b, c)
  PROVE  Ordered(Tail(a), b, c) /\ Before(Head(a), Tail(a), b, c)
<1>1. /\ Head(a) = a[1] /\ Len(a) \in Nat \ {0} /\ Len(Tail(a)) = Len(a) - 1
      /\ \A i \in 1..Len(Tail(a)) : Tail(a)[i] = a[i + 1]
  BY PartTaken
<1>2. \A i \in 1..Len(Tail(a)) : i + 1 \in 1..Len(a) /\ 1 < i + 1
  BY <1>1
<1>3. 1 \in 1..Len(a)
  BY <1>1
<1>4. Ordered(Tail(a), b, c)
  BY <1>1, <1>2 DEF Ordered
<1>5. Before(Head(a), Tail(a), b, c)
  BY <1>1, <1>2, <1>3 DEF Ordered, Before
<1> QED BY <1>4, <1>5

LEMMA OrderArrive ==
  ASSUME NEW a \in Seq(Parts), NEW b \in Seq(Parts), NEW c \in Seq(Requests), b # <<>>,
         Ordered(a, b, c)
  PROVE  /\ Ordered(Append(a, Head(b)), Tail(b), c)
         /\ \A p : Before(p, a, b, c) => Before(p, Append(a, Head(b)), Tail(b), c)
<1>1. /\ Head(b) = b[1] /\ Head(b) \in Parts /\ Len(b) \in Nat \ {0} /\ Len(Tail(b)) = Len(b) - 1
      /\ \A i \in 1..Len(Tail(b)) : Tail(b)[i] = b[i + 1]
  BY PartTaken
<1>2. \A i \in 1..Len(Tail(b)) : i + 1 \in 1..Len(b) /\ 1 < i + 1
  BY <1>1
<1>3. 1 \in 1..Len(b) /\ Len(a) \in Nat
  BY <1>1, LenProperties
<1>4. /\ Len(Append(a, Head(b))) = Len(a) + 1
      /\ \A i \in 1..(Len(a) + 1) :
           \/ i \in 1..Len(a) /\ Append(a, Head(b))[i] = a[i]
           \/ i = Len(a) + 1 /\ Append(a, Head(b))[i] = b[1]
  BY <1>1, <1>3, AppendProperties
<1>5. Ordered(Append(a, Head(b)), Tail(b), c)
  <2> DEFINE s == Append(a, Head(b))
  <2> DEFINE t == Tail(b)
  <2>0. Len(s) = Len(a) + 1 /\ Len(t) = Len(b) - 1
    BY <1>1, <1>4
  <2>1. \A i, j \in 1..(Len(a) + 1) : i < j => i \in 1..Len(a)
    BY <1>3
  <2>2. \A i \in 1..(Len(a) + 1) :
           \/ i \in 1..Len(a) /\ s[i] = a[i]
           \/ i = Len(a) + 1 /\ s[i] = b[1]
    BY <1>4
  <2>3. \A i \in 1..Len(t) : t[i] = b[i + 1] /\ i + 1 \in 1..Len(b) /\ 1 < i + 1 /\ i \in Nat
    BY <1>1, <1>2
  <2> HIDE DEF s, t
  <2>4. \A i, j \in 1..Len(s) : i < j => Key(s[i]) < Key(s[j])
    BY <2>0, <2>1, <2>2, <1>3 DEF Ordered
  <2>5. \A i, j \in 1..Len(t) : i < j => Key(t[i]) < Key(t[j])
    BY <2>3 DEF Ordered
  <2>6. \A i \in 1..Len(s), j \in 1..Len(t) : Key(s[i]) < Key(t[j])
    BY <2>0, <2>2, <2>3, <1>3 DEF Ordered
  <2>7. \A i \in 1..Len(s), j \in 1..Len(c) : s[i].no < c[j].no
    BY <2>0, <2>2, <1>3 DEF Ordered
  <2>8. \A i \in 1..Len(t), j \in 1..Len(c) : t[i].no < c[j].no
    BY <2>3 DEF Ordered
  <2>9. \A i, j \in 1..Len(c) : i < j => c[i].no < c[j].no
    BY DEF Ordered
  <2>10. Ordered(s, t, c)
    BY <2>4, <2>5, <2>6, <2>7, <2>8, <2>9 DEF Ordered
  <2> QED BY <2>10 DEF s, t
<1>6. ASSUME NEW p, Before(p, a, b, c)
      PROVE  Before(p, Append(a, Head(b)), Tail(b), c)
  BY <1>1, <1>2, <1>3, <1>4, <1>6 DEF Before
<1> QED BY <1>5, <1>6

LEMMA OrderAnswer ==
  ASSUME NEW a \in Seq(Parts), NEW b \in Seq(Parts), NEW c \in Seq(Requests), c # <<>>,
         Ordered(a, b, c), NEW e \in BOOLEAN
  PROVE  LET bb == b \o <<Part(Head(c), 1, e), Part(Head(c), 2, e)>>
         IN  /\ Ordered(a, bb, Tail(c))
             /\ \A p \in Parts : Before(p, a, b, c) => Before(p, a, bb, Tail(c))
<1> DEFINE h == Head(c)
<1> DEFINE t == Tail(c)
<1> DEFINE p1 == Part(h, 1, e)
<1> DEFINE p2 == Part(h, 2, e)
<1> DEFINE bb == b \o <<p1, p2>>
<1>1. /\ h = c[1] /\ h \in Requests /\ Len(c) \in Nat \ {0} /\ Len(t) = Len(c) - 1
      /\ \A i \in 1..Len(t) : t[i] = c[i + 1]
  BY HeadTailProperties, EmptySeq
<1>2. \A i \in 1..Len(t) : i + 1 \in 1..Len(c) /\ 1 < i + 1 /\ i \in Nat /\ c[i + 1] = t[i]
  BY <1>1
<1>3. 1 \in 1..Len(c) /\ h.no \in Nat
  BY <1>1 DEF Requests
<1>4. /\ p1 \in Parts /\ p2 \in Parts /\ p1.no = h.no /\ p2.no = h.no
      /\ Key(p1) = 2 * h.no + 1 /\ Key(p2) = 2 * h.no + 2
  BY <1>1 DEF Part, Parts, Requests, Key
<1>5. /\ Len(bb) = Len(b) + 2 /\ Len(b) \in Nat
      /\ \A i \in 1..Len(b) : bb[i] = b[i]
      /\ bb[Len(b) + 1] = p1 /\ bb[Len(b) + 2] = p2
  BY <1>4, PairAppended
<1>6. \A i \in 1..Len(bb) : \/ i \in 1..Len(b) /\ bb[i] = b[i]
                            \/ i = Len(b) + 1 /\ bb[i] = p1
                            \/ i = Len(b) + 2 /\ bb[i] = p2
  BY <1>5
<1> HIDE DEF h, t, p1, p2, bb
<1>7. \A x \in Parts : x.no < h.no => Key(x) < Key(p1) /\ Key(x) < Key(p2)
  BY <1>3, <1>4, SMTT(30) DEF Parts, Key
<1>8. \A i \in 1..Len(a) : a[i] \in Parts /\ a[i].no < h.no
  BY <1>1, <1>3, ElementOfSeq DEF Ordered
<1>9. \A i \in 1..Len(b) : b[i] \in Parts /\ b[i].no < h.no
  BY <1>1, <1>3, ElementOfSeq DEF Ordered
<1>10. \A i, j \in 1..Len(bb) : i < j => Key(bb[i]) < Key(bb[j])
  <2> SUFFICES ASSUME NEW i \in 1..Len(bb), NEW j \in 1..Len(bb), i < j
               PROVE  Key(bb[i]) < Key(bb[j])
    OBVIOUS
  <2>1. CASE j \in 1..Len(b)
    BY <2>1, <1>5, SMTT(30) DEF Ordered
  <2>2. CASE j \notin 1..Len(b) /\ i \in 1..Len(b)
    <3>1. bb[i] \in Parts /\ bb[i].no < h.no /\ (bb[j] = p1 \/ bb[j] = p2)
      BY <2>2, <1>6, <1>9
    <3> QED BY <3>1, <1>7
  <2>3. CASE j \notin 1..Len(b) /\ i \notin 1..Len(b)
    <3>1. i = Len(b) + 1 /\ j = Len(b) + 2
      BY <2>3, <1>5, <1>6
    <3> QED BY <3>1, <1>3, <1>4, <1>5
  <2> QED BY <2>1, <2>2, <2>3
<1>11. \A i \in 1..Len(a), j \in 1..Len(bb) : Key(a[i]) < Key(bb[j])
  BY <1>6, <1>7, <1>8 DEF Ordered
<1>12. \A i, j \in 1..Len(t) : i < j => t[i].no < t[j].no
  <2> SUFFICES ASSUME NEW i \in 1..Len(t), NEW j \in 1..Len(t), i < j
               PROVE  t[i].no < t[j].no
    OBVIOUS
  <2>1. i + 1 \in 1..Len(c) /\ j + 1 \in 1..Len(c) /\ i + 1 < j + 1
    BY <1>2
  <2>2. c[i + 1].no < c[j + 1].no
    BY <2>1 DEF Ordered
  <2> QED BY <1>2, <2>2
<1>13. \A i \in 1..Len(a), j \in 1..Len(t) : a[i].no < t[j].no
  BY <1>2 DEF Ordered
<1>14. \A i \in 1..Len(bb), j \in 1..Len(t) : bb[i].no < t[j].no
  <2> SUFFICES ASSUME NEW i \in 1..Len(bb), NEW j \in 1..Len(t) PROVE bb[i].no < t[j].no
    OBVIOUS
  <2>1. j + 1 \in 1..Len(c) /\ 1 < j + 1 /\ c[j + 1] = t[j]
    BY <1>2
  <2>2. CASE i \in 1..Len(b) /\ bb[i] = b[i]
    BY <2>1, <2>2 DEF Ordered
  <2>3. CASE bb[i].no = h.no
    BY <1>1, <1>3, <2>1, <2>3 DEF Ordered
  <2> QED BY <1>4, <1>6, <2>2, <2>3
<1>15. \A i, j \in 1..Len(a) : i < j => Key(a[i]) < Key(a[j])
  BY DEF Ordered
<1>16. Ordered(a, bb, t)
  BY <1>10, <1>11, <1>12, <1>13, <1>14, <1>15 DEF Ordered
<1>17. ASSUME NEW p \in Parts, Before(p, a, b, c)
       PROVE  Before(p, a, bb, t)
  <2>1. p.no < h.no
    BY <1>1, <1>3, <1>17 DEF Before
  <2>2. Key(p) < Key(p1) /\ Key(p) < Key(p2)
    BY <1>7, <2>1
  <2> QED BY <1>2, <1>6, <1>17, <2>2 DEF Before
<1> QED BY <1>16, <1>17 DEF h, t, p1, p2, bb

LEMMA OrderSend ==
  ASSUME NEW a \in Seq(Parts), NEW b \in Seq(Parts), NEW c \in Seq(Requests),
         Ordered(a, b, c), NEW q \in Requests,
         \A x \in On(a) \cup On(b) \cup On(c) : x.no < q.no
  PROVE  Ordered(a, b, Append(c, q))
<1> DEFINE s == Append(c, q)
<1>1. /\ Len(c) \in Nat /\ Len(s) = Len(c) + 1
      /\ \A i \in 1..Len(s) : \/ i \in 1..Len(c) /\ s[i] = c[i]
                              \/ i = Len(c) + 1 /\ s[i] = q
  BY AppendProperties, LenProperties
<1> HIDE DEF s
<1>2. ASSUME NEW i \in 1..Len(a) PROVE a[i].no < q.no
  <2>1. Id(a[i]) \in On(a)
    BY DEF On
  <2> QED BY <2>1 DEF Id
<1>3. ASSUME NEW i \in 1..Len(b) PROVE b[i].no < q.no
  <2>1. Id(b[i]) \in On(b)
    BY DEF On
  <2> QED BY <2>1 DEF Id
<1>4. ASSUME NEW i \in 1..Len(c) PROVE c[i].no < q.no
  <2>1. Id(c[i]) \in On(c)
    BY DEF On
  <2> QED BY <2>1 DEF Id
<1>5. \A i, j \in 1..Len(s) : i < j => i \in 1..Len(c)
  BY <1>1
<1>6. \A i, j \in 1..Len(s) : i < j => s[i].no < s[j].no
  BY <1>1, <1>4, <1>5 DEF Ordered
<1>7. Ordered(a, b, s)
  BY <1>1, <1>2, <1>3, <1>6 DEF Ordered
<1> QED BY <1>7 DEF s

LEMMA KeyType ==
  ASSUME NEW p \in Parts
  PROVE  Key(p) \in Nat
<1>1. p.no \in Nat /\ (p.part = 1 \/ p.part = 2)
  BY DEF Parts
<1>2. CASE p.part = 1
  BY <1>1, <1>2 DEF Key
<1>3. CASE p.part = 2
  BY <1>1, <1>3 DEF Key
<1> QED BY <1>1, <1>2, <1>3

\* What follows the second part of an answer, or two parts, is of a later answer.
LEMMA Younger ==
  ASSUME NEW a \in Seq(Parts), NEW b \in Seq(Parts), NEW c \in Seq(Requests),
         NEW q \in Parts, Before(q, a, b, c), NEW n \in Nat, Key(q) >= 2 * n + 2
  PROVE  \A x \in On(a) \cup On(b) \cup On(c) : x.no >= n + 1
<1>0. q.no \in Nat /\ q.part \in {1, 2} /\ Key(q) \in Nat
  BY KeyType DEF Parts
<1>1. ASSUME NEW p \in Parts, Key(q) < Key(p) PROVE p.no >= n + 1
  <2>1. p.no \in Nat /\ p.part \in {1, 2} /\ Key(p) \in Nat
    BY KeyType DEF Parts
  <2>2. 2 * n + 2 < 2 * p.no + p.part
    BY <1>0, <1>1, <2>1 DEF Key
  <2>3. 2 * n + 2 < 2 * p.no + 2
    BY <2>1, <2>2
  <2> QED BY <2>1, <2>3
<1>2. q.no >= n
  BY <1>0 DEF Key
<1>3. \A i \in 1..Len(a) : a[i].no >= n + 1
  BY <1>1, ElementOfSeq DEF Before
<1>4. \A i \in 1..Len(b) : b[i].no >= n + 1
  BY <1>1, ElementOfSeq DEF Before
<1>5. ASSUME NEW i \in 1..Len(c) PROVE c[i].no >= n + 1
  <2>1. c[i].no \in Nat
    <3>1. c[i] \in Requests
      BY ElementOfSeq
    <3> QED BY <3>1 DEF Requests
  <2>2. q.no < c[i].no
    BY DEF Before
  <2> QED BY <1>0, <1>2, <2>1, <2>2
<1> QED BY <1>3, <1>4, <1>5 DEF On, Id

LEMMA MovingType ==
  ASSUME MasterType
  PROVE  Moving \subseteq Ids /\ Ahead \subseteq Moving /\ On(rsp) \subseteq Ids
<1>1. Parts \subseteq Carriers /\ Requests \subseteq Carriers
  BY DEF Carriers
<1> QED BY <1>1, OnType DEF MasterType, LineType, Moving, Ahead

\* The steps of the caller between transactions, and the end by undefined behaviour.
LEMMA CallerAnswer ==
  ASSUME MasterType, AnswerInv,
         \/ Caller \/ TryAgain \/ SkipTries \/ TriesUsed \/ Evaluate \/ NextRound
         \/ SetSlave \/ TooMany \/ UseAfterFree
  PROVE  AnswerInv'
<1>1. UNCHANGED <<backend, t_id, inq, out, todo, broken, sent, faults, overdue>>
  <2>1. CASE Caller
    BY <2>1, CallerBegins DEF Begins, Begin, chan, line
  <2>2. CASE ~Caller
    BY <2>2 DEF TryAgain, SkipTries, TriesUsed, Evaluate, Return, NextRound, SetSlave, TooMany, UseAfterFree,
                Undefined, chan, line, hist
  <2> QED BY <2>1, <2>2
<1>2. \/ pc' = "undefined"
      \/ pc \in {"idle", "attempt", "call", "build", "evaluate", "round"}
         /\ pc' \in {"idle", "attempt", "call", "start", "build", "flush"}
  <2>1. CASE Caller
    BY <2>1, CallerBegins DEF Begins, Begin
  <2>2. CASE ~Caller
    BY <2>2 DEF TryAgain, SkipTries, TriesUsed, Evaluate, Return, NextRound, SetSlave, TooMany, UseAfterFree,
                Undefined
  <2> QED BY <2>1, <2>2
<1>3. /\ pc' = "flush" => rc' = FALSE
      /\ pc' = "idle" /\ ret' = "ok" => pc = "evaluate" /\ rc /\ UNCHANGED <<rsp, call>>
  <2>1. CASE Caller
    BY <2>1, CallerBegins DEF Begins, Begin
  <2>2. CASE ~Caller
    BY <2>2 DEF TryAgain, SkipTries, TriesUsed, Evaluate, Return, NextRound, SetSlave, TooMany, UseAfterFree,
                Undefined, loop, attempt
  <2> QED BY <2>1, <2>2
<1>4. Moving' = Moving /\ Ahead' = Ahead
  BY <1>1 DEF Moving, Ahead, On
<1>5. AllNumbered'
  BY <1>1, <1>2, <1>4 DEF AnswerInv, AllNumbered, Numbered
<1>6. Late'
  BY <1>1, <1>2, <1>4 DEF AnswerInv, Late, Within
<1>7. Prompt'
  BY <1>1, <1>2, <1>4, OnEmpty DEF AnswerInv, Prompt, Moving, Ahead
<1>8. Confirmed'
  BY <1>1, <1>2, <1>3 DEF AnswerInv, Confirmed, Trusted
<1> QED BY <1>5, <1>6, <1>7, <1>8 DEF AnswerInv

\* A request is younger than everything on the line.
LEMMA TidStep ==
  ASSUME NEW t \in Tids, NEW u \in Tids, NEW d \in Int, d + 1 < TID_MOD,
         t - u = d \/ t - u = d - TID_MOD
  PROVE  NextTid(t) - u = d + 1 \/ NextTid(t) - u = d + 1 - TID_MOD
  BY RangeAssumption DEF Tids, NextTid

LEMMA SendAnswer ==
  ASSUME MasterType, AnswerInv, SendMsg \/ SendFails
  PROVE  AnswerInv'
<1>1. PICK a \in BOOLEAN : Send(a) /\ (SendMsg => a = ~broken) /\ (SendFails => a = FALSE)
  <2>1. SendMsg => Send(~broken)
    BY DEF SendMsg
  <2>2. SendFails => Send(FALSE)
    BY DEF SendFails
  <2>3. ~(SendMsg /\ SendFails)
    BY DEF SendMsg, SendFails
  <2>4. broken \in BOOLEAN
    BY DEF MasterType, HistType
  <2> QED BY <2>1, <2>2, <2>3, <2>4
<1>2. /\ t_id' \in Tids /\ sent' = sent + 1 /\ sent' \in Nat
      /\ req' \in Requests /\ req'.no = sent' /\ req'.call = call.no /\ req'.tid = t_id'
      /\ rsp' = <<>>
      /\ UNCHANGED <<backend, loop, inq, out, broken, overdue>>
  BY <1>1, SendType
<1>3. /\ pc = "build" /\ rc' = FALSE
      /\ (backend = "tcp" => t_id' = NextTid(t_id))
      /\ todo' = IF a THEN Append(todo, req') ELSE todo
  BY <1>1 DEF Send
<1>4. \/ pc' = "receive" /\ faults' = faults /\ a = ~broken
      \/ pc' = "flush" /\ a = FALSE /\ broken /\ faults' = faults
      \/ pc' = "flush" /\ a = FALSE /\ faults' = faults + 1
  BY <1>1 DEF SendMsg, SendFails, Fault
<1>0. PICK new : new = Id(req')
  OBVIOUS
<1>5. new \in Ids /\ new.no = sent' /\ new.call = call.no /\ new.tid = t_id'
  BY <1>0, <1>2, IdType DEF Carriers
<1>6. On(todo') = IF a THEN On(todo) \cup {new} ELSE On(todo)
  BY <1>0, <1>2, <1>3, OnAppend DEF MasterType, LineType
<1>7. On(inq') = On(inq) /\ On(out') = On(out) /\ On(rsp') = {}
  BY <1>2, OnEmpty
<1>8. Moving' \subseteq Moving \cup {new} /\ Ahead' = IF a THEN Ahead \cup {new} ELSE Ahead
  BY <1>6, <1>7 DEF Moving, Ahead
<1>9. /\ sent \in Nat /\ faults \in Nat /\ t_id \in Tids
      /\ \A x \in Moving : x.no \in Nat /\ x.tid \in Tids /\ x.no <= sent
  BY MovingType DEF MasterType, HistType, ChanType, Ids, AnswerInv, AllNumbered, Numbered
<1>10. AllNumbered'
  <2>1. ASSUME NEW x \in Moving PROVE Numbered(x)'
    <3>1. x.no <= sent' /\ x.no # sent'
      BY <1>2, <1>9
    <3>2. ASSUME backend = "tcp", sent' - x.no < TID_MOD
          PROVE  t_id' - x.tid = sent' - x.no \/ t_id' - x.tid = sent' - x.no - TID_MOD
      <4> DEFINE d == sent - x.no
      <4>1. d \in Int /\ d + 1 = sent' - x.no /\ d < TID_MOD
        BY <1>2, <1>9, <3>2, RangeAssumption
      <4>2. t_id - x.tid = d \/ t_id - x.tid = d - TID_MOD
        BY <3>2, <4>1 DEF AnswerInv, AllNumbered, Numbered
      <4> HIDE DEF d
      <4>3. NextTid(t_id) - x.tid = d + 1 \/ NextTid(t_id) - x.tid = d + 1 - TID_MOD
        BY <1>9, <3>2, <4>1, <4>2, TidStep
      <4> QED BY <1>2, <1>3, <1>9, <3>2, <4>1, <4>3, RangeAssumption
    <3> QED BY <1>2, <3>1, <3>2 DEF Numbered
  <2>2. Numbered(new)'
    <3>1. new.no = sent' /\ new.call = call'.no /\ t_id' - new.tid = sent' - new.no /\ sent' \in Nat
      BY <1>2, <1>5 DEF Tids, loop
    <3> QED BY <3>1 DEF Numbered
  <2>3. \A x \in Moving' : Numbered(x)'
    BY <1>8, <2>1, <2>2
  <2> QED BY <1>7, <2>3 DEF AllNumbered
<1>11. Late'
  <2> SUFFICES ASSUME backend = "tcp" PROVE Late'
    BY <1>2 DEF Late
  <2>1. Ordered(inq', out', todo')
    <3>1. Ordered(inq, out, todo)
      BY DEF AnswerInv, Late
    <3>2. \A x \in On(inq) \cup On(out) \cup On(todo) : x.no < req'.no
      BY <1>2, <1>9 DEF Moving, Ahead
    <3>3. inq \in Seq(Parts) /\ out \in Seq(Parts) /\ todo \in Seq(Requests)
      BY DEF MasterType, LineType
    <3>4. Ordered(inq, out, Append(todo, req'))
      BY <1>2, <3>1, <3>2, <3>3, OrderSend
    <3> QED BY <1>2, <1>3, <3>1, <3>4
  <2>2. broken => out = <<>> /\ todo = <<>> /\ Ahead = {}
    BY OnEmpty DEF AnswerInv, Late, Ahead
  <2>3. broken' => out' = <<>> /\ todo' = <<>>
    BY <1>2, <1>3, <1>4, <2>2
  <2>4. \A x \in Moving : sent - x.no <= faults - 1
    BY <1>3 DEF AnswerInv, Late, Within
  <2>5. rsp' = <<>> /\ Len(rsp') = 0
    BY <1>2, EmptySeq
  <2>6. pc' = "receive" => \A x \in Moving' : sent' - x.no <= faults'
    BY <1>2, <1>4, <1>5, <1>8, <1>9, <2>4
  <2>7. pc' = "flush" => \A x \in Ahead' : sent' - x.no <= faults' - 1
    BY <1>2, <1>4, <1>8, <1>9, <2>2, <2>4, MovingType
  <2> QED BY <1>4, <2>1, <2>3, <2>5, <2>6, <2>7 DEF Late, Within
<1>12. Prompt'
  <2> SUFFICES ASSUME ~overdue PROVE Prompt'
    BY <1>2 DEF Prompt
  <2>1. Moving = {}
    BY <1>3, OnEmpty DEF AnswerInv, Prompt, Moving, Ahead
  <2> QED BY <1>4, <1>5, <1>7, <1>8, <2>1 DEF Prompt
<1>13. Confirmed'
  BY <1>2, <1>3, <1>4 DEF Confirmed
<1> QED BY <1>10, <1>11, <1>12, <1>13 DEF AnswerInv

\* A part is read: what is left on the line is younger.
LEMMA ReceiveAnswer ==
  ASSUME MasterType, AnswerInv, ReceivePart
  PROVE  AnswerInv'
<1>1. /\ pc = "receive" /\ inq # <<>> /\ rsp' = Append(rsp, Head(inq)) /\ inq' = Tail(inq)
      /\ UNCHANGED <<backend, t_id, call, req, rc, ret, todo, out, broken, faults, sent, overdue>>
  BY DEF ReceivePart, chan, loop, hist
<1>2. \/ Len(rsp) = 1 /\ pc' = "check"
      \/ Len(rsp) = 0 /\ pc' = "receive"
      \/ Len(rsp) = 0 /\ Head(inq).part = 2 /\ pc' = "check"
  BY DEF ReceivePart
<1>3. PICK h : h = Head(inq)
  OBVIOUS
<1>4. /\ inq \in Seq(Parts) /\ rsp \in Seq(Parts) /\ out \in Seq(Parts) /\ todo \in Seq(Requests)
      /\ sent \in Nat /\ faults \in Nat
  BY DEF MasterType, LineType, HistType
<1>5. h \in Parts /\ h = inq[1] /\ Len(inq) \in Nat \ {0} /\ Tail(inq) \in Seq(Parts)
      /\ 1 \in 1..Len(inq)
  BY <1>1, <1>3, <1>4, PartTaken
<1>6. /\ Len(rsp) \in Nat /\ Len(rsp') = Len(rsp) + 1 /\ (Len(rsp) = 0 => rsp'[1] = h)
      /\ (Len(rsp) = 1 => rsp'[1] = rsp[1] /\ rsp # <<>> /\ rsp[1] \in Parts)
  BY <1>1, <1>3, <1>4, <1>5, AppendProperties, LenProperties, EmptySeq, ElementOfSeq
<1>7. On(rsp') = On(rsp) \cup {Id(h)} /\ Id(h) \in On(inq) /\ On(inq') \subseteq On(inq)
  BY <1>1, <1>3, <1>4, <1>5, OnAppend, OnTail
<1>8. /\ Moving' \subseteq Moving /\ Ahead' = Ahead /\ Id(h) \in Moving
      /\ Moving' = On(inq') \cup On(out) \cup On(todo)
  BY <1>1, <1>7 DEF Moving, Ahead
<1>9. Id(h).no = h.no /\ h.no \in Nat
  BY <1>5 DEF Id, Parts
<1>10. AllNumbered'
  BY <1>1, <1>2, <1>7, <1>8 DEF AnswerInv, AllNumbered, Numbered
<1>11. Late'
  <2> SUFFICES ASSUME backend = "tcp" PROVE Late'
    BY <1>1 DEF Late
  <2>1. Ordered(inq', out', todo') /\ Before(h, Tail(inq), out, todo)
    BY <1>1, <1>3, <1>4, OrderTaken DEF AnswerInv, Late
  <2>2. /\ \A x \in Moving : sent - x.no <= faults
        /\ broken => out = <<>> /\ todo = <<>>
    BY <1>1 DEF AnswerInv, Late, Within
  <2>3. sent - h.no <= faults
    BY <1>8, <1>9, <2>2
  <2>4. CASE Len(rsp) = 0 /\ pc' = "receive"
    BY <1>1, <1>6, <1>8, <2>1, <2>2, <2>3, <2>4 DEF Late, Within
  <2>5. ASSUME NEW n \in Nat, sent - n <= faults, Key(h) >= 2 * n + 2
        PROVE  \A x \in Ahead' : sent - x.no <= faults - 1
    <3>1. \A x \in Moving' : x.no >= n + 1
      BY <1>1, <1>4, <1>5, <1>8, <2>1, <2>5, Younger
    <3>2. \A x \in Ahead' : x \in Moving' /\ x.no \in Nat
      BY <1>8, MovingType DEF Moving, Ahead, Ids
    <3> QED BY <1>4, <2>5, <3>1, <3>2
  <2>6. CASE Len(rsp) = 0 /\ h.part = 2 /\ pc' = "check"
    <3>1. Key(h) >= 2 * h.no + 2
      BY <1>9, <2>6 DEF Key
    <3>2. \A x \in Ahead' : sent - x.no <= faults - 1
      BY <1>9, <2>3, <2>5, <3>1
    <3> QED BY <1>1, <1>6, <2>1, <2>2, <2>3, <2>6, <3>2 DEF Late, Within
  <2>7. CASE Len(rsp) = 1 /\ pc' = "check"
    <3>1. rsp # <<>> /\ rsp'[1] = rsp[1] /\ rsp[1] \in Parts
      BY <1>6, <2>7
    <3>2. Key(rsp[1]) < Key(h) /\ sent - rsp[1].no <= faults
      BY <1>1, <1>5, <3>1 DEF AnswerInv, Late, Before, Within
    <3>3. rsp[1].no \in Nat /\ Key(rsp[1]) >= 2 * rsp[1].no + 1
      BY <3>1 DEF Key, Parts
    <3>4. Key(h) >= 2 * rsp[1].no + 2
      BY <1>5, <3>1, <3>2, <3>3, KeyType
    <3>5. \A x \in Ahead' : sent - x.no <= faults - 1
      BY <2>5, <3>2, <3>3, <3>4
    <3> QED BY <1>1, <1>6, <2>1, <2>2, <2>7, <3>1, <3>2, <3>5 DEF Late, Within
  <2> QED BY <1>2, <1>3, <2>4, <2>6, <2>7
<1>12. Prompt'
  BY <1>1, <1>2, <1>7, <1>8, <1>9 DEF AnswerInv, Prompt
<1>13. Confirmed'
  BY <1>1, <1>2 DEF AnswerInv, Confirmed
<1> QED BY <1>10, <1>11, <1>12, <1>13 DEF AnswerInv

LEMMA TimeOutAnswer ==
  ASSUME MasterType, AnswerInv, ReceiveFails
  PROVE  AnswerInv'
<1>1. /\ pc = "receive" /\ pc' = "flush"
      /\ UNCHANGED <<backend, t_id, call, req, rsp, rc, inq, todo, out, broken, sent, overdue>>
      /\ \/ todo = <<>> /\ out = <<>> /\ faults' = faults
         \/ faults' = faults + 1
  BY DEF ReceiveFails, chan, loop, attempt, line, Fault
<1>2. Moving' = Moving /\ Ahead' = Ahead
  BY <1>1 DEF Moving, Ahead
<1>3. Late'
  <2>1. sent \in Nat /\ faults \in Nat /\ \A x \in Moving : x.no \in Nat
    BY MovingType DEF MasterType, HistType, Ids
  <2>2. backend = "tcp" => \A x \in Ahead : sent - x.no <= faults' - 1
    BY <1>1, <2>1, OnEmpty DEF AnswerInv, Late, Ahead, Moving, Within
  <2> QED BY <1>1, <1>2, <2>2 DEF AnswerInv, Late, Within
<1>4. AllNumbered'
  BY <1>1, <1>2 DEF AnswerInv, AllNumbered, Numbered
<1>5. Prompt'
  BY <1>1, <1>2 DEF AnswerInv, Prompt
<1>6. Confirmed'
  BY <1>1 DEF AnswerInv, Confirmed
<1> QED BY <1>3, <1>4, <1>5, <1>6 DEF AnswerInv

\* An answer that is confirmed is the newest, and so of the present call.
LEMMA CheckAnswer ==
  ASSUME MasterType, AnswerInv, Check
  PROVE  AnswerInv'
<1>1. /\ pc = "check" /\ pc' = "flush" /\ rc' = check_confirmation(req, rsp)
      /\ UNCHANGED <<backend, t_id, call, req, rsp, inq, todo, out, broken, sent, overdue, faults>>
  BY DEF Check, chan, loop, line, hist
<1>2. Moving' = Moving /\ Ahead' = Ahead
  BY <1>1 DEF Moving, Ahead
<1>3. AllNumbered'
  BY <1>1, <1>2 DEF AnswerInv, AllNumbered, Numbered
<1>4. Late'
  BY <1>1, <1>2 DEF AnswerInv, Late, Within
<1>5. Prompt'
  BY <1>1, <1>2 DEF AnswerInv, Prompt
<1>6. Confirmed'
  <2> SUFFICES ASSUME rc', Trusted PROVE rsp # <<>> /\ rsp[1].call = call.no
    BY <1>1 DEF Confirmed, Trusted
  <2>1. /\ Len(rsp) = 2 /\ (backend = "tcp" => req.tid = rsp[1].tid)
    BY <1>1 DEF check_confirmation, Whole, pre_check_confirmation
  <2>2. rsp \in Seq(Parts) /\ sent \in Nat /\ faults \in Nat /\ t_id \in Tids
    BY DEF MasterType, LineType, HistType, ChanType
  <2>3. rsp # <<>> /\ rsp[1] \in Parts /\ 1 \in 1..Len(rsp)
    BY <2>1, <2>2, EmptySeq, ElementOfSeq
  <2>4. /\ rsp[1].no \in Nat /\ rsp[1].tid \in Tids /\ Id(rsp[1]) \in On(rsp)
        /\ Id(rsp[1]).no = rsp[1].no /\ Id(rsp[1]).call = rsp[1].call
        /\ Id(rsp[1]).tid = rsp[1].tid
    BY <2>3 DEF Parts, On, Id
  <2>5. Numbered(Id(rsp[1]))
    BY <1>1, <2>4 DEF AnswerInv, AllNumbered
  <2>6. CASE backend = "tcp"
    <3>1. req.tid = t_id /\ sent - rsp[1].no <= faults /\ faults < TID_MOD
      BY <1>1, <2>3, <2>6 DEF AnswerInv, Confirmed, Late, Within, Trusted
    <3>2. sent - rsp[1].no < TID_MOD
      BY <2>2, <2>4, <3>1, RangeAssumption
    <3>3. \/ t_id - rsp[1].tid = sent - rsp[1].no
          \/ t_id - rsp[1].tid = sent - rsp[1].no - TID_MOD
      BY <2>4, <2>5, <2>6, <3>2 DEF Numbered
    <3>4. t_id - rsp[1].tid = 0
      BY <2>1, <2>2, <2>6, <3>1 DEF Tids
    <3>5. rsp[1].no = sent
      BY <2>2, <2>4, <3>2, <3>3, <3>4, RangeAssumption
    <3> QED BY <1>1, <2>3, <2>4, <2>5, <3>5 DEF Numbered
  <2>7. CASE backend # "tcp"
    <3>1. rsp[1].no = sent
      BY <1>1, <2>4, <2>7 DEF AnswerInv, Prompt, Trusted
    <3> QED BY <1>1, <2>3, <2>4, <2>5, <3>1 DEF Numbered
  <2> QED BY <2>6, <2>7
<1> QED BY <1>3, <1>4, <1>5, <1>6 DEF AnswerInv

LEMMA FlushAnswer ==
  ASSUME MasterType, AnswerInv, modbus_flush
  PROVE  AnswerInv'
<1>1. /\ pc = "flush" /\ pc' = "evaluate" /\ inq' = <<>>
      /\ overdue' = (overdue \/ todo # <<>> \/ out # <<>>)
      /\ UNCHANGED <<backend, t_id, call, req, rsp, rc, todo, out, broken, sent, faults>>
  BY DEF modbus_flush, chan, loop, attempt
<1>2. Moving' = Ahead /\ Ahead' = Ahead /\ Ahead \subseteq Moving
  BY <1>1, OnEmpty DEF Moving, Ahead
<1>3. AllNumbered'
  BY <1>1, <1>2 DEF AnswerInv, AllNumbered, Numbered
<1>4. Late'
  <2>1. Ordered(inq, out, todo) => Ordered(<<>>, out, todo)
    BY EmptySeq DEF Ordered
  <2> QED BY <1>1, <1>2, <2>1 DEF AnswerInv, Late, Within
<1>5. Prompt'
  BY <1>1 DEF Prompt
<1>6. Confirmed'
  BY <1>1 DEF AnswerInv, Confirmed, Trusted
<1> QED BY <1>3, <1>4, <1>5, <1>6 DEF AnswerInv

\* What the slave, the line and the network, or chan_start and chan_reset, do to the
\* line, in general.
LEMMA LineAnswer ==
  ASSUME MasterType, AnswerInv,
         UNCHANGED <<backend, t_id, call, req, rsp, rc, ret, sent, overdue>>,
         pc' = pc \/ {pc, pc'} \subseteq Opens \cup {"round"},
         faults' \in {faults, faults + 1},
         Moving' \subseteq Moving, Ahead' \subseteq Ahead,
         inq = <<>> /\ out = <<>> /\ todo = <<>> => inq' = <<>> /\ out' = <<>> /\ todo' = <<>>,
         backend = "tcp" =>
           /\ Ordered(inq', out', todo')
           /\ broken' => out' = <<>> /\ todo' = <<>>
           /\ \A p \in Parts : Before(p, inq, out, todo) => Before(p, inq', out', todo')
  PROVE  AnswerInv'
<1>0. /\ sent \in Nat /\ faults \in Nat /\ rsp \in Seq(Parts)
      /\ \A x \in Moving : x.no \in Nat
  BY MovingType DEF MasterType, HistType, LineType, Ids
<1>p. \/ pc' = pc
      \/ /\ pc \notin {"idle", "receive", "check", "flush", "evaluate", "undefined"}
         /\ pc' \notin {"idle", "receive", "check", "flush", "evaluate", "undefined"}
  BY DEF Opens
<1>1. AllNumbered'
  BY <1>p DEF AnswerInv, AllNumbered, Numbered, On
<1>2. Late'
  <2> SUFFICES ASSUME backend = "tcp" PROVE Late'
    BY DEF Late
  <2>1. ASSUME rsp # <<>> PROVE rsp[1] \in Parts /\ rsp[1].no \in Nat
    <3>1. rsp[1] \in Parts
      BY <1>0, <2>1, PartTaken
    <3> QED BY <3>1 DEF Parts
  <2>2. \A x \in Moving' : /\ pc' = "receive" => sent' - x.no <= faults'
                           /\ pc' \notin {"receive", "check", "flush", "undefined"} =>
                                sent' - x.no <= faults' - 1
    BY <1>p, <1>0 DEF AnswerInv, Late, Within
  <2>3. pc' \notin {"receive", "undefined"} => \A x \in Ahead' : sent' - x.no <= faults' - 1
    BY <1>p, <1>0, MovingType DEF AnswerInv, Late, Within
  <2>4. pc' = "receive" => Len(rsp') <= 1
    BY <1>p DEF AnswerInv, Late
  <2>5. pc' = "receive" /\ rsp' # <<>> => Before(rsp'[1], inq', out', todo')
    BY <1>p, <2>1 DEF AnswerInv, Late
  <2>6. pc' \in {"receive", "check"} /\ rsp' # <<>> => sent' - rsp'[1].no <= faults'
    BY <1>p, <1>0, <2>1 DEF AnswerInv, Late, Within
  <2> QED BY <2>2, <2>3, <2>4, <2>5, <2>6 DEF Late, Within
<1>3. Prompt'
  BY <1>p DEF AnswerInv, Prompt, On
<1>4. Confirmed'
  <2>1. Trusted' => Trusted
    BY <1>0, RangeAssumption DEF Trusted
  <2> QED BY <1>p, <2>1 DEF AnswerInv, Confirmed
<1> QED BY <1>1, <1>2, <1>3, <1>4 DEF AnswerInv

LEMMA WorldAnswer ==
  ASSUME MasterType, AnswerInv, SlaveAnswers \/ Arrive \/ LineFault \/ PeerCloses
  PROVE  AnswerInv'
<1>1. /\ UNCHANGED <<backend, t_id, call, pc, req, rsp, rc, ret, sent, overdue>>
      /\ faults' \in {faults, faults + 1}
  BY DEF SlaveAnswers, Arrive, LineFault, PeerCloses, Fault, chan, loop, attempt, hist
<1>2. /\ inq \in Seq(Parts) /\ out \in Seq(Parts) /\ todo \in Seq(Requests)
  BY DEF MasterType, LineType
<1>3. CASE SlaveAnswers
  <2>1. PICK e \in BOOLEAN :
          /\ todo # <<>> /\ todo' = Tail(todo) /\ UNCHANGED <<inq, broken>>
          /\ out' = out \o <<Part(Head(todo), 1, e), Part(Head(todo), 2, e)>>
    BY <1>3 DEF SlaveAnswers
  <2>2. /\ Part(Head(todo), 1, e) \in Parts /\ Part(Head(todo), 2, e) \in Parts
    BY <2>1, AnswerType
  <2>3. Id(Part(Head(todo), 1, e)) = Id(Head(todo)) /\ Id(Part(Head(todo), 2, e)) = Id(Head(todo))
    BY DEF Id, Part
  <2>4. On(out') = On(out) \cup {Id(Head(todo))}
    BY <1>2, <2>1, <2>2, <2>3, OnPair
  <2>5. On(todo') \subseteq On(todo) /\ Id(Head(todo)) \in On(todo)
    BY <1>2, <2>1, OnTail
  <2>6. Moving' \subseteq Moving /\ Ahead' \subseteq Ahead
    BY <2>1, <2>4, <2>5 DEF Moving, Ahead
  <2>7. backend = "tcp" =>
           /\ Ordered(inq', out', todo')
           /\ broken' => out' = <<>> /\ todo' = <<>>
           /\ \A p \in Parts : Before(p, inq, out, todo) => Before(p, inq', out', todo')
    BY <1>2, <2>1, OrderAnswer DEF AnswerInv, Late
  <2> QED BY <1>1, <2>1, <2>6, <2>7, LineAnswer
<1>4. CASE Arrive
  <2>1. /\ out # <<>> /\ out' = Tail(out) /\ inq' = Append(inq, Head(out)) /\ UNCHANGED <<todo, broken>>
    BY <1>4 DEF Arrive
  <2>2. /\ On(inq') = On(inq) \cup {Id(Head(out))}
        /\ On(out') \subseteq On(out) /\ Id(Head(out)) \in On(out)
    BY <1>2, <2>1, PartTaken, OnAppend, OnTail
  <2>3. Moving' \subseteq Moving /\ Ahead' \subseteq Ahead
    BY <2>1, <2>2 DEF Moving, Ahead
  <2>4. backend = "tcp" =>
           /\ Ordered(inq', out', todo')
           /\ broken' => out' = <<>> /\ todo' = <<>>
           /\ \A p \in Parts : Before(p, inq, out, todo) => Before(p, inq', out', todo')
    BY <1>2, <2>1, OrderArrive DEF AnswerInv, Late
  <2> QED BY <1>1, <2>1, <2>3, <2>4, LineAnswer
<1>5. CASE LineFault
  <2>1. /\ backend = "rtu" /\ UNCHANGED inq
        /\ \/ todo # <<>> /\ todo' = Tail(todo) /\ UNCHANGED out
           \/ out # <<>> /\ out' = Tail(out) /\ UNCHANGED todo
           \/ out # <<>> /\ UNCHANGED todo /\ out' = <<Damaged(Head(out))>> \o Tail(out)
    BY <1>5 DEF LineFault, Damaged
  <2>2. On(out') \subseteq On(out) /\ On(todo') \subseteq On(todo)
    BY <1>2, <2>1, OnTail, OnDamaged
  <2>3. Moving' \subseteq Moving /\ Ahead' \subseteq Ahead
    BY <2>1, <2>2 DEF Moving, Ahead
  <2> QED BY <1>1, <2>1, <2>3, LineAnswer
<1>6. CASE PeerCloses
  <2>1. todo' = <<>> /\ out' = <<>> /\ UNCHANGED inq
    BY <1>6 DEF PeerCloses
  <2>2. Moving' \subseteq Moving /\ Ahead' \subseteq Ahead
    BY <2>1, OnEmpty DEF Moving, Ahead
  <2>3. \A p : Before(p, inq, out, todo) => Before(p, inq, <<>>, <<>>)
    BY EmptySeq DEF Before
  <2>4. Ordered(inq, out, todo) => Ordered(inq, <<>>, <<>>)
    BY EmptySeq DEF Ordered
  <2> QED BY <1>1, <2>1, <2>2, <2>3, <2>4, LineAnswer DEF AnswerInv, Late
<1> QED BY <1>3, <1>4, <1>5, <1>6

\* A restart empties what arrived and, over TCP, the line.
LEMMA OpenAnswer ==
  ASSUME MasterType, AnswerInv, NEW t \in Threads, Open(t)
  PROVE  AnswerInv'
<1>1. /\ UNCHANGED <<backend, t_id, call, req, rsp, rc, ret, sent, overdue>>
      /\ (Fault \/ UNCHANGED faults) /\ OpensLine
      /\ pc' = pc \/ {pc, pc'} \subseteq Opens \cup {"round"}
  BY OpenEffect DEF attempt, loop
<1>2. faults' \in {faults, faults + 1}
  BY <1>1, FaultType DEF MasterType
<1>3. /\ (inq' = inq \/ inq' = <<>>) /\ (todo' = todo \/ todo' = <<>>)
      /\ (out' = out \/ out' = <<>>)
      /\ backend = "tcp" => \/ UNCHANGED <<todo, out>> /\ (broken' => broken)
                            \/ todo' = <<>> /\ out' = <<>> /\ inq' = <<>>
  BY <1>1 DEF OpensLine, line
<1>4. Moving' \subseteq Moving /\ Ahead' \subseteq Ahead
  BY <1>3, OnEmpty DEF Moving, Ahead
<1>5. ASSUME backend = "tcp"
      PROVE  /\ Ordered(inq', out', todo')
             /\ broken' => out' = <<>> /\ todo' = <<>>
             /\ \A p \in Parts : Before(p, inq, out, todo) => Before(p, inq', out', todo')
  <2>1. Ordered(inq, out, todo) /\ (broken => out = <<>> /\ todo = <<>>)
    BY <1>5 DEF AnswerInv, Late
  <2>2. broken' => out' = <<>> /\ todo' = <<>>
    BY <1>3, <1>5, <2>1
  <2>3. Ordered(inq', out', todo')
    BY <1>3, <1>5, <2>1, EmptySeq DEF Ordered
  <2>4. \A p \in Parts : Before(p, inq, out, todo) => Before(p, inq', out', todo')
    BY <1>3, EmptySeq DEF Before
  <2> QED BY <2>2, <2>3, <2>4
<1> QED BY <1>1, <1>2, <1>3, <1>4, <1>5, LineAnswer

\* chan_reset begins: only the fault is counted.
LEMMA ResetAnswer ==
  ASSUME MasterType, AnswerInv, chan_reset
  PROVE  AnswerInv'
<1>1. /\ UNCHANGED <<backend, t_id, call, pc, req, rsp, rc, ret, inq, todo, out, broken, sent, overdue>>
      /\ Fault
  BY DEF chan_reset, chan, loop, attempt, line
<1>2. faults' \in {faults, faults + 1}
  BY <1>1, FaultType DEF MasterType
<1>3. Moving' = Moving /\ Ahead' = Ahead
  BY <1>1 DEF Moving, Ahead
<1>4. backend = "tcp" =>
           /\ Ordered(inq', out', todo')
           /\ broken' => out' = <<>> /\ todo' = <<>>
           /\ \A p \in Parts : Before(p, inq, out, todo) => Before(p, inq', out', todo')
  BY <1>1 DEF AnswerInv, Late
<1> QED BY <1>1, <1>2, <1>3, <1>4, LineAnswer

LEMMA AnswerInit ==
  ASSUME Init
  PROVE  AnswerInv
<1>1. Moving = {} /\ Ahead = {} /\ On(rsp) = {}
  BY OnEmpty DEF Init, Moving, Ahead
<1>2. Ordered(inq, out, todo)
  BY EmptySeq DEF Init, Ordered
<1> QED BY <1>1, <1>2 DEF Init, AnswerInv, AllNumbered, Late, Prompt, Confirmed

LEMMA AnswerStep ==
  ASSUME MasterType, AnswerInv, [Next]_vars
  PROVE  AnswerInv'
<1>1. CASE UNCHANGED vars
  <2>1. UNCHANGED <<backend, t_id, call, pc, req, rsp, rc, ret, inq, todo, out, broken, sent,
                  faults, overdue>>
    BY <1>1 DEF vars, chan, loop, attempt, line, hist
  <2> QED BY <2>1 DEF AnswerInv, AllNumbered, Numbered, Late, Within, Prompt, Confirmed, Trusted,
                      Moving, Ahead, On
<1> QED BY <1>1, NextSplit, CallerAnswer, OpenAnswer, ResetAnswer, SendAnswer, ReceiveAnswer, TimeOutAnswer,
           CheckAnswer, FlushAnswer, WorldAnswer

\* A call of a function of chan.c that reports success was confirmed by an answer to
\* one of its own requests. Over TCP fewer than TID_MOD (2^16) faults are assumed, so that
\* t_id has not gone round while an answer was late; the RTU framings are covered as long
\* as no answer outlives its transaction.
THEOREM AnswerIsOwn == Spec => [](faults < TID_MOD => OwnAnswer)
<1>1. Init => MasterType /\ AnswerInv
  BY TypeInit, AnswerInit
<1>2. MasterType /\ AnswerInv /\ [Next]_vars => (MasterType /\ AnswerInv)'
  BY TypeStep, AnswerStep
<1>3. AnswerInv => (faults < TID_MOD => OwnAnswer)
  BY DEF AnswerInv, Confirmed, Trusted, OwnAnswer
<1> QED BY <1>1, <1>2, <1>3, PTL DEF Spec

-----------------------------------------------------------------------------
(* Recovery: a read with retry that no fault disturbs.                     *)

Recovering ==
  /\ clean /\ call.retry /\ call.fn \in Reads /\ call.nb <= MAX_NB
  /\ RETRY > 0 /\ RESTART > 1 /\ backend # "rtu_tcp"

\* Is there a channel on which an attempt succeeds?
Connected == ctx \in live /\ ~broken
Silent == inq = <<>> /\ out = <<>> /\ todo = <<>>

\* The answer to the request is on its way: at the slave, on the line, arrived or read.
Underway ==
  LET p1 == Part(req, 1, FALSE)
      p2 == Part(req, 2, FALSE)
  IN  \/ todo = <<req>> /\ out = <<>> /\ inq = <<>> /\ rsp = <<>>
      \/ todo = <<>> /\ out = <<p1, p2>> /\ inq = <<>> /\ rsp = <<>>
      \/ todo = <<>> /\ out = <<p2>> /\ inq = <<p1>> /\ rsp = <<>>
      \/ todo = <<>> /\ out = <<p2>> /\ inq = <<>> /\ rsp = <<p1>>
      \/ todo = <<>> /\ out = <<>> /\ inq = <<p1, p2>> /\ rsp = <<>>
      \/ todo = <<>> /\ out = <<>> /\ inq = <<p2>> /\ rsp = <<p1>>
Answered == rsp = <<Part(req, 1, FALSE), Part(req, 2, FALSE)>>

Recovers ==
  Recovering =>
    /\ faults = MaxFaults /\ reset = "none"
    /\ pc = "idle" => ret = "ok"
    /\ pc \in {"flush", "evaluate"} => IF Connected THEN rc ELSE ~rc
    /\ pc \in Opens => ~Connected /\ pc \notin {"drop", "forget"}
    /\ pc = "test" => ctx \in live
    /\ pc = "round" => Connected /\ Silent /\ restarts > 0
    /\ pc = "check" => Connected /\ Answered
    /\ pc = "receive" /\ Connected => Underway
    /\ pc \in {"build", "receive"} => held = ctx
    /\ pc \in {"attempt", "call", "build"} => Silent
    /\ pc = "attempt" /\ Connected => retries > 0
    /\ ~Connected /\ pc # "idle" => Silent /\ restarts > 0

RecoverInv == MasterType /\ AnswerInv /\ Recovers

\* The beginning of a call that is to recover.
LEMMA RecoverBegin ==
  ASSUME RecoverInv, Caller
  PROVE  Recovers'
<1> SUFFICES ASSUME Recovering' PROVE Recovers'
  BY DEF Recovers
<1>1. PICK fn \in Reads \cup Writes, nb \in Nat, retry \in BOOLEAN : Begins(fn, nb, retry)
  BY CallerBegins
<1>2. /\ call' = [no |-> call.no + 1, fn |-> fn, nb |-> nb, retry |-> retry]
      /\ clean' = AtRest /\ retries' = (IF retry THEN RETRY ELSE 0)
      /\ restarts' = (IF retry THEN RESTART - 1 ELSE 0)
      /\ UNCHANGED <<backend, ctx, live, reset, inq, todo, out, broken, faults>>
      /\ (pc' = "idle" /\ (retry /\ fn \in Reads => RESTART = 0)) \/ pc' = "attempt" \/ ~retry
  BY <1>1 DEF Begins, Begin, chan, line
<1>3. retry /\ fn \in Reads /\ AtRest /\ RETRY > 0 /\ RESTART > 1 /\ backend # "rtu_tcp"
  BY <1>2 DEF Recovering
<1>4. pc' = "attempt" /\ retries' > 0 /\ restarts' > 0
  BY <1>2, <1>3, TimesAssumption
<1>5. Silent' /\ faults' = MaxFaults /\ reset' = "none"
  BY <1>2, <1>3 DEF AtRest, Silent
<1> QED BY <1>4, <1>5 DEF Recovers, Opens

\* What a step after that cannot be, and what it cannot change.
LEMMA RecoverFrame ==
  ASSUME RecoverInv, [Next]_vars, ~Caller, Recovering'
  PROVE  /\ Recovering /\ faults = MaxFaults /\ faults' = faults /\ ~Fault
         /\ reset = "none" /\ reset' = "none" /\ ~Open("shm")
         /\ ~chan_reset /\ ~LineFault /\ ~PeerCloses
<1>1. UNCHANGED <<backend, call, clean>>
  <2>1. ASSUME NEW t \in Threads, Open(t) PROVE UNCHANGED <<backend, call, clean>>
    BY <2>1, OpenEffect DEF loop
  <2>2. CASE ~\E t \in Threads : Open(t)
    BY <2>2, NextSplit
       DEF TryAgain, SkipTries, TriesUsed, Return, Evaluate, NextRound, SetSlave, TooMany,
           SendMsg, SendFails, Send, UseAfterFree, Undefined, ReceivePart, ReceiveFails, Check,
           modbus_flush, chan_reset, SlaveAnswers, Arrive, LineFault, PeerCloses, vars, chan, loop, hist
  <2> QED BY <2>1, <2>2
<1>2. Recovering
  BY <1>1 DEF Recovering
<1>3. faults = MaxFaults /\ reset = "none"
  BY <1>2 DEF RecoverInv, Recovers
<1>4. ~Fault
  BY <1>3, CallBoundAssumption DEF Fault
<1>5. ~chan_reset /\ ~LineFault /\ ~PeerCloses
  BY <1>4 DEF chan_reset, LineFault, PeerCloses
<1>6. ~Open("shm")
  <2>1. Open("shm") => reset \in Opens
    BY OpenEffect DEF Threads
  <2> QED BY <1>3, <2>1 DEF Opens
<1>7. faults' = faults /\ reset' = reset
  <2>1. Open("caller") => faults' = faults /\ reset' = reset
    BY <1>4, OpenEffect DEF Threads
  <2>2. CASE ~\E t \in Threads : Open(t)
    BY <1>4, <1>5, <2>2, NextSplit
       DEF TryAgain, SkipTries, TriesUsed, Return, Evaluate, NextRound, SetSlave, TooMany,
           SendMsg, SendFails, Send, UseAfterFree, Undefined, ReceivePart, ReceiveFails, Check,
           modbus_flush, SlaveAnswers, Arrive, vars, hist
  <2> QED BY <1>6, <2>1, <2>2 DEF Threads
<1> QED BY <1>2, <1>3, <1>4, <1>5, <1>6, <1>7

LEMMA ShortQueues ==
  ASSUME NEW a, NEW b
  PROVE  /\ Len(<<>>) = 0 /\ Len(<<a>>) = 1
         /\ Head(<<a>>) = a /\ Tail(<<a>>) = <<>> /\ Head(<<a, b>>) = a /\ Tail(<<a, b>>) = <<b>>
         /\ Append(<<>>, a) = <<a>> /\ Append(<<a>>, b) = <<a, b>>
         /\ <<>> \o <<a, b>> = <<a, b>>
<1>1. Len(<<>>) = 0 /\ Len(<<a>>) = 1 /\ Head(<<a>>) = a /\ Head(<<a, b>>) = a
  OBVIOUS
<1>2. Tail(<<a>>) = <<>>
  OBVIOUS
<1>3. Tail(<<a, b>>) = <<b>>
  OBVIOUS
<1>4. Append(<<>>, a) = <<a>>
  OBVIOUS
<1>5. Append(<<a>>, b) = <<a, b>>
  <2>1. <<a>> \in Seq({a, b}) /\ <<a, b>> \in Seq({a, b}) /\ Len(<<a>>) = 1 /\ Len(<<a, b>>) = 2
    OBVIOUS
  <2>2. /\ Append(<<a>>, b) \in Seq({a, b}) /\ Len(Append(<<a>>, b)) = 2
        /\ Append(<<a>>, b)[1] = a /\ Append(<<a>>, b)[2] = b
    BY <2>1, AppendProperties
  <2>3. \A i \in 1..2 : Append(<<a>>, b)[i] = <<a, b>>[i]
    BY <2>2
  <2> QED BY <2>1, <2>2, <2>3, SeqEqual
<1>6. <<>> \o <<a, b>> = <<a, b>>
  BY ConcatEmptySeq
<1> QED BY <1>1, <1>2, <1>3, <1>4, <1>5, <1>6

LEMMA RecoverStep ==
  ASSUME RecoverInv, [Next]_vars
  PROVE  Recovers'
<1>1. CASE Caller
  BY <1>1, RecoverBegin
<1> SUFFICES ASSUME ~Caller, Recovering' PROVE Recovers'
  BY <1>1 DEF Recovers
<1>2. /\ Recovering /\ faults' = MaxFaults /\ faults' = faults /\ ~Fault
      /\ reset = "none" /\ reset' = "none" /\ ~Open("shm") /\ ~chan_reset /\ ~LineFault /\ ~PeerCloses
  BY RecoverFrame
<1>3. /\ pc = "idle" => ret = "ok"
      /\ pc \in {"flush", "evaluate"} => IF Connected THEN rc ELSE ~rc
      /\ pc \in Opens => ~Connected /\ pc \notin {"drop", "forget"}
      /\ pc = "test" => ctx \in live
      /\ pc = "round" => Connected /\ Silent /\ restarts > 0
      /\ pc = "check" => Connected /\ Answered
      /\ pc = "receive" /\ Connected => Underway
      /\ pc \in {"build", "receive"} => held = ctx
      /\ pc \in {"attempt", "call", "build"} => Silent
      /\ pc = "attempt" /\ Connected => retries > 0
      /\ ~Connected /\ pc # "idle" => Silent /\ restarts > 0
  BY <1>2 DEF RecoverInv, Recovers
<1>4. /\ call.retry /\ call.nb <= MAX_NB /\ RETRY > 0 /\ RESTART > 1 /\ backend # "rtu_tcp"
      /\ NULL \notin live /\ made + 1 # NULL
      /\ pc = "receive" => ~rc
  BY <1>2 DEF Recovering, RecoverInv, MasterType, ChanType, AnswerInv, Confirmed, NULL
<1>5. /\ call \in [no : Nat, fn : Fns, nb : Nat, retry : BOOLEAN] /\ retries \in Nat
      /\ restarts \in Int /\ req \in Requests /\ rc \in BOOLEAN /\ broken \in BOOLEAN
  BY DEF RecoverInv, MasterType, LoopType, LineType, HistType
<1>6. CASE TryAgain \/ SkipTries \/ TriesUsed \/ Evaluate \/ SetSlave
  <2>1. /\ UNCHANGED <<ctx, live, broken, inq, todo, out, restarts, rc>>
        /\ \/ pc = "attempt" /\ pc' = "call"
           \/ pc = "attempt" /\ pc' = "attempt" /\ ctx = NULL
           \/ pc = "attempt" /\ pc' = "start" /\ retries = 0
           \/ pc = "evaluate" /\ rc /\ pc' = "idle" /\ ret' = "ok"
           \/ pc = "evaluate" /\ ~rc /\ pc' = "attempt"
           \/ pc = "call" /\ pc' = "build" /\ held' = ctx
    BY <1>4, <1>6 DEF TryAgain, SkipTries, TriesUsed, Evaluate, Return, SetSlave, chan, line, loop, attempt
  <2>2. (Connected' <=> Connected) /\ (Silent' <=> Silent) /\ (ctx = NULL => ~Connected)
    BY <1>4, <2>1 DEF Connected, Silent
  <2> QED BY <1>2, <1>3, <2>1, <2>2 DEF Recovers, Opens
<1>7. CASE Open("caller")
  <2>0. "caller" \in Threads
    BY DEF Threads
  <2>1. /\ pc \in Opens /\ pc' \in Opens \cup {"round"} /\ UNCHANGED <<loop, rc, ret>>
        /\ OpensLine
    BY <1>7, <2>0, OpenEffect DEF attempt
  <2>2. ~Connected /\ Silent /\ restarts > 0 /\ restarts' > 0
    BY <1>3, <2>1 DEF Opens, loop
  <2>3. Silent'
    BY <2>1, <2>2 DEF OpensLine, Silent, line
  <2>4. CASE ConnectContext("caller")
    <3>1. ctx \in live /\ UNCHANGED <<ctx, live>> /\ pc' = "round" /\ broken' = FALSE
      BY <1>2, <2>4 DEF ConnectContext, Goto, Opened
    <3>2. Connected'
      BY <3>1 DEF Connected
    <3> QED BY <1>2, <2>2, <2>3, <3>1, <3>2 DEF Recovers, Opens
  <2>5. CASE NewContext("caller")
    <3>1. pc' = "test" /\ ctx' \in live' /\ broken' = TRUE
      BY <1>2, <2>5 DEF NewContext, Goto, Disconnected
    <3>2. ~Connected'
      BY <3>1 DEF Connected
    <3> QED BY <1>2, <2>2, <2>3, <3>1, <3>2 DEF Recovers, Opens
  <2>6. CASE TestContext("caller")
    <3>1. pc = "test" /\ pc' = IF ctx = NULL THEN "round" ELSE "connect"
      BY <2>6 DEF TestContext, At, Goto, Opened
    <3>2. UNCHANGED <<ctx, live, broken>>
      BY <2>6 DEF TestContext, line
    <3>3. pc' = "connect" /\ ~Connected'
      BY <1>3, <1>4, <2>2, <3>1, <3>2 DEF Connected
    <3> QED BY <1>2, <2>2, <2>3, <3>3 DEF Recovers, Opens
  <2>7. CASE LookAtContext("caller") \/ CloseContext("caller")
    <3>1. UNCHANGED <<ctx, live>> /\ pc' \in {"close", "new", "free"} /\ (broken' = TRUE \/ UNCHANGED broken)
      BY <2>7 DEF LookAtContext, CloseContext, Goto, line, Disconnected
    <3>2. ~Connected'
      BY <2>2, <3>1 DEF Connected
    <3> QED BY <1>2, <2>2, <2>3, <3>1, <3>2 DEF Recovers, Opens
  <2>8. CASE FreeContext("caller") \/ ClearContext("caller")
    <3>1. pc \notin {"drop", "forget"}
      BY <1>3, <2>1
    <3>2. /\ pc' \in {"clear", "new"} /\ UNCHANGED broken
          /\ \/ live' = live \ {ctx} /\ ctx' = ctx
             \/ ctx' = NULL /\ UNCHANGED live
      BY <2>8, <3>1 DEF FreeContext, ClearContext, At, Goto, line
    <3>3. ~Connected'
      BY <1>4, <3>2 DEF Connected
    <3> QED BY <1>2, <2>2, <2>3, <3>2, <3>3 DEF Recovers, Opens
  <2> QED BY <1>7, <2>4, <2>5, <2>6, <2>7, <2>8 DEF Open
<1>17. CASE NextRound
  <2>1. /\ pc = "round" /\ retries' = RETRY /\ UNCHANGED <<ctx, live, broken, inq, todo, out>>
        /\ pc' = "attempt" \/ restarts = 0
    BY <1>17 DEF NextRound, chan, line
  <2>2. Connected' /\ Silent' /\ pc' = "attempt"
    BY <1>3, <2>1 DEF Connected, Silent
  <2> QED BY <1>2, <1>4, <2>1, <2>2 DEF Recovers, Opens
<1>8. CASE TooMany
  BY <1>4, <1>5, <1>8, RangeAssumption DEF TooMany
<1>9. CASE UseAfterFree
  <2>1. pc' = "undefined" /\ pc # "idle" /\ UNCHANGED <<ctx, live, broken, inq, todo, out, restarts>>
    BY <1>2, <1>9 DEF UseAfterFree, Undefined, At, chan, line, loop
  <2>2. (Connected' <=> Connected) /\ (Silent' <=> Silent)
    BY <2>1 DEF Connected, Silent
  <2> QED BY <1>2, <1>3, <2>1, <2>2 DEF Recovers, Opens
<1>10. CASE SendMsg \/ SendFails
  <2>1. PICK a \in BOOLEAN :
          /\ Send(a)
          /\ (pc' = "receive" /\ a = ~broken) \/ (pc' = "flush" /\ a = FALSE /\ broken)
    BY <1>2, <1>5, <1>10 DEF SendMsg, SendFails
  <2>2. /\ pc = "build" /\ held \in live /\ held' = held /\ rc' = FALSE
        /\ todo' = IF a THEN Append(todo, req') ELSE todo
        /\ rsp' = <<>> /\ UNCHANGED <<ctx, live, restarts, inq, out, broken>>
    BY <2>1 DEF Send, loop
  <2>3. ctx \in live /\ Silent /\ (Connected' <=> Connected) /\ (Connected <=> ~broken)
    BY <1>3, <1>4, <2>2 DEF Connected
  <2>4. CASE a
    <3>1. todo' = <<req'>> /\ out' = <<>> /\ inq' = <<>> /\ pc' = "receive"
      BY <2>1, <2>2, <2>3, <2>4 DEF Silent
    <3>2. Underway' /\ Connected'
      BY <2>1, <2>2, <2>3, <2>4, <3>1 DEF Underway
    <3>3. held' = ctx'
      BY <1>3, <2>2
    <3> QED BY <1>2, <3>1, <3>2, <3>3 DEF Recovers, Opens
  <2>5. CASE ~a
    <3>1. Silent' /\ ~Connected' /\ broken'
      BY <1>5, <2>1, <2>2, <2>3, <2>5 DEF Silent
    <3>2. restarts' > 0
      BY <1>3, <2>2, <2>3, <3>1
    <3>3. held' = ctx'
      BY <1>3, <2>2
    <3>4. pc' = "receive" \/ pc' = "flush"
      BY <2>1
    <3>5. ~rc'
      BY <2>2
    <3> QED BY <1>2, <3>1, <3>2, <3>3, <3>4, <3>5 DEF Recovers, Opens
  <2> QED BY <2>4, <2>5
<1>11. CASE ReceivePart
  <2>1. /\ pc = "receive" /\ inq # <<>> /\ rsp' = Append(rsp, Head(inq)) /\ inq' = Tail(inq)
        /\ UNCHANGED <<ctx, live, held, req, todo, out, broken>>
        /\ \/ Len(rsp) = 1 /\ pc' = "check"
           \/ Len(rsp) = 0 /\ pc' = "receive"
           \/ Len(rsp) = 0 /\ Head(inq).part = 2 /\ pc' = "check"
    BY <1>11 DEF ReceivePart, chan
  <2>2. Connected /\ Underway /\ Connected'
    BY <1>3, <2>1 DEF Silent, Connected
  <2>3. PICK p1, p2 : p1 = Part(req, 1, FALSE) /\ p2 = Part(req, 2, FALSE)
    OBVIOUS
  <2>4. p1.part # 2 /\ Part(req', 1, FALSE) = p1 /\ Part(req', 2, FALSE) = p2
    BY <2>1, <2>3 DEF Part
  <2>5. \/ todo = <<>> /\ out = <<p2>> /\ inq = <<p1>> /\ rsp = <<>>
        \/ todo = <<>> /\ out = <<>> /\ inq = <<p1, p2>> /\ rsp = <<>>
        \/ todo = <<>> /\ out = <<>> /\ inq = <<p2>> /\ rsp = <<p1>>
    BY <2>1, <2>2, <2>3 DEF Underway
  <2>6. \/ pc' = "receive" /\ todo' = <<>> /\ out' = <<p2>> /\ inq' = <<>> /\ rsp' = <<p1>>
        \/ pc' = "receive" /\ todo' = <<>> /\ out' = <<>> /\ inq' = <<p2>> /\ rsp' = <<p1>>
        \/ pc' = "check" /\ rsp' = <<p1, p2>>
    <3>1. CASE todo = <<>> /\ out = <<p2>> /\ inq = <<p1>> /\ rsp = <<>>
      BY <2>1, <2>4, <3>1, ShortQueues
    <3>2. CASE todo = <<>> /\ out = <<>> /\ inq = <<p1, p2>> /\ rsp = <<>>
      BY <2>1, <2>4, <3>2, ShortQueues
    <3>3. CASE inq = <<p2>> /\ rsp = <<p1>>
      BY <2>1, <3>3, ShortQueues
    <3> QED BY <2>5, <3>1, <3>2, <3>3
  <2>7. \/ pc' = "receive" /\ Underway'
        \/ pc' = "check" /\ Answered'
    BY <2>4, <2>6 DEF Underway, Answered
  <2> QED BY <1>2, <1>3, <2>1, <2>2, <2>7 DEF Recovers, Opens
<1>12. CASE ReceiveFails
  <2>1. /\ pc = "receive" /\ pc' = "flush" /\ inq = <<>> /\ todo = <<>> /\ out = <<>>
        /\ UNCHANGED <<ctx, live, broken, inq, todo, out, restarts, rc>>
    BY <1>2, <1>12 DEF ReceiveFails, chan, line, loop, attempt
  <2>2. ~Connected
    BY <1>3, <2>1 DEF Underway
  <2>3. ~Connected' /\ Silent'
    BY <2>1, <2>2 DEF Connected, Silent
  <2> QED BY <1>2, <1>3, <1>4, <2>1, <2>2, <2>3 DEF Recovers, Opens
<1>13. CASE Check
  <2>1. /\ pc = "check" /\ pc' = "flush" /\ rc' = check_confirmation(req, rsp)
        /\ UNCHANGED <<ctx, live, broken>>
    BY <1>13 DEF Check, chan, line
  <2>2. Connected /\ Answered /\ Connected'
    BY <1>3, <2>1 DEF Connected
  <2>3. PICK p1, p2 : p1 = Part(req, 1, FALSE) /\ p2 = Part(req, 2, FALSE)
    OBVIOUS
  <2>4. /\ p1.part = 1 /\ p2.part = 2 /\ p1.no = p2.no /\ p1.bad = FALSE /\ p2.bad = FALSE
        /\ p1.exception = FALSE /\ p1.tid = req.tid /\ p1.fn = req.fn /\ p1.nb = req.nb
    BY <2>3 DEF Part
  <2>5. Len(rsp) = 2 /\ rsp[1] = p1 /\ rsp[2] = p2
    BY <2>2, <2>3 DEF Answered
  <2>6. check_confirmation(req, rsp)
    BY <2>4, <2>5 DEF check_confirmation, Whole, pre_check_confirmation
  <2> QED BY <1>2, <2>1, <2>2, <2>6 DEF Recovers, Opens
<1>14. CASE modbus_flush
  <2>1. /\ pc = "flush" /\ pc' = "evaluate" /\ inq' = <<>>
        /\ UNCHANGED <<ctx, live, broken, todo, out, restarts, rc>>
    BY <1>14 DEF modbus_flush, chan, loop, attempt
  <2>2. (Connected' <=> Connected) /\ (Silent => Silent')
    BY <2>1 DEF Connected, Silent
  <2> QED BY <1>2, <1>3, <2>1, <2>2 DEF Recovers, Opens
<1>15. CASE SlaveAnswers \/ Arrive
  <2>1. /\ UNCHANGED <<pc, ctx, live, held, broken, restarts, retries, rc, ret, req, rsp>> /\ ~Silent
        /\ \/ /\ todo # <<>> /\ todo' = Tail(todo) /\ UNCHANGED inq
              /\ out' = out \o <<Part(Head(todo), 1, FALSE), Part(Head(todo), 2, FALSE)>>
           \/ out # <<>> /\ out' = Tail(out) /\ inq' = Append(inq, Head(out)) /\ UNCHANGED todo
    BY <1>2, <1>15 DEF SlaveAnswers, Arrive, chan, loop, attempt, Silent
  <2>2. (Connected' <=> Connected) /\ (Connected \/ pc = "idle") /\ pc \notin {"attempt", "call", "build", "round"} \cup Opens
        /\ (Answered' <=> Answered)
    BY <1>3, <2>1 DEF Connected, Answered, Opens
  <2>3. ASSUME pc = "receive" PROVE Underway'
    <3>1. PICK p1, p2 : p1 = Part(req, 1, FALSE) /\ p2 = Part(req, 2, FALSE)
      OBVIOUS
    <3>2. Part(req', 1, FALSE) = p1 /\ Part(req', 2, FALSE) = p2
      BY <2>1, <3>1
    <3>3. \/ todo = <<req>> /\ out = <<>> /\ inq = <<>> /\ rsp = <<>>
          \/ todo = <<>> /\ out = <<p1, p2>> /\ inq = <<>> /\ rsp = <<>>
          \/ todo = <<>> /\ out = <<p2>> /\ inq = <<p1>> /\ rsp = <<>>
          \/ todo = <<>> /\ out = <<p2>> /\ inq = <<>> /\ rsp = <<p1>>
          \/ todo = <<>> /\ out = <<>> /\ inq = <<p1, p2>> /\ rsp = <<>>
          \/ todo = <<>> /\ out = <<>> /\ inq = <<p2>> /\ rsp = <<p1>>
      BY <1>3, <2>2, <2>3, <3>1 DEF Underway
    <3>4. \/ todo' = <<>> /\ out' = <<p1, p2>> /\ inq' = <<>> /\ rsp' = <<>>
          \/ todo' = <<>> /\ out' = <<p2>> /\ inq' = <<p1>> /\ rsp' = <<>>
          \/ todo' = <<>> /\ out' = <<>> /\ inq' = <<p1, p2>> /\ rsp' = <<>>
          \/ todo' = <<>> /\ out' = <<>> /\ inq' = <<p2>> /\ rsp' = <<p1>>
      <4>1. CASE todo = <<req>> /\ out = <<>> /\ inq = <<>> /\ rsp = <<>>
        <5>1. /\ Head(todo) = req /\ Tail(todo) = <<>> /\ todo # <<>>
              /\ <<>> \o <<p1, p2>> = <<p1, p2>>
          BY <4>1, ShortQueues
        <5>2. /\ todo' = Tail(todo) /\ UNCHANGED <<inq, rsp>>
              /\ out' = out \o <<Part(Head(todo), 1, FALSE), Part(Head(todo), 2, FALSE)>>
          BY <2>1, <4>1
        <5> QED BY <3>1, <4>1, <5>1, <5>2
      <4>2. CASE todo = <<>> /\ out = <<p1, p2>> /\ inq = <<>> /\ rsp = <<>>
        BY <2>1, <4>2, ShortQueues
      <4>3. CASE todo = <<>> /\ out = <<p2>> /\ inq = <<p1>> /\ rsp = <<>>
        BY <2>1, <4>3, ShortQueues
      <4>4. CASE todo = <<>> /\ out = <<p2>> /\ inq = <<>> /\ rsp = <<p1>>
        BY <2>1, <4>4, ShortQueues
      <4>5. ~(todo = <<>> /\ out = <<>>)
        BY <2>1
      <4> QED BY <3>3, <4>1, <4>2, <4>3, <4>4, <4>5
    <3> QED BY <3>2, <3>4 DEF Underway
  <2> QED BY <1>2, <1>3, <2>1, <2>2, <2>3 DEF Recovers
<1>16. CASE UNCHANGED vars
  <2>1. UNCHANGED <<ctx, live, held, pc, retries, restarts, req, rsp, rc, ret, inq, todo, out, broken>>
    BY <1>16 DEF vars, chan, loop, attempt, line, hist
  <2>2. (Connected' <=> Connected) /\ (Silent' <=> Silent) /\ (Underway' <=> Underway) /\ (Answered' <=> Answered)
    BY <2>1 DEF Connected, Silent, Underway, Answered
  <2> QED BY <1>2, <1>3, <2>1, <2>2 DEF Recovers
<1> QED BY <1>2, <1>6, <1>7, <1>8, <1>9, <1>10, <1>11, <1>12, <1>13, <1>14, <1>15, <1>16,
           <1>17, NextSplit DEF Threads

\* A read with retry that starts with the line at rest and no fault to come succeeds, even
\* on a channel that is down or whose peer has closed it: the attempts of the first round
\* fail, chan_start brings up another context, and the first attempt on it is answered.
THEOREM ReadsAlwaysRecover == Spec => []ReadsRecover
<1>1. Init => RecoverInv
  <2> SUFFICES ASSUME Init PROVE RecoverInv
    OBVIOUS
  <2>1. Recovers
    BY DEF Init, Recovers, Recovering
  <2> QED BY <2>1, TypeInit, AnswerInit DEF RecoverInv
<1>2. RecoverInv /\ [Next]_vars => RecoverInv'
  BY TypeStep, AnswerStep, RecoverStep DEF RecoverInv
<1>3. RecoverInv => ReadsRecover
  BY DEF RecoverInv, Recovers, Recovering, ReadsRecover
<1> QED BY <1>1, <1>2, <1>3, PTL DEF Spec
=============================================================================
