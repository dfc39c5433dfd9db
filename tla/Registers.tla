----------------------------- MODULE Registers -----------------------------
(***************************************************************************)
(* The quantities of the simulated converter (MDL.uab ... MDL.ic) as two   *)
(* parties change them: the Modbus master, through the holding registers   *)
(* of platform/device/chan/mbs.c and the function handlers of              *)
(* component/freemodbus/modbus/functions/mbfuncholding.c, and the cloud,   *)
(* with its "set uab" command (appl/cloud.c).  The Modbus thread and the   *)
(* application thread share MDL without a lock, so every access to a       *)
(* quantity is an action of its own.                                       *)
(*                                                                         *)
(* A quantity is a double.  It is kept here as an integer in units of 1/20 *)
(* so that there are values between two tenths: a register holds tenths,   *)
(* MDL.x * 10 converted to USHORT, and n / 10.0 going back.  For n below   *)
(* 2^16 the doubles (n / 10.0) * 10 and n are the same number, so nothing  *)
(* else is lost.  The conversion of a number that is no USHORT after its   *)
(* fraction is cut off is undefined: any value may come out of it.         *)
(***************************************************************************)
EXTENDS Integers, Sequences

CONSTANTS Fields,     \* the quantities, in the order of on_03 and on_06
          Reg,        \* the register of each: 0x6020-22 and 0x6026-28
          MDLInit,    \* the quantities set by main.c
          NREGS,      \* REG_HOLDING_NREGS: 0x6200
          REG,        \* values of a USHORT: 2^16
          BYTE,       \* values of a UCHAR: 2^8
          READ_MAX,   \* MB_PDU_FUNC_READ_REGCNT_MAX: 0x7D
          WRITE_MAX,  \* MB_PDU_FUNC_WRITE_MUL_REGCNT_MAX: 0x78
          Addresses,  \* model: the register addresses a master uses
          Counts,     \* model: the register counts it asks for
          Lengths,    \* model: the lengths of its requests without address and CRC
          ByteCounts, \* model: the byte counts it writes into function 16
          Values,     \* model: the register values it writes or the buffer holds
          Params,     \* model: the values of "set uab"
          MaxRegRequests, \* bound: requests of the master
          MaxSets     \* bound: commands of the cloud

Names == {Fields[i] : i \in 1..Len(Fields)}

ASSUME FieldAssumption == /\ Fields \in Seq(Names) /\ "uab" \in Names
                          /\ \A i, j \in 1..Len(Fields) : Fields[i] = Fields[j] => i = j
ASSUME RegAssumption == /\ NREGS \in Nat /\ REG \in Nat \ {0} /\ BYTE \in Nat \ {0}
                        /\ Reg \in [Names -> 0..(NREGS - 1)]
                        /\ \A f, g \in Names : Reg[f] = Reg[g] => f = g
ASSUME MaxAssumption == READ_MAX \in Nat /\ WRITE_MAX \in Nat
ASSUME OpsAssumption == MaxRegRequests \in Nat /\ MaxSets \in Nat
ASSUME InputAssumption == /\ Addresses \subseteq Nat /\ Counts \subseteq Nat
                          /\ Values \subseteq 0..(REG - 1)
                          /\ Lengths \subseteq Nat /\ ByteCounts \subseteq Nat
                          /\ Params \subseteq Int /\ MDLInit \in [Names -> Int]

VARIABLES rpc,                \* where the Modbus thread is
          usAddress, usNRegs, \* arguments of eMBRegHoldingCB
          left,               \* fields on_03 or on_06 has still to copy
          usHoldingRegisters,
          reply,              \* the answer: registers, or an exception
          MDL,                \* the quantities
          known,              \* history: what a read may report for each register
          kept,               \* history: what it may report after the next write
          span,               \* history: what the read under way may report
          requests, sets      \* bound: operations so far

modbus == <<rpc, usAddress, usNRegs, left, reply>>
reghist == <<known, kept, span>>
regvars == <<modbus, usHoldingRegisters, MDL, reghist, requests, sets>>

Register == 0..(NREGS - 1)

Word == 0..(REG - 1)

\* What (USHORT)(MDL.x * 10) may be, and usHoldingRegisters[...] / 10.0.
MutToReg(q) == IF -2 < q /\ q < 2 * REG THEN {IF q < 0 THEN 0 ELSE (q + 1) \div 2} ELSE Word
ToReg(q) == IF -2 < q /\ q < 2 * REG THEN {IF q < 0 THEN 0 ELSE q \div 2} ELSE Word
MutFromReg(r) == 20 * r
FromReg(r) == 2 * r

TypeOK == /\ rpc \in {"idle", "on_03", "read", "on_06"}
          /\ usAddress \in Nat /\ usNRegs \in Nat
          /\ left \in 0..Len(Fields)
          /\ usHoldingRegisters \in [Register -> Word]
          /\ reply \in [exception : {"NONE", "ILLEGAL_DATA_VALUE", "ILLEGAL_DATA_ADDRESS"},
                        regs : Seq(Word)]
          /\ MDL \in [Names -> Int]
          /\ known \in [Register -> SUBSET Word]
          /\ kept \in [Register -> SUBSET Word]
          /\ span \in [Register -> SUBSET Word]
          /\ requests \in 0..MaxRegRequests /\ sets \in 0..MaxSets
-----------------------------------------------------------------------------
\* The registers are a static array of zeros; main.c has set quantities.
RegInit == /\ rpc = "idle"
           /\ usAddress = 0 /\ usNRegs = 0
           /\ left = 0
           /\ usHoldingRegisters = [a \in Register |-> 0]
           /\ reply = [exception |-> "NONE", regs |-> <<>>]
           /\ MDL = MDLInit
           /\ known = [a \in Register |-> IF \E f \in Names : Reg[f] = a
                                            THEN ToReg(MDLInit[CHOOSE f \in Names : Reg[f] = a])
                                            ELSE {0}]
           /\ kept = [a \in Register |-> {0}]
           /\ span = known
           /\ requests = 0 /\ sets = 0

Answer(e, rs) == reply' = [exception |-> e, regs |-> rs]

\* The range check of eMBRegHoldingCB.
InRange(a, n) == a + n <= NREGS

\* A new request is executed: EV_EXECUTE of eMBPoll.
NewRequest == rpc = "idle" /\ requests < MaxRegRequests /\ requests' = requests + 1

Refuse(e) == Answer(e, <<>>) /\ UNCHANGED <<rpc, left, reghist>>

\* eMBFuncReadHoldingRegister: the two assignments to usRegCount keep the low
\* byte only.
eMBFuncReadHoldingRegister(a, c, usLen) ==
  LET usRegCount == c % BYTE
      valid == usLen = 5 /\ usRegCount \in 1..READ_MAX
  IN  /\ NewRequest
      /\ usAddress' = a /\ usNRegs' = usRegCount
      /\ CASE ~valid -> Refuse("ILLEGAL_DATA_VALUE")
           [] valid /\ ~InRange(a, usRegCount) -> Refuse("ILLEGAL_DATA_ADDRESS")
           [] OTHER -> /\ rpc' = "on_03" /\ left' = Len(Fields)
                       /\ span' = known
                       /\ UNCHANGED <<reply, known, kept>>
      /\ UNCHANGED <<usHoldingRegisters, MDL, sets>>

\* on_03_ReadMultipleHoldingRegisters: one quantity after the other.
Field == Fields[Len(Fields) - left + 1]

On03 == /\ rpc = "on_03"
        /\ left' = left - 1
        /\ rpc' = IF left = 1 THEN "read" ELSE rpc
        /\ \E r \in ToReg(MDL[Field]) :
             usHoldingRegisters' = [usHoldingRegisters EXCEPT ![Reg[Field]] = r]
        /\ UNCHANGED <<usAddress, usNRegs, reply, MDL, reghist, requests, sets>>

\* The registers are copied into the reply.
ReadReply == /\ rpc = "read"
             /\ rpc' = "idle"
             /\ Answer("NONE", [i \in 1..usNRegs |-> usHoldingRegisters[usAddress + i - 1]])
             /\ kept' = span
             /\ UNCHANGED <<usAddress, usNRegs, left, usHoldingRegisters, MDL, known, span,
                            requests, sets>>

\* The registers from a on with the values vs in place of the old ones.
Put(regs, a, vs) == [b \in Register |-> IF b \in a..(a + Len(vs) - 1) THEN vs[b - a + 1]
                                                                      ELSE regs[b]]

\* MB_REG_WRITE of eMBRegHoldingCB.
RegWrite(a, vs) ==
  /\ usAddress' = a /\ usNRegs' = Len(vs)
  /\ IF InRange(a, Len(vs))
       THEN /\ usHoldingRegisters' = Put(usHoldingRegisters, a, vs)
            /\ kept' = Put(kept, a, [i \in 1..Len(vs) |-> {vs[i]}])
            /\ known' = kept'
            /\ rpc' = "on_06" /\ left' = Len(Fields)
            /\ UNCHANGED <<reply, span>>
       ELSE Refuse("ILLEGAL_DATA_ADDRESS") /\ UNCHANGED usHoldingRegisters
  /\ UNCHANGED <<MDL, sets>>

RefuseWrite == /\ Refuse("ILLEGAL_DATA_VALUE")
               /\ UNCHANGED <<usAddress, usNRegs, usHoldingRegisters, MDL, sets>>

eMBFuncWriteHoldingRegister(a, v, usLen) ==
  NewRequest /\ IF usLen = 5 THEN RegWrite(a, <<v>>) ELSE RefuseWrite

\* buffer is what lies in the receive buffer where the values belong.  A frame
\* may end before them: no test of the code sees that, and what an earlier
\* frame or reply left there is written.
eMBFuncWriteMultipleHoldingRegister(a, n, usLen, ucRegByteCount, buffer) ==
  /\ NewRequest
  /\ IF usLen >= 6 /\ n \in 1..WRITE_MAX /\ ucRegByteCount = (2 * n) % BYTE
       THEN RegWrite(a, SubSeq(buffer, 1, n))
       ELSE RefuseWrite

\* on_06_WriteSingleHoldingRegister: every quantity is taken from its
\* register, whichever registers were written.
On06 == /\ rpc = "on_06"
        /\ left' = left - 1
        /\ MDL' = [MDL EXCEPT ![Field] = FromReg(usHoldingRegisters[Reg[Field]])]
        /\ IF left = 1 THEN rpc' = "idle" /\ Answer("NONE", <<>>)
                       ELSE UNCHANGED <<rpc, reply>>
        /\ UNCHANGED <<usAddress, usNRegs, usHoldingRegisters, reghist, requests,
                       sets>>
-----------------------------------------------------------------------------
(* The application thread.                                                 *)

\* cloud_proc_recv: {"cmd":"set uab", "param":p}.  A read under way may report
\* the quantity from before or after; a write under way may overwrite it.
SetUab(p) == /\ sets < MaxSets /\ sets' = sets + 1
             /\ MDL' = [MDL EXCEPT !["uab"] = p]
             /\ LET a == Reg["uab"]
                IN  /\ known' = [known EXCEPT ![a] = ToReg(p) \cup IF rpc = "on_06" THEN kept[a] ELSE {}]
                    /\ span' = [span EXCEPT ![a] = @ \cup ToReg(p)]
             /\ UNCHANGED <<modbus, usHoldingRegisters, kept, requests>>
-----------------------------------------------------------------------------
RegNext == \/ \E a \in Addresses, c \in Counts, usLen \in Lengths :
                 eMBFuncReadHoldingRegister(a, c, usLen)
           \/ On03
           \/ ReadReply
           \/ \E a \in Addresses, v \in Values, usLen \in Lengths :
                 eMBFuncWriteHoldingRegister(a, v, usLen)
           \/ \E a \in Addresses, n \in Counts, usLen \in Lengths, bc \in ByteCounts,
                 buffer \in [1..WRITE_MAX -> Values] :
                 eMBFuncWriteMultipleHoldingRegister(a, n, usLen, bc, buffer)
           \/ On06
           \/ \E p \in Params : SetUab(p)

RegSpec == RegInit /\ [][RegNext]_regvars
-----------------------------------------------------------------------------
\* A read reports what the master last wrote to a register, or what the cloud
\* or main has set its quantity to since then.  A quantity that was set and not
\* read before any register was written goes back to what it was at the read
\* or write before: that, and nothing else, is lost.  No sequence of reads and
\* writes, in part racing with the cloud, makes a value drift, reach another
\* register or come back later.
ReadsKnown ==
  [][ReadReply => \A i \in 1..usNRegs : reply'.regs[i] \in span[usAddress + i - 1]]_regvars

=============================================================================
