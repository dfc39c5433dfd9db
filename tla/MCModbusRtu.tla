---------------------------- MODULE MCModbusRtu ----------------------------
(* Requests for the runs of ModbusRtu, scaled down: a frame has 2 to 4     *)
(* bytes instead of 4 to 256.  There is a request of the least and of the  *)
(* greatest size, a broadcast, one for another slave, one that is too long *)
(* and one that is too short.                                              *)
EXTENDS ModbusRtu

RequestSizes == [short |-> 1, least |-> 2, mid |-> 3, most |-> 4, bcast |-> 2, other |-> 2, long |-> 5]
AllKinds == DOMAIN RequestSizes
SizeOf == [k \in Kinds |-> RequestSizes[k]]
ReplySizeOf == [k \in Kinds |-> IF k = "most" THEN 3 ELSE 2]
AddrOf == [k \in Kinds |-> CASE k = "bcast" -> "broadcast"
                             [] k = "other" -> "other"
                             [] OTHER -> "own"]
=============================================================================
