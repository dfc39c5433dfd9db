---------------------------- MODULE MCPahoSession ----------------------------
(* Instance of PahoSession: the clean session without persistence that     *)
(* mqtt.c asks for, and a kept session with persistence.                   *)
EXTENDS PahoSession

AllModes == {[clean |-> TRUE, persist |-> FALSE], [clean |-> FALSE, persist |-> TRUE]}
SmallLoads == {<<2, 0>>, <<1, 1>>, <<0, 2>>}
=============================================================================
