------------------------------- MODULE MCMqtt -------------------------------
(* What the cloud sends to the device in the runs of Mqtt.                 *)
EXTENDS Mqtt

NoMsgs == <<>>
SetOnly == <<"set">>
SubThenBad == <<"sub", "bad">>
=============================================================================
