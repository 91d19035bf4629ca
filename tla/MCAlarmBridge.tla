--------------------------- MODULE MCAlarmBridge ---------------------------
(* AlarmBridge on small queues: two copies of one alarm, a second alarm,    *)
(* and a message that is no alarm.                                          *)
EXTENDS AlarmBridge, TLC

CONSTANTS m1, m2, m3, a1, a2

QueueOfThree == (m1 :> a1) @@ (m2 :> a1) @@ (m3 :> a2)
QueueOfThreeNoise == (m1 :> a1) @@ (m2 :> a1) @@ (m3 :> NoAlarm)
=============================================================================
