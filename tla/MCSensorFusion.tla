--------------------------- MODULE MCSensorFusion ---------------------------
(***************************************************************************)
(* SensorFusion with the connections of its run.                           *)
(***************************************************************************)
EXTENDS SensorFusion

\* EXTERN1 comes back after its first connection; EXTERN4 stays.
Reconnecting == {<<1, 1>>, <<1, 2>>, <<4, 1>>}

\* Bound: either a wakeup without a signal, or a second connection.
OneDisturbance == spurious = 0 \/ client[<<1, 2>>] = "out"
=============================================================================
