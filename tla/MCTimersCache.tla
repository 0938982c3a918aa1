--------------------------- MODULE MCTimersCache ---------------------------
(* TimersCache on small instances: one-shot timers of different durations   *)
(* and a repeatable timer.                                                 *)
EXTENDS TimersCache

CONSTANTS oneShot, delayed, periodic

AllTimers == {oneShot, delayed, periodic}
TwoTimers == {delayed, periodic}
MCDuration == [t \in Timer |-> CASE t = oneShot -> 0 [] t = delayed -> 1 [] t = periodic -> 0]
MCRepeatable == {periodic}
============================================================================
