------------------------- MODULE MCWatchdogSession -------------------------
(* Model checking the watchdog session; the constants are numbers.         *)
EXTENDS WatchdogSession
============================================================================
