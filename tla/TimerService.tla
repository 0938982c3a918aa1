--------------------------- MODULE TimerService ---------------------------
(***************************************************************************)
(* What the timers component promises to the code that registers timers    *)
(* (the module server's resend timers and the user's own timers):          *)
(*                                                                         *)
(*   - a timer in the service has an identifier that no other timer in     *)
(*     the service has;                                                    *)
(*   - a callback starts only after the timer is due, and only while the   *)
(*     timer is in the service;                                            *)
(*   - callbacks run one at a time, and no timer is removed or postponed   *)
(*     by another thread while one runs;                                   *)
(*   - a one-shot timer runs its callback at most once.                    *)
(*                                                                         *)
(* TimersCache implements this specification.  Threads, the lock, the      *)
(* condition variable and the ordering of the cache are not visible here.  *)
(***************************************************************************)
EXTENDS Integers

CONSTANTS Timer,        \* the timer objects
          Repeatable    \* the timers with setRepeatable(true)

VARIABLES now,          \* the clock
          phase,        \* phase[t]: where timer t is in its life
          id,           \* id[t]: the identifier t got when it was registered
          due           \* due[t]: when t expires

vars == <<now, phase, id, due>>

Phase == {"new", "pending", "firing", "done", "failed", "gone"}

\* The timers the service holds.
Live == {t \in Timer : phase[t] \notin {"new", "gone"}}

Idle == \A t \in Timer : phase[t] # "firing"

Init ==
    /\ now \in Nat
    /\ phase = [t \in Timer |-> "new"]
    /\ id = [t \in Timer |-> 0]
    /\ due = [t \in Timer |-> 0]

Move(t, to) == phase' = [phase EXCEPT ![t] = to]

Register(t) ==
    /\ phase[t] = "new"
    /\ Move(t, "pending")
    /\ id'[t] > 0
    /\ \A u \in Live : id'[t] # id[u]
    /\ id' = [id EXCEPT ![t] = id'[t]]
    /\ due' = [due EXCEPT ![t] = due'[t]]
    /\ UNCHANGED now

Remove(t) ==
    /\ Idle
    /\ t \in Live
    /\ Move(t, "gone")
    /\ UNCHANGED <<now, id, due>>

Postpone(t) ==
    /\ Idle
    /\ t \in Live
    /\ due'[t] >= due[t]
    /\ due' = [due EXCEPT ![t] = due'[t]]
    /\ UNCHANGED <<now, phase, id>>

Fire(t) ==
    /\ Idle
    /\ phase[t] = "pending"
    /\ due[t] < now
    /\ Move(t, "firing")
    /\ UNCHANGED <<now, id, due>>

Finish(t) ==
    /\ phase[t] = "firing"
    /\ Move(t, "done")
    /\ UNCHANGED <<now, id, due>>

\* The callback threw: the timer stays in the service and never fires again.
Fail(t) ==
    /\ phase[t] = "firing"
    /\ Move(t, "failed")
    /\ UNCHANGED <<now, id, due>>

\* Every repeatable timer that is done is armed again, not earlier than before.
Rearm ==
    /\ Idle
    /\ LET S == {t \in Repeatable : phase[t] = "done"}
       IN  /\ phase' = [t \in Timer |-> IF t \in S THEN "pending" ELSE phase[t]]
           /\ \A t \in S : due'[t] >= due[t]
           /\ due' = [t \in Timer |-> IF t \in S THEN due'[t] ELSE due[t]]
    /\ UNCHANGED <<now, id>>

\* Every one-shot timer that is done leaves the service.
Collect ==
    /\ Idle
    /\ phase' = [t \in Timer |->
                   IF t \notin Repeatable /\ phase[t] = "done" THEN "gone" ELSE phase[t]]
    /\ UNCHANGED <<now, id, due>>

Tick ==
    /\ now' = now + 1
    /\ UNCHANGED <<phase, id, due>>

Next ==
    \/ \E t \in Timer : \/ Register(t) \/ Remove(t) \/ Postpone(t)
                        \/ Fire(t) \/ Finish(t) \/ Fail(t)
    \/ Rearm
    \/ Collect
    \/ Tick

Spec == Init /\ [][Next]_vars
===========================================================================
