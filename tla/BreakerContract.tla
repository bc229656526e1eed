------------------------- MODULE BreakerContract -------------------------
(***************************************************************************)
(* A circuit breaker as resilience.rs documents it: Threshold consecutive  *)
(* failures trip it; tripped, it refuses every call until Cooldown has     *)
(* passed, and nothing else ends that time; then it lets a single probe    *)
(* through, whose success closes it and whose failure trips it again.      *)
(* What a call that was admitted before the trip does later is of no       *)
(* consequence.  The state changes when the time is over, not when         *)
(* somebody asks.                                                          *)
(***************************************************************************)
EXTENDS Naturals

CONSTANTS Callers,    \* tasks sharing the breaker
          Threshold,  \* consecutive failures that stop the traffic
          Cooldown    \* ticks without traffic before the probe

VARIABLES mode,       \* "Closed", "Open" or "HalfOpen"
          streak,     \* consecutive failures while closed
          rested,     \* ticks since the trip
          verdict     \* per caller: "busy", or how its last call ended

vars == <<mode, streak, rested, verdict>>

Init ==
  /\ mode = "Closed"
  /\ streak = 0
  /\ rested = 0
  /\ verdict = [c \in Callers |-> "none"]

Busy(c)   == verdict[c] = "busy"
Say(c, v) == verdict' = [verdict EXCEPT ![c] = v]

Admits ==
  \/ mode = "Closed"
  \/ mode = "HalfOpen" /\ \A c \in Callers : ~Busy(c)

Begin(c) ==
  /\ ~Busy(c) /\ Admits
  /\ Say(c, "busy")
  /\ UNCHANGED <<mode, streak, rested>>

Refuse(c) ==
  /\ ~Busy(c) /\ ~Admits
  /\ Say(c, "refused")
  /\ UNCHANGED <<mode, streak, rested>>

Close == mode' = "Closed" /\ streak' = 0 /\ rested' = 0
Trip  == mode' = "Open"   /\ streak' = 0 /\ rested' = 0

GoodOutcome(c) ==
  /\ Busy(c)
  /\ Say(c, "good")
  /\ IF mode = "Open" THEN UNCHANGED <<mode, streak, rested>> ELSE Close

BadOutcome(c) ==
  /\ Busy(c)
  /\ Say(c, "bad")
  /\ \/ mode = "Open" /\ UNCHANGED <<mode, streak, rested>>
     \/ mode = "HalfOpen" /\ Trip
     \/ mode = "Closed" /\ streak + 1 = Threshold /\ Trip
     \/ /\ mode = "Closed" /\ streak + 1 < Threshold
        /\ streak' = streak + 1
        /\ UNCHANGED <<mode, rested>>

\* A caller that goes away leaves no outcome behind.
NoOutcome(c) ==
  /\ Busy(c)
  /\ Say(c, "none")
  /\ UNCHANGED <<mode, streak, rested>>

Rest ==
  /\ mode = "Open"
  /\ rested' = rested + 1
  /\ mode' = IF rested + 1 = Cooldown THEN "HalfOpen" ELSE "Open"
  /\ UNCHANGED <<streak, verdict>>

Next ==
  \/ Rest
  \/ \E c \in Callers :
       \/ Begin(c) \/ Refuse(c)
       \/ GoodOutcome(c) \/ BadOutcome(c) \/ NoOutcome(c)

Spec == Init /\ [][Next]_vars
=============================================================================
