------------------------------- MODULE Clock --------------------------------
(* The clock that the limiter and the notifier read. *)
EXTENDS Integers

CONSTANTS
    Minute,     \* ticks in a minute
    MaxTime     \* bound: the last reading

ASSUME ClockConstants == Minute \in Nat \ {0} /\ MaxTime \in Nat

VARIABLE now

Times == 0..MaxTime
Never == -1     \* no reading

Tick == now < MaxTime /\ now' = now + 1
=============================================================================
