------------------------------- MODULE Gates --------------------------------
(***************************************************************************)
(* What stands before the handlers and behind them, on one clock: the       *)
(* middleware of internal/api asks the limiter before it looks at the       *)
(* credentials, so that every request but OPTIONS takes a token; a scan     *)
(* that finds something raises an alert. gRPC streams and asynchronous jobs *)
(* raise alerts without having passed the limiter.                          *)
(***************************************************************************)
EXTENDS Limiter, Notifier

vars == <<now, limiterVars, notifierVars>>

Init == now = 0 /\ LimiterInit /\ NotifierInit

Request(k) == (Grant(k) \/ Deny(k)) /\ UNCHANGED <<now, notifierVars>>
Threat(a) == DispatchThreat(a) /\ UNCHANGED <<now, limiterVars>>
Wait == Tick /\ UNCHANGED <<limiterVars, notifierVars>>

Next == (\E k \in Keys : Request(k)) \/ (\E a \in Alerts : Threat(a)) \/ Wait
Spec == Init /\ [][Next]_vars
=============================================================================
