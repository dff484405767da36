------------------------------ MODULE Notifier ------------------------------
(***************************************************************************)
(* internal/alert: DispatchThreat records the alert and sends it unless     *)
(* there were too many in the last minute. The record is made under a mutex *)
(* and is one step; alerts that are not sent are recorded like the others.  *)
(***************************************************************************)
EXTENDS Clock, FiniteSets

CONSTANTS
    Alerts,     \* the threats that are dispatched, each once
    MaxAlerts   \* five

ASSUME NotifierConstants == MaxAlerts \in Nat \ {0}

VARIABLES
    alertTimes,     \* the alerts whose times are kept
    at,             \* when an alert came, Never if it has not
    sent            \* the alerts that went to the channels

notifierVars == <<alertTimes, at, sent>>

NotifierInit == alertTimes = {} /\ at = [a \in Alerts |-> Never] /\ sent = {}

\* t.After(cutoff), the alerts younger than a minute; and the new one.
RecentLoosely(a) == {b \in alertTimes : at[b] + Minute > now + 1} \cup {a}
Recent(a) == {b \in alertTimes : at[b] + Minute > now} \cup {a}

Throttled(a) == Cardinality(Recent(a)) > MaxAlerts

DispatchThreat(a) ==
    /\ at[a] = Never
    /\ at' = [at EXCEPT ![a] = now]
    /\ alertTimes' = Recent(a)
    /\ sent' = IF Throttled(a) THEN sent ELSE sent \cup {a}

-----------------------------------------------------------------------------
(* Properties *)

Came == {a \in Alerts : at[a] # Never}
InLastMinute(alerts, t) == {a \in alerts : t - Minute < at[a] /\ at[a] <= t}

\* A flood is cut: no minute, wherever it begins, sees more than MaxAlerts
\* messages. And an alert is only kept back when, with itself, more than that
\* many came within a minute, sent or not.
FloodIsCut ==
    /\ \A t \in Times : Cardinality(InLastMinute(sent, t)) <= MaxAlerts
    /\ \A a \in Came \ sent : Cardinality(InLastMinute(Came, at[a])) > MaxAlerts
=============================================================================
