--------------------------- MODULE ScanJobContract ---------------------------
(***************************************************************************)
(* What the asynchronous scan API promises a consumer, with no queue, file  *)
(* or goroutine in sight: a job is accepted once, worked on once, decided   *)
(* once and for all, and a callback tells nothing but the decision.         *)
(***************************************************************************)
CONSTANTS Jobs

VARIABLES
    state,      \* what GET /api/v1/scan/jobs/{id} shows as status
    outcome,    \* and as verdict
    told        \* what callbacks have said: <<job, verdict>>

contractVars == <<state, outcome, told>>

CInit ==
    /\ state = [j \in Jobs |-> "none"]
    /\ outcome = [j \in Jobs |-> "none"]
    /\ told = {}

AcceptJob(j) ==
    /\ state[j] = "none"
    /\ state' = [state EXCEPT ![j] = "QUEUED"]
    /\ UNCHANGED <<outcome, told>>

BeginJob(j) ==
    /\ state[j] = "QUEUED"
    /\ state' = [state EXCEPT ![j] = "PROCESSING"]
    /\ UNCHANGED <<outcome, told>>

DecideJob(j, s, v) ==
    /\ state[j] = "PROCESSING"
    /\ s = "FAILED" <=> v = "ERROR"
    /\ state' = [state EXCEPT ![j] = s]
    /\ outcome' = [outcome EXCEPT ![j] = v]
    /\ UNCHANGED told

TellConsumer(j) ==
    /\ state[j] \in {"COMPLETED", "FAILED"}
    /\ told' = told \cup {<<j, outcome[j]>>}
    /\ UNCHANGED <<state, outcome>>

ContractNext ==
    \E j \in Jobs :
        \/ AcceptJob(j) \/ BeginJob(j) \/ TellConsumer(j)
        \/ \E s \in {"COMPLETED", "FAILED"}, v \in {"CLEAN", "INFECTED", "ERROR"} :
            DecideJob(j, s, v)

ContractSpec == CInit /\ [][ContractNext]_contractVars
=============================================================================
