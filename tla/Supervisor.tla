----------------------------- MODULE Supervisor -----------------------------
(***************************************************************************)
(* internal/supervisor: two goroutines keep clamd and freshclam running,    *)
(* Stop ends them. They share the command fields without a lock.            *)
(***************************************************************************)
EXTENDS Naturals

Runners == {"clamd", "freshclam"}

VARIABLES
    rpc,        \* where runClamd and runFreshclam are
    field,      \* s.clamdCmd, s.freshclamCmd: "nil", "new" (its Process is nil), "started"
    alive,      \* the child of the last cmd.Start runs
    termed,     \* it was sent SIGTERM
    stopChan,   \* closed
    spc,        \* where Stop is
    racing,     \* runners that had passed their check when stopChan was closed
    late        \* starts after the close, counted up to two

children == <<field, alive, termed>>
supVars == <<rpc, children, stopChan, spc, racing, late>>

SupInit ==
    /\ rpc = [r \in Runners |-> "off"]
    /\ field = [r \in Runners |-> "nil"]
    /\ alive = [r \in Runners |-> FALSE] /\ termed = [r \in Runners |-> FALSE]
    /\ stopChan = FALSE /\ spc = "idle" /\ racing = {}
    /\ late = [r \in Runners |-> 0]

\* The go statements of Start; runFreshclam sleeps first.
StartRunners ==
    /\ rpc' = [r \in Runners |-> IF r = "clamd" THEN "check" ELSE "sleep"]
    /\ UNCHANGED <<children, stopChan, spc, racing, late>>

-----------------------------------------------------------------------------
(* runClamd, runFreshclam *)

Move(r, where) == rpc' = [rpc EXCEPT ![r] = where]

\* select on stopChan with a default.
NeverStopped == FALSE
Stopped == stopChan

CheckStop(r) ==
    /\ rpc[r] = "check"
    /\ Move(r, IF Stopped THEN "returned" ELSE "assign")
    /\ UNCHANGED <<children, stopChan, spc, racing, late>>

\* exec.Command, and the write of the field.
AssignCmd(r) ==
    /\ rpc[r] = "assign" /\ Move(r, "start")
    /\ field' = [field EXCEPT ![r] = "new"]
    /\ UNCHANGED <<alive, termed, stopChan, spc, racing, late>>

\* A failed start is tried again after a pause.
GiveUp == "returned"
AfterFailedStart == "sleep"
StartFails(r) ==
    /\ rpc[r] = "start" /\ Move(r, AfterFailedStart)
    /\ UNCHANGED <<children, stopChan, spc, racing, late>>

StartChild(r) ==
    /\ rpc[r] = "start" /\ Move(r, "wait")
    /\ field' = [field EXCEPT ![r] = "started"]
    /\ alive' = [alive EXCEPT ![r] = TRUE]
    /\ termed' = [termed EXCEPT ![r] = FALSE]
    /\ late' = IF stopChan /\ late[r] < 2 THEN [late EXCEPT ![r] = @ + 1] ELSE late
    /\ UNCHANGED <<stopChan, spc, racing>>

\* cmd.Wait returns; the select behind it.
Reap(r) ==
    /\ rpc[r] = "wait" /\ ~alive[r]
    /\ Move(r, IF Stopped THEN "returned" ELSE "sleep")
    /\ UNCHANGED <<children, stopChan, spc, racing, late>>

Wake(r) ==
    /\ rpc[r] = "sleep" /\ Move(r, "check")
    /\ UNCHANGED <<children, stopChan, spc, racing, late>>

Runner(r) == CheckStop(r) \/ AssignCmd(r) \/ StartFails(r) \/ StartChild(r) \/ Reap(r) \/ Wake(r)

\* A child ends, on its own accord or on the signal.
ChildEnds(r) ==
    /\ alive[r] /\ alive' = [alive EXCEPT ![r] = FALSE]
    /\ UNCHANGED <<rpc, field, termed, stopChan, spc, racing, late>>

-----------------------------------------------------------------------------
(* Stop. Each use of a field reads it again. *)

CloseStopChan ==
    /\ spc = "idle" /\ spc' = "look_clamd"
    /\ stopChan' = TRUE
    /\ racing' = {r \in Runners : rpc[r] \in {"assign", "start"}}
    /\ UNCHANGED <<rpc, children, late>>

AfterLook(r) == IF r = "clamd" THEN "signal_clamd" ELSE "signal_freshclam"
AfterSignal(r) == IF r = "clamd" THEN "look_freshclam" ELSE "returned"
Looking(r) == spc = (IF r = "clamd" THEN "look_clamd" ELSE "look_freshclam")
Signalling(r) == spc = AfterLook(r)

\* s.xCmd != nil && s.xCmd.Process != nil
LookAt(r) ==
    /\ Looking(r)
    /\ spc' = IF field[r] = "started" THEN AfterLook(r) ELSE AfterSignal(r)
    /\ UNCHANGED <<rpc, children, stopChan, racing, late>>

\* s.xCmd.Process.Signal. If the runner has assigned a new command since the
\* look, its Process is nil and the call panics. A dead child takes no signal.
SignalChild(r) ==
    /\ Signalling(r)
    /\ IF field[r] = "started"
       THEN spc' = AfterSignal(r) /\ termed' = [termed EXCEPT ![r] = alive[r]]
       ELSE spc' = "panicked" /\ UNCHANGED termed
    /\ UNCHANGED <<rpc, field, alive, stopChan, racing, late>>

-----------------------------------------------------------------------------
(* Properties *)

\* Every variable has its type.
RunnerPcs == {"off", "check", "assign", "start", "wait", "sleep", "returned"}
StopPcs ==
    {"idle", "look_clamd", "signal_clamd", "look_freshclam", "signal_freshclam",
     "returned", "panicked"}
SupTypeOK ==
    /\ rpc \in [Runners -> RunnerPcs]
    /\ field \in [Runners -> {"nil", "new", "started"}]
    /\ alive \in [Runners -> BOOLEAN] /\ termed \in [Runners -> BOOLEAN]
    /\ stopChan \in BOOLEAN /\ spc \in StopPcs
    /\ racing \in SUBSET Runners /\ late \in [Runners -> 0..2]

\* "Stop terminates clamd and freshclam child processes" (process.go:135), for
\* as much of it as unlocked fields allow. When Stop has returned, every child
\* that runs was sent SIGTERM, and no child is started any more: the exception
\* is a runner that was past its check when the channel was closed, which may
\* start one child that Stop misses.
StopIsFinal ==
    \A r \in Runners :
        /\ late[r] <= (IF r \in racing THEN 1 ELSE 0)
        /\ spc = "returned" /\ alive[r] /\ ~termed[r] => r \in racing
=============================================================================
