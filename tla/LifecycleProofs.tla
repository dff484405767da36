-------------------------- MODULE LifecycleProofs ---------------------------
(***************************************************************************)
(* Proofs about the supervisor and the order of shutdown, for any number of *)
(* streams, jobs and scans.                                                 *)
(***************************************************************************)
EXTENDS Lifecycle, TLAPS

\* A child that runs is waited for, and is the one the field names.
Waited == \A r \in Runners : alive[r] => rpc[r] = "wait" /\ field[r] = "started"

\* A runner between its check and its start after the close was there at the
\* close and has started nothing since.
Raced ==
    \A r \in Runners :
        /\ ~stopChan => late[r] = 0
        /\ stopChan /\ rpc[r] \in {"assign", "start"} => r \in racing /\ late[r] = 0
        /\ late[r] = 0 \/ (late[r] = 1 /\ r \in racing)

\* Where Stop has been, what still runs has its signal.
Passed(r) ==
    IF r = "clamd" THEN spc \in {"look_freshclam", "signal_freshclam", "returned"}
    ELSE spc = "returned"
Signalled == \A r \in Runners : Passed(r) /\ alive[r] /\ r \notin racing => termed[r]

Phases ==
    /\ mpc = "starting" => \A r \in Runners : ~alive[r]
    /\ mpc \in {"starting", "serving"} => ~stopChan
    /\ ~stopChan => spc = "idle"
    /\ mpc \in {"queue", "http"} => Finished(Streams)
    /\ mpc = "http" => Finished(Jobs)
    /\ Running \/ mpc = "starting" => \A w \in Work : work[w] # "cut"

LifeInv == TypeOK /\ Waited /\ Raced /\ Signalled /\ Phases /\ ExitLeavesNothingOpen

LEMMA LifeInit == Init => LifeInv
<1> SUFFICES ASSUME Init PROVE LifeInv
    OBVIOUS
<1> USE DEF Init, SupInit
<1>1. TypeOK
    <2>1. alive \in [Runners -> BOOLEAN] /\ termed \in [Runners -> BOOLEAN] /\ stopChan \in BOOLEAN
        OBVIOUS
    <2>2. rpc \in [Runners -> RunnerPcs] /\ field \in [Runners -> {"nil", "new", "started"}]
        BY DEF RunnerPcs
    <2>3. spc \in StopPcs /\ racing \in SUBSET Runners /\ late \in [Runners -> 0..2]
        BY DEF StopPcs
    <2> QED BY <2>1, <2>2, <2>3 DEF TypeOK, SupTypeOK, MainPcs, States
<1>2. Waited /\ Raced /\ Signalled
    BY DEF Waited, Raced, Signalled, Passed
<1>3. Phases /\ ExitLeavesNothingOpen
    BY DEF Phases, ExitLeavesNothingOpen, Finished, InHand
<1> QED
    BY <1>1, <1>2, <1>3 DEF LifeInv

\* What a step of a runner does to the supervisor's part.
LEMMA RunnerStep ==
    ASSUME LifeInv, NEW r \in Runners, Runner(r) \/ ChildEnds(r)
    PROVE  SupTypeOK' /\ Waited' /\ Raced' /\ Signalled' /\ UNCHANGED <<stopChan, spc, racing>>
<1> USE DEF LifeInv, TypeOK, SupTypeOK, RunnerPcs, StopPcs, Waited, Raced, Signalled, Passed, children, Move
<1>1. CASE CheckStop(r)
    BY <1>1 DEF CheckStop, Stopped
<1>2. CASE AssignCmd(r)
    BY <1>2 DEF AssignCmd
<1>3. CASE StartFails(r)
    BY <1>3 DEF StartFails, AfterFailedStart
<1>4. CASE StartChild(r)
    <2> USE <1>4 DEF StartChild
    <2>1. late' \in [Runners -> 0..2] /\ \A q \in Runners : q # r => late'[q] = late[q]
        OBVIOUS
    <2>2. stopChan => r \in racing /\ late[r] = 0 /\ late'[r] = 1
        OBVIOUS
    <2>3. ~stopChan => late' = late
        OBVIOUS
    <2>4. SupTypeOK'
        BY <2>1
    <2>6. Waited' /\ UNCHANGED <<stopChan, spc, racing>>
        OBVIOUS
    <2>7. Signalled'
        <3>1. \A q \in Runners : q # r => alive'[q] = alive[q] /\ termed'[q] = termed[q]
            OBVIOUS
        <3>2. Passed(r) => stopChan
            BY DEF Phases
        <3> QED BY <2>2, <3>1, <3>2
    <2>5. Raced'
        BY <2>1, <2>2, <2>3
    <2> QED BY <2>4, <2>5, <2>6, <2>7
<1>5. CASE Reap(r)
    BY <1>5 DEF Reap, Stopped
<1>6. CASE Wake(r)
    BY <1>6 DEF Wake
<1>7. CASE ChildEnds(r)
    BY <1>7 DEF ChildEnds
<1> QED
    BY <1>1, <1>2, <1>3, <1>4, <1>5, <1>6, <1>7 DEF Runner

\* What a step of Stop does to it.
LEMMA StopStep ==
    ASSUME LifeInv, NEW r \in Runners, stopChan, LookAt(r) \/ SignalChild(r)
    PROVE  SupTypeOK' /\ Waited' /\ Raced' /\ Signalled' /\ UNCHANGED <<stopChan, racing>>
<1> USE DEF LifeInv, TypeOK, SupTypeOK, RunnerPcs, StopPcs, Waited, Raced, Signalled, Passed, children,
            Runners, AfterLook, AfterSignal, Looking, Signalling
<1>1. CASE LookAt(r)
    BY <1>1 DEF LookAt
<1>2. CASE SignalChild(r)
    BY <1>2 DEF SignalChild
<1> QED
    BY <1>1, <1>2

\* Work that only moves on, while main stays where it is.
LEMMA WorkStep ==
    ASSUME LifeInv, UNCHANGED <<supVars, mpc>>, NEW w \in Work,
           NEW state \in {"open", "scanning", "lost", "done"}, Become(w, state),
           \/ work[w] \in InHand /\ Running
           \/ /\ w \in Streams => mpc \in {"serving", "stopping"}
              /\ w \in Jobs => mpc \in {"serving", "stopping", "grpc"}
              /\ Running
    PROVE  LifeInv'
<1> USE DEF LifeInv, TypeOK, supVars, children
<1>1. TypeOK'
    BY DEF SupTypeOK, Become, States
<1>2. Waited' /\ Raced' /\ Signalled'
    BY DEF Waited, Raced, Signalled, Passed
<1>3. Phases'
    BY DEF Phases, Become, Finished, InHand, Running, Work
<1>4. ExitLeavesNothingOpen'
    BY DEF ExitLeavesNothingOpen, Running
<1> QED
    BY <1>1, <1>2, <1>3, <1>4

LEMMA LifeStep == LifeInv /\ [Next]_vars => LifeInv'
<1> SUFFICES ASSUME LifeInv, [Next]_vars PROVE LifeInv'
    OBVIOUS
<1> USE DEF LifeInv, TypeOK
<1>1. CASE Start
    <2> USE <1>1 DEF Start, StartRunners, children
    <2>1. TypeOK'
        BY DEF SupTypeOK, RunnerPcs, MainPcs
    <2>2. Waited' /\ Raced' /\ Signalled'
        BY DEF Waited, Raced, Signalled, Passed, Phases
    <2>3. Phases' /\ ExitLeavesNothingOpen'
        BY DEF Phases, ExitLeavesNothingOpen, Running
    <2> QED BY <2>1, <2>2, <2>3
<1>2. CASE BeginStop
    <2> USE <1>2 DEF BeginStop, CloseStopChan, children
    <2>1. TypeOK'
        BY DEF SupTypeOK, StopPcs, MainPcs
    <2>2. Waited' /\ Raced' /\ Signalled'
        BY DEF Waited, Raced, Signalled, Passed, Phases
    <2>3. Phases' /\ ExitLeavesNothingOpen'
        BY DEF Phases, ExitLeavesNothingOpen, Running
    <2> QED BY <2>1, <2>2, <2>3
<1>3. CASE ListenFails
    <2> USE <1>3 DEF ListenFails, supVars, children, CutWork
    <2>1. TypeOK'
        BY DEF SupTypeOK, MainPcs, States
    <2>2. Waited' /\ Raced' /\ Signalled'
        BY DEF Waited, Raced, Signalled, Passed
    <2>3. Phases' /\ ExitLeavesNothingOpen'
        BY DEF Phases, ExitLeavesNothingOpen, Running
    <2> QED BY <2>1, <2>2, <2>3
<1>4. CASE StopChild
    <2>1. PICK r \in Runners : LookAt(r) \/ SignalChild(r)
        BY <1>4 DEF StopChild
    <2>2. mpc = "stopping" /\ stopChan
        <3>1. spc # "idle"
            BY <2>1 DEF LookAt, Looking, SignalChild, Signalling, AfterLook
        <3> QED BY <3>1, <1>4 DEF StopChild, Phases
    <2>3. SupTypeOK' /\ Waited' /\ Raced' /\ Signalled' /\ UNCHANGED <<stopChan, racing>>
        BY <2>1, <2>2, StopStep
    <2>4. mpc' \in {"stopping", "panicked"} /\ (mpc' = "stopping" => UNCHANGED work)
        BY <1>4, <2>2 DEF StopChild
    <2>5. work' \in [Work -> States]
        BY <1>4 DEF StopChild, CutWork, States
    <2>6. TypeOK'
        BY <2>3, <2>4, <2>5 DEF MainPcs
    <2>7. Phases' /\ ExitLeavesNothingOpen'
        BY <2>2, <2>3, <2>4 DEF Phases, ExitLeavesNothingOpen, Running
    <2> QED BY <2>3, <2>6, <2>7
<1>5. CASE SupervisorStopped \/ GracefulStopReturns \/ QueueStopReturns
    <2> USE <1>5 DEF SupervisorStopped, GracefulStopReturns, QueueStopReturns, supVars, children
    <2>1. TypeOK'
        BY DEF SupTypeOK, MainPcs
    <2>2. Waited' /\ Raced' /\ Signalled'
        BY DEF Waited, Raced, Signalled, Passed
    <2>3. Phases' /\ ExitLeavesNothingOpen'
        BY DEF Phases, ExitLeavesNothingOpen, Running, Finished, StreamsClosed
    <2> QED BY <2>1, <2>2, <2>3
<1>6. CASE HttpShutdownReturns
    <2> USE <1>6 DEF HttpShutdownReturns, supVars, children, CutWork
    <2>1. TypeOK'
        BY DEF SupTypeOK, MainPcs, States
    <2>2. Waited' /\ Raced' /\ Signalled'
        BY DEF Waited, Raced, Signalled, Passed
    <2>3. Phases'
        BY DEF Phases, Running
    <2>4. ExitLeavesNothingOpen'
        BY DEF ExitLeavesNothingOpen, Phases, Running, Finished, InHand, States, Work
    <2> QED BY <2>1, <2>2, <2>3, <2>4
<1>7. ASSUME NEW r \in Runners, SupervisorRuns(r) PROVE LifeInv'
    <2>1. SupTypeOK' /\ Waited' /\ Raced' /\ Signalled' /\ UNCHANGED <<stopChan, spc, racing>>
        BY <1>7, RunnerStep DEF SupervisorRuns
    <2>2. UNCHANGED <<mpc, work>> /\ Running
        BY <1>7 DEF SupervisorRuns
    <2>3. Phases' /\ ExitLeavesNothingOpen'
        BY <2>1, <2>2 DEF Phases, ExitLeavesNothingOpen, Running, Finished
    <2> QED BY <2>1, <2>2, <2>3
<1>8. ASSUME NEW r \in Runners, ChildGone(r) PROVE LifeInv'
    <2>1. SupTypeOK' /\ Waited' /\ Raced' /\ Signalled' /\ UNCHANGED <<stopChan, spc, racing>>
        BY <1>8, RunnerStep DEF ChildGone
    <2>2. UNCHANGED mpc /\ Running
        BY <1>8 DEF ChildGone
    <2>3. /\ work' \in [Work -> States]
          /\ \A w \in Work : work'[w] = work[w] \/ (work[w] = "scanning" /\ work'[w] = "lost")
        BY <1>8 DEF ChildGone, States
    <2>4. Phases' /\ ExitLeavesNothingOpen'
        BY <2>1, <2>2, <2>3 DEF Phases, ExitLeavesNothingOpen, Running, Finished, InHand, Work
    <2> QED BY <2>1, <2>2, <2>3, <2>4
<1>9. ASSUME NEW w \in Work, Arrive(w) PROVE LifeInv'
    <2>1. /\ w \in Streams => mpc \in {"serving", "stopping"}
          /\ w \in Jobs => mpc \in {"serving", "stopping", "grpc"}
          /\ Running
        BY <1>9, WorkIsDistinct DEF Arrive, Running
    <2> QED BY <1>9, <2>1, WorkStep DEF Arrive
<1>10. ASSUME NEW w \in Work, CallClamd(w) PROVE LifeInv'
    BY <1>10, WorkStep DEF CallClamd, DialOrFail, InHand
<1>11. ASSUME NEW w \in Work, ClamdAnswers(w) PROVE LifeInv'
    BY <1>11, WorkStep DEF ClamdAnswers, InHand
<1>12. ASSUME NEW w \in Work, ScanFails(w) PROVE LifeInv'
    BY <1>12, WorkStep DEF ScanFails, InHand
<1>13. CASE Gone \/ UNCHANGED vars
    <2> USE <1>13 DEF Gone, vars, supVars, children
    <2>1. TypeOK' /\ Waited' /\ Raced' /\ Signalled'
        BY DEF SupTypeOK, Waited, Raced, Signalled, Passed
    <2>2. Phases' /\ ExitLeavesNothingOpen'
        BY DEF Phases, ExitLeavesNothingOpen, Running, Finished
    <2> QED BY <2>1, <2>2
<1> QED
    BY <1>1, <1>2, <1>3, <1>4, <1>5, <1>6, <1>7, <1>8, <1>9, <1>10, <1>11, <1>12, <1>13 DEF Next, Main

LEMMA LifeAlways == Spec => []LifeInv
BY LifeInit, LifeStep, PTL DEF Spec

-----------------------------------------------------------------------------
(* What holds of every start and shutdown *)

\* When Supervisor.Stop has returned, no child runs without its signal and none
\* is started any more, but for one start of a runner that had passed its check.
THEOREM StopIsFinalAlways == Spec => []StopIsFinal
<1>1. LifeInv => StopIsFinal
    BY DEF LifeInv, StopIsFinal, Raced, Signalled, Passed, Runners
<1> QED
    BY LifeAlways, <1>1, PTL

\* main returns after every gRPC stream and every job that was accepted was
\* answered, whenever it came.
THEOREM ExitLeavesNothingOpenAlways == Spec => []ExitLeavesNothingOpen
<1>1. LifeInv => ExitLeavesNothingOpen
    BY DEF LifeInv
<1> QED
    BY LifeAlways, <1>1, PTL
=============================================================================
