----------------------------- MODULE Lifecycle ------------------------------
(***************************************************************************)
(* cmd/server/main.go: what starts and stops when, over the supervisor and  *)
(* the work in hand: gRPC streams, asynchronous jobs, HTTP scans. The       *)
(* scanner is stopped first, then the three sources of work one by one.     *)
(***************************************************************************)
EXTENDS Supervisor, FiniteSets

CONSTANTS
    Streams,    \* gRPC streams
    Jobs,       \* jobs of the asynchronous queue
    Scans       \* scans in an HTTP handler

ASSUME WorkIsDistinct ==
    Streams \cap Jobs = {} /\ Streams \cap Scans = {} /\ Jobs \cap Scans = {}

VARIABLES
    mpc,        \* where main is
    work        \* where each piece of work is

vars == <<supVars, mpc, work>>

Work == Streams \cup Jobs \cup Scans
States == {"none", "open", "scanning", "lost", "done", "cut"}
InHand == {"open", "scanning", "lost"}

Init == SupInit /\ mpc = "starting" /\ work = [w \in Work |-> "none"]

Become(w, state) == work' = [work EXCEPT ![w] = state]

-----------------------------------------------------------------------------
(* Work. The listeners of gRPC and HTTP stay open until their own turn. *)

Arrive(w) ==
    /\ work[w] = "none" /\ Become(w, "open")
    /\ \/ w \in Streams /\ mpc \in {"serving", "stopping"}
       \/ w \in Jobs    /\ mpc \in {"serving", "stopping", "grpc"}
       \/ w \in Scans   /\ mpc \in {"serving", "stopping", "grpc", "queue"}
    /\ UNCHANGED <<supVars, mpc>>

Running == mpc \notin {"starting", "exited", "fatal", "panicked"}

\* The body is there, or the job is taken, and clamd is called. A piece of work
\* is done when it was answered, be it with a verdict or with an error.
DialOrRetry(w) ==
    IF alive["clamd"] THEN Become(w, "scanning") ELSE UNCHANGED work
DialOrFail(w) ==
    \/ alive["clamd"] /\ Become(w, "scanning")
    \/ Become(w, "done")

CallClamd(w) ==
    /\ Running /\ work[w] = "open"
    /\ DialOrFail(w)
    /\ UNCHANGED <<supVars, mpc>>

\* clamd answers. It answers its own connections until it ends.
ClamdAnswers(w) ==
    /\ Running /\ work[w] = "scanning" /\ alive["clamd"]
    /\ Become(w, "done")
    /\ UNCHANGED <<supVars, mpc>>

\* The connection ended without an answer.
ScanFails(w) ==
    /\ Running /\ work[w] = "lost"
    /\ Become(w, "done")
    /\ UNCHANGED <<supVars, mpc>>

\* With clamd go the connections to it.
ChildGone(r) ==
    /\ Running /\ ChildEnds(r)
    /\ work' = [w \in Work |->
                    IF r = "clamd" /\ work[w] = "scanning" THEN "lost" ELSE work[w]]
    /\ UNCHANGED mpc

-----------------------------------------------------------------------------
(* main *)

\* sup.Start runs freshclam once, without a limit, when there are no
\* signatures; the listeners come after it.
Start ==
    /\ mpc = "starting" /\ mpc' = "serving"
    /\ StartRunners /\ UNCHANGED work

\* What is not finished ends with the process.
CutWork == work' = [w \in Work |-> IF work[w] \in InHand THEN "cut" ELSE work[w]]

\* SIGTERM: sup.Stop.
BeginStop ==
    /\ mpc = "serving" /\ mpc' = "stopping"
    /\ CloseStopChan /\ UNCHANGED work

StopChild ==
    /\ mpc = "stopping"
    /\ \E r \in Runners : LookAt(r) \/ SignalChild(r)
    /\ IF spc' = "panicked" THEN mpc' = "panicked" /\ CutWork ELSE UNCHANGED <<mpc, work>>

SupervisorStopped ==
    /\ mpc = "stopping" /\ spc = "returned"
    /\ mpc' = "grpc" /\ UNCHANGED <<supVars, work>>

Finished(some) == \A w \in some : work[w] \notin InHand

\* GracefulStop waits for the streams, Stop would not.
AbruptStop == TRUE
StreamsClosed == Finished(Streams)

GracefulStopReturns ==
    /\ mpc = "grpc" /\ StreamsClosed
    /\ mpc' = "queue" /\ UNCHANGED <<supVars, work>>

\* asyncQueue.Stop drains the channel.
QueueStopReturns ==
    /\ mpc = "queue" /\ Finished(Jobs)
    /\ mpc' = "http" /\ UNCHANGED <<supVars, work>>

\* Shutdown waits for the handlers, 15 s at most, then main returns.
HttpShutdownReturns ==
    /\ mpc = "http" /\ mpc' = "exited"
    /\ CutWork
    /\ UNCHANGED supVars

\* log.Fatalf, when a port cannot be listened on.
ListenFails ==
    /\ mpc = "serving" /\ mpc' = "fatal"
    /\ CutWork /\ UNCHANGED supVars

\* The container ends with its first process.
Gone == mpc \in {"exited", "fatal", "panicked"} /\ UNCHANGED vars

SupervisorRuns(r) == Running /\ Runner(r) /\ UNCHANGED <<mpc, work>>

Main ==
    \/ StopChild \/ SupervisorStopped \/ GracefulStopReturns
    \/ QueueStopReturns \/ HttpShutdownReturns

Next ==
    \/ Start \/ BeginStop \/ ListenFails \/ Main \/ Gone
    \/ \E r \in Runners : SupervisorRuns(r) \/ ChildGone(r)
    \/ \E w \in Work : Arrive(w) \/ CallClamd(w) \/ ClamdAnswers(w) \/ ScanFails(w)

Spec == Init /\ [][Next]_vars

\* main and the runners are scheduled, workers and HTTP handlers too, and every
\* started command is waited for.
FairSpec ==
    /\ Spec /\ WF_vars(Main)
    /\ \A r \in Runners : WF_vars(SupervisorRuns(r))
    /\ \A w \in Jobs \cup Scans : WF_vars(CallClamd(w))
    /\ \A w \in Work : WF_vars(ScanFails(w))

\* Assumptions on others: a gRPC client finishes its stream, clamd answers while
\* it runs, a program that can be started is started in the end.
ClientsFinish == \A w \in Streams : WF_vars(CallClamd(w))
ClamdResponds == \A w \in Work : WF_vars(ClamdAnswers(w))
ProgramsStart == \A r \in Runners : SF_vars(Running /\ StartChild(r) /\ UNCHANGED <<mpc, work>>)

-----------------------------------------------------------------------------
(* Properties *)

\* Every variable has its type.
MainPcs ==
    {"starting", "serving", "stopping", "grpc", "queue", "http", "exited", "fatal", "panicked"}
TypeOK == SupTypeOK /\ mpc \in MainPcs /\ work \in [Work -> States]

\* A graceful exit cuts no gRPC stream and no job: each one that was accepted,
\* also while the scanner was being stopped, was answered.
ExitLeavesNothingOpen ==
    mpc = "exited" => \A w \in Streams \cup Jobs : work[w] \in {"none", "done"}

\* A child that is gone comes back while the service is up.
ChildrenComeBack ==
    ProgramsStart =>
        \A r \in Runners :
            (mpc = "serving" /\ ~alive[r]) ~> (alive[r] \/ mpc # "serving")

\* SIGTERM is followed by the end of the process, if the gRPC clients finish
\* and clamd answers or ends.
ShutdownCompletes ==
    ClientsFinish /\ ClamdResponds =>
        ((mpc = "stopping") ~> (mpc \in {"exited", "panicked"}))
=============================================================================
