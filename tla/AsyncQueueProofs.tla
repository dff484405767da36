--------------------------- MODULE AsyncQueueProofs ---------------------------
(***************************************************************************)
(* Proofs about the asynchronous queue for every number of requests,        *)
(* workers and jobs, with or without crashes, failing statements and a      *)
(* clock that repeats itself.                                               *)
(***************************************************************************)
EXTENDS AsyncQueue, TLAPS

\* Where a worker has a verdict, an open spool file, attempts left.
Judged    == {"failOpen", "failScan", "quarantine", "remove", "record", "audit",
              "alert", "webhook"}
WithFile  == {"scan", "quarantine"}
Submitting == {"open", "copy", "insert", "send"}

\* What a program counter says of the process that is there.
PcOK ==
    /\ \A r \in Requests :
        /\ rpc[r] \in Submitting => rid[r] \in JobIds
        /\ rpc[r] = "copy" => fd[r] \in Requests
    /\ \A w \in Workers :
        /\ Busy(w) => wjob[w] \in JobIds
        /\ wpc[w] \in Judged => wres[w] \in Verdicts
        /\ wpc[w] \in WithFile => wfd[w] \in Requests
        /\ wpc[w] # "cleanup" => attempt[w] < MaxAttempts
        /\ ~Busy(w) => attempt[w] = 0
        /\ phase \in {"drained", "down"} => wpc[w] = "exited"

TypeInv == TypeOK /\ PcOK

LEMMA TypeInit == Init => TypeInv
BY ConstantsAssumption
   DEF ConstantsAssumption, Init, TypeInv, TypeOK, PcOK, RowTypes, SpoolTypes, QueueTypes,
       RequestTypes, WorkerTypes, ObserverTypes, JobIds, Statuses, Verdicts, SubmitPcs,
       WorkerPcs, Busy, Judged, WithFile, Submitting, MaxAttempts

\* An UPDATE that succeeds writes a status and a verdict.
LEMMA UpdateTypes ==
    ASSUME RowTypes, NEW w, wjob[w] \in JobIds, NEW st \in Statuses,
           NEW v \in Verdicts \cup {"none"}, UpdateScanJobStatus(w, st, v),
           UNCHANGED <<owner, audit, quar>>
    PROVE  RowTypes'
BY DEF RowTypes, UpdateScanJobStatus

LEMMA TypeStep == TypeInv /\ [Next]_vars => TypeInv'
<1> SUFFICES ASSUME TypeInv, [Next]_vars PROVE TypeInv'
    OBVIOUS
<1> USE ConstantsAssumption
    DEF ConstantsAssumption, TypeInv, TypeOK, PcOK, RowTypes, SpoolTypes, QueueTypes,
        RequestTypes, WorkerTypes, ObserverTypes, Statuses, Verdicts, SubmitPcs, WorkerPcs,
        Answered, Busy, Judged, WithFile, Submitting, MaxAttempts
<1>1. ASSUME NEW r \in Requests, RejectRequest(r) PROVE TypeInv'
    <2> USE <1>1 DEF RejectRequest, Accepting, submitFrame, workerVars, hookVars, dbVars, spoolVars
    <2>1. RowTypes' /\ SpoolTypes' /\ QueueTypes' /\ WorkerTypes' /\ ObserverTypes'
        OBVIOUS
    <2>2. RequestTypes'
        OBVIOUS
    <2>3. PcOK'
        OBVIOUS
    <2> QED BY <2>1, <2>2, <2>3
<1>2. ASSUME NEW r \in Requests, NameJob(r) PROVE TypeInv'
    <2> USE <1>2 DEF NameJob, JobName, submitFrame, workerVars, hookVars, dbVars, spoolVars
    <2>1. RowTypes' /\ SpoolTypes' /\ QueueTypes' /\ WorkerTypes'
        OBVIOUS
    <2>2. RequestTypes'
        OBVIOUS
    <2>3. ObserverTypes'
        <3>1. PICK d \in ClockSteps :
                /\ clock + d \in JobIds /\ clock' = clock + d
                /\ repeated' = IF d = 0 THEN repeated \cup {clock} ELSE repeated
            OBVIOUS
        <3>2. clock' \in 0..MaxClock
            BY <3>1 DEF JobIds
        <3>3. clock \in Nat /\ d \in Nat
            BY <3>1
        <3>4. d = 0 => clock \in JobIds
            BY <3>1, <3>3
        <3>5. repeated' \subseteq JobIds
            BY <3>1, <3>4
        <3> QED BY <3>2, <3>5
    <2>4. PcOK'
        OBVIOUS
    <2> QED BY <2>1, <2>2, <2>3, <2>4
<1>3. ASSUME NEW r \in Requests, CreateSpool(r) PROVE TypeInv'
    <2> USE <1>3 DEF CreateSpool, submitFrame, workerVars, hookVars, dbVars, spoolVars
    <2>1. RowTypes' /\ QueueTypes' /\ WorkerTypes' /\ ObserverTypes'
        OBVIOUS
    <2>2. SpoolTypes'
        <3>1. rid[r] \in JobIds
            OBVIOUS
        <3>2. (IF dir[rid[r]] = NoFile THEN r ELSE dir[rid[r]]) \in Requests
            BY <3>1
        <3>3. CASE rpc' = [rpc EXCEPT ![r] = "copy"] /\ ~UNCHANGED <<dir, data, fd>>
            <4>1. PICK inode \in Requests :
                    /\ dir' = [dir EXCEPT ![rid[r]] = inode]
                    /\ data' = [data EXCEPT ![inode] = {}]
                    /\ fd' = [fd EXCEPT ![r] = inode]
                BY <3>2, <3>3
            <4> QED BY <3>1, <3>3, <4>1
        <3>4. CASE UNCHANGED <<dir, data, fd>> /\ rpc' \in {[rpc EXCEPT ![r] = "rejected"], [rpc EXCEPT ![r] = "copy"]}
            BY <3>4
        <3> QED BY <3>3, <3>4
    <2>3. RequestTypes'
        <3>1. rid[r] \in JobIds
            OBVIOUS
        <3>2. (IF dir[rid[r]] = NoFile THEN r ELSE dir[rid[r]]) \in Requests
            BY <3>1
        <3>3. CASE rpc' = [rpc EXCEPT ![r] = "copy"] /\ ~UNCHANGED <<dir, data, fd>>
            <4>1. PICK inode \in Requests :
                    /\ dir' = [dir EXCEPT ![rid[r]] = inode]
                    /\ data' = [data EXCEPT ![inode] = {}]
                    /\ fd' = [fd EXCEPT ![r] = inode]
                BY <3>2, <3>3
            <4> QED BY <3>1, <3>3, <4>1
        <3>4. CASE UNCHANGED <<dir, data, fd>> /\ rpc' \in {[rpc EXCEPT ![r] = "rejected"], [rpc EXCEPT ![r] = "copy"]}
            <4>1. rpc' \in [Requests -> SubmitPcs]
                BY ZenonT(60), <3>4
            <4>2. rid' = rid /\ fd' = fd
                BY <3>4
            <4> QED BY <4>1, <4>2
        <3> QED BY <3>3, <3>4
    <2>4. PcOK'
        OBVIOUS
    <2> QED BY <2>1, <2>2, <2>3, <2>4
<1>4. ASSUME NEW r \in Requests, CopyBody(r) PROVE TypeInv'
    <2> USE <1>4 DEF CopyBody, RemoveSpool, submitFrame, workerVars, hookVars, dbVars, spoolVars
    <2>1. RowTypes' /\ QueueTypes' /\ WorkerTypes' /\ ObserverTypes'
        OBVIOUS
    <2>2. SpoolTypes'
        <3>1. rid[r] \in JobIds /\ fd[r] \in Requests
            OBVIOUS
        <3>2. data[fd[r]] \cup {r} \in SUBSET Requests
            BY <3>1
        <3>3. CASE rpc' = [rpc EXCEPT ![r] = "insert"] /\ UNCHANGED dir
            BY <3>1, <3>2, <3>3
        <3>4. CASE rpc' = [rpc EXCEPT ![r] = "rejected"] /\ RemoveSpool(rid[r])
            BY <3>1, <3>2, <3>4
        <3> QED BY <3>3, <3>4
    <2>3. RequestTypes'
        <3>1. rid[r] \in JobIds /\ fd[r] \in Requests
            OBVIOUS
        <3>2. data[fd[r]] \cup {r} \in SUBSET Requests
            BY <3>1
        <3>3. CASE rpc' = [rpc EXCEPT ![r] = "insert"] /\ UNCHANGED dir
            BY <3>1, <3>2, <3>3
        <3>4. CASE rpc' = [rpc EXCEPT ![r] = "rejected"] /\ RemoveSpool(rid[r])
            BY <3>1, <3>2, <3>4
        <3> QED BY <3>3, <3>4
    <2>4. PcOK'
        OBVIOUS
    <2> QED BY <2>1, <2>2, <2>3, <2>4
<1>5. ASSUME NEW r \in Requests, InsertScanJob(r) PROVE TypeInv'
    <2> USE <1>5 DEF InsertScanJob, RemoveSpool, submitFrame, workerVars, hookVars, dbVars, spoolVars
    <2>1. QueueTypes' /\ WorkerTypes' /\ ObserverTypes'
        OBVIOUS
    <2>2. RowTypes'
        <3>1. rid[r] \in JobIds
            OBVIOUS
        <3>2. CASE status' = [status EXCEPT ![rid[r]] = "QUEUED"]
                    /\ owner' = [owner EXCEPT ![rid[r]] = r]
            BY <3>1, <3>2
        <3>3. CASE UNCHANGED <<status, owner>>
            BY <3>3
        <3> QED BY <3>2, <3>3
    <2>3. SpoolTypes'
        OBVIOUS
    <2>4. RequestTypes'
        BY ZenonT(60)
    <2>5. PcOK'
        OBVIOUS
    <2> QED BY <2>1, <2>2, <2>3, <2>4, <2>5
<1>6. ASSUME NEW r \in Requests, Enqueue(r) PROVE TypeInv'
    <2> USE <1>6 DEF Enqueue, DropJob, ChannelFull, ChannelClosed, submitFrame, workerVars, hookVars, dbVars, spoolVars
    <2>1. RowTypes' /\ SpoolTypes' /\ WorkerTypes'
        OBVIOUS
    <2>2. QueueTypes'
        <3>1. rid[r] \in JobIds
            OBVIOUS
        <3>2. CASE ~ChannelClosed /\ ~ChannelFull /\ jobsChan' = Append(jobsChan, rid[r])
                    /\ rpc' = [rpc EXCEPT ![r] = "accepted"]
            BY <3>1, <3>2
        <3>3. CASE UNCHANGED jobsChan /\ rpc' = [rpc EXCEPT ![r] = "accepted"]
            BY <3>3
        <3>4. CASE UNCHANGED jobsChan /\ rpc' = [rpc EXCEPT ![r] = "panicked"]
            BY <3>4
        <3> QED BY <3>2, <3>3, <3>4
    <2>3. RequestTypes'
        <3>1. rid[r] \in JobIds
            OBVIOUS
        <3>2. CASE ~ChannelClosed /\ ~ChannelFull /\ jobsChan' = Append(jobsChan, rid[r])
                    /\ rpc' = [rpc EXCEPT ![r] = "accepted"]
            BY <3>1, <3>2
        <3>3. CASE UNCHANGED jobsChan /\ rpc' = [rpc EXCEPT ![r] = "accepted"]
            BY <3>3
        <3>4. CASE UNCHANGED jobsChan /\ rpc' = [rpc EXCEPT ![r] = "panicked"]
            BY <3>4
        <3> QED BY <3>2, <3>3, <3>4
    <2>4. ObserverTypes'
        OBVIOUS
    <2>5. PcOK'
        OBVIOUS
    <2> QED BY <2>1, <2>2, <2>3, <2>4, <2>5
<1>7. ASSUME NEW w \in Workers, Receive(w) PROVE TypeInv'
    <2> USE <1>7 DEF Receive, WorkerGoto, workerFrame, submitVars, rowVars, locals, hookVars
    <2>1. RowTypes' /\ SpoolTypes' /\ RequestTypes' /\ ObserverTypes'
        OBVIOUS
    <2>2. QueueTypes'
        OBVIOUS
    <2>3. WorkerTypes'
        OBVIOUS
    <2>4. PcOK'
        OBVIOUS
    <2> QED BY <2>1, <2>2, <2>3, <2>4
<1>8. ASSUME NEW w \in Workers, WorkerExit(w) PROVE TypeInv'
    <2> USE <1>8 DEF WorkerExit, WorkerGoto, workerFrame, submitVars, rowVars, locals, hookVars
    <2>1. RowTypes' /\ SpoolTypes' /\ QueueTypes' /\ RequestTypes' /\ ObserverTypes'
        OBVIOUS
    <2>2. WorkerTypes'
        OBVIOUS
    <2>3. PcOK'
        OBVIOUS
    <2> QED BY <2>1, <2>2, <2>3
<1>9. ASSUME NEW w \in Workers, MarkProcessing(w) PROVE TypeInv'
    <2> USE <1>9 DEF MarkProcessing, WorkerGoto, UpdateScanJobStatus, workerFrame, submitVars, rowVars, locals, hookVars
    <2>1. SpoolTypes' /\ QueueTypes' /\ RequestTypes' /\ ObserverTypes'
        OBVIOUS
    <2>2. RowTypes'
        BY ZenonT(60)
    <2>3. WorkerTypes'
        OBVIOUS
    <2>4. PcOK'
        OBVIOUS
    <2> QED BY <2>1, <2>2, <2>3, <2>4
<1>10. ASSUME NEW w \in Workers, OpenSpool(w) PROVE TypeInv'
    <2> USE <1>10 DEF OpenSpool, WorkerGoto, workerFrame, submitVars, rowVars, locals, hookVars
    <2>1. RowTypes' /\ SpoolTypes' /\ QueueTypes' /\ RequestTypes' /\ ObserverTypes'
        OBVIOUS
    <2>2. WorkerTypes'
        <3>1. CASE dir[wjob[w]] = NoFile
            <4>1. wres' = [wres EXCEPT ![w] = "ERROR"] /\ wpc' = [wpc EXCEPT ![w] = "failOpen"]
                BY <3>1
            <4> QED BY <4>1
        <3>2. CASE dir[wjob[w]] # NoFile
            <4>1. dir[wjob[w]] \in Requests
                BY <3>2
            <4>2. /\ wpc' = [wpc EXCEPT ![w] = "scan"] /\ wfd' = [wfd EXCEPT ![w] = dir[wjob[w]]]
                  /\ UNCHANGED <<wjob, wres, attempt>>
                BY <3>2
            <4> QED BY <4>1, <4>2
        <3> QED BY <3>1, <3>2
    <2>3. PcOK'
        OBVIOUS
    <2> QED BY <2>1, <2>2, <2>3
<1>11. ASSUME NEW w \in Workers, RecordOpenFailure(w) PROVE TypeInv'
    <2> USE <1>11 DEF RecordOpenFailure, WorkerGoto, UpdateScanJobStatus, workerFrame, submitVars, rowVars, locals, hookVars
    <2>1. SpoolTypes' /\ QueueTypes' /\ RequestTypes' /\ ObserverTypes'
        OBVIOUS
    <2>2. RowTypes'
        <3>1. /\ wjob[w] \in JobIds /\ UpdateScanJobStatus(w, "FAILED", "ERROR")
              /\ UNCHANGED <<owner, audit, quar>>
            OBVIOUS
        <3> HIDE <1>11 DEF RecordOpenFailure, UpdateScanJobStatus, workerFrame
        <3> QED BY <3>1, UpdateTypes
    <2>3. WorkerTypes'
        OBVIOUS
    <2>4. PcOK'
        OBVIOUS
    <2> QED BY <2>1, <2>2, <2>3, <2>4
<1>12. ASSUME NEW w \in Workers, RecordScanFailure(w) PROVE TypeInv'
    <2> USE <1>12 DEF RecordScanFailure, WorkerGoto, UpdateScanJobStatus, workerFrame, submitVars, rowVars, locals, hookVars
    <2>1. SpoolTypes' /\ QueueTypes' /\ RequestTypes' /\ ObserverTypes'
        OBVIOUS
    <2>2. RowTypes'
        <3>1. /\ wjob[w] \in JobIds /\ UpdateScanJobStatus(w, "FAILED", "ERROR")
              /\ UNCHANGED <<owner, audit, quar>>
            OBVIOUS
        <3> HIDE <1>12 DEF RecordScanFailure, UpdateScanJobStatus, workerFrame
        <3> QED BY <3>1, UpdateTypes
    <2>3. WorkerTypes'
        OBVIOUS
    <2>4. PcOK'
        OBVIOUS
    <2> QED BY <2>1, <2>2, <2>3, <2>4
<1>13. ASSUME NEW w \in Workers, QuarantineFile(w) PROVE TypeInv'
    <2> USE <1>13 DEF QuarantineFile, WorkerGoto, workerFrame, submitVars, rowVars, locals, hookVars
    <2>1. SpoolTypes' /\ QueueTypes' /\ RequestTypes' /\ ObserverTypes'
        OBVIOUS
    <2>2. RowTypes'
        <3>1. wjob[w] \in JobIds /\ data[wfd[w]] \in SUBSET Requests
            OBVIOUS
        <3> QED BY <3>1
    <2>3. WorkerTypes'
        OBVIOUS
    <2>4. PcOK'
        OBVIOUS
    <2> QED BY <2>1, <2>2, <2>3, <2>4
<1>14. ASSUME NEW w \in Workers, DropSpool(w) PROVE TypeInv'
    <2> USE <1>14 DEF DropSpool, WorkerGoto, RemoveSpool, workerFrame, submitVars, rowVars, locals, hookVars
    <2>1. RowTypes' /\ QueueTypes' /\ RequestTypes' /\ ObserverTypes'
        OBVIOUS
    <2>2. SpoolTypes'
        OBVIOUS
    <2>3. WorkerTypes'
        OBVIOUS
    <2>4. PcOK'
        OBVIOUS
    <2> QED BY <2>1, <2>2, <2>3, <2>4
<1>15. ASSUME NEW w \in Workers, RecordVerdict(w) PROVE TypeInv'
    <2> USE <1>15 DEF RecordVerdict, WorkerGoto, UpdateScanJobStatus, workerFrame, submitVars, rowVars, locals, hookVars
    <2>1. SpoolTypes' /\ QueueTypes' /\ RequestTypes' /\ ObserverTypes'
        OBVIOUS
    <2>2. RowTypes'
        BY ZenonT(60)
    <2>3. WorkerTypes'
        OBVIOUS
    <2>4. PcOK'
        OBVIOUS
    <2> QED BY <2>1, <2>2, <2>3, <2>4
<1>16. ASSUME NEW w \in Workers, InsertScanAuditLog(w) PROVE TypeInv'
    <2> USE <1>16 DEF InsertScanAuditLog, WorkerGoto, AfterAudit, workerFrame, submitVars, rowVars, locals, hookVars
    <2>1. SpoolTypes' /\ QueueTypes' /\ RequestTypes' /\ ObserverTypes'
        OBVIOUS
    <2>2. RowTypes'
        OBVIOUS
    <2>3. WorkerTypes'
        OBVIOUS
    <2>4. PcOK'
        OBVIOUS
    <2> QED BY <2>1, <2>2, <2>3, <2>4
<1>17. ASSUME NEW w \in Workers, DispatchThreat(w) PROVE TypeInv'
    <2> USE <1>17 DEF DispatchThreat, WorkerGoto, workerFrame, submitVars, rowVars, locals, hookVars
    <2>1. RowTypes' /\ SpoolTypes' /\ QueueTypes' /\ RequestTypes'
        OBVIOUS
    <2>2. WorkerTypes'
        OBVIOUS
    <2>3. ObserverTypes'
        OBVIOUS
    <2>4. PcOK'
        OBVIOUS
    <2> QED BY <2>1, <2>2, <2>3, <2>4
<1>18. ASSUME NEW w \in Workers, PostWebhook(w) PROVE TypeInv'
    <2> USE <1>18 DEF PostWebhook, WorkerGoto, StopsRetrying, workerFrame, submitVars, rowVars, locals, hookVars
    <2>1. RowTypes' /\ SpoolTypes' /\ QueueTypes' /\ RequestTypes'
        OBVIOUS
    <2>2. WorkerTypes'
        <3>1. attempt[w] \in 0..2 /\ attempt[w] + 1 \in 0..3
            OBVIOUS
        <3>2. attempt' \in [Workers -> 0..3]
            BY <3>1
        <3>3. PICK pc \in {"cleanup", "webhook"} : wpc' = [wpc EXCEPT ![w] = pc]
            OBVIOUS
        <3> QED BY <3>2, <3>3
    <2>3. ObserverTypes'
        <3>1. wjob[w] \in JobIds /\ wres[w] \in Verdicts
            OBVIOUS
        <3>2. <<wjob[w], wres[w], quar[wjob[w]] # NoFile>> \in JobIds \X Verdicts \X BOOLEAN
            BY <3>1
        <3>3. told' \subseteq JobIds \X Verdicts \X BOOLEAN
            BY <3>2
        <3>4. posts' \in [JobIds -> Nat]
            BY <3>1
        <3>5. acked' \subseteq JobIds
            BY <3>1
        <3> QED BY <3>3, <3>4, <3>5
    <2>4. PcOK'
        <3>1. attempt[w] \in 0..2
            OBVIOUS
        <3>2. \/ wpc' = [wpc EXCEPT ![w] = "cleanup"]
              \/ wpc' = [wpc EXCEPT ![w] = "webhook"] /\ attempt[w] + 1 # 3
            OBVIOUS
        <3>3. attempt' = [attempt EXCEPT ![w] = attempt[w] + 1]
            OBVIOUS
        <3>4. CASE wpc' = [wpc EXCEPT ![w] = "cleanup"]
            BY <3>3, <3>4
        <3>5. CASE wpc' = [wpc EXCEPT ![w] = "webhook"] /\ attempt[w] + 1 # 3
            <4>1. attempt[w] + 1 < 3
                BY <3>1, <3>5
            <4> QED BY <3>3, <3>5, <4>1
        <3> QED BY <3>2, <3>4, <3>5
    <2> QED BY <2>1, <2>2, <2>3, <2>4
<1>19. ASSUME NEW w \in Workers, Cleanup(w) PROVE TypeInv'
    <2> USE <1>19 DEF Cleanup, WorkerGoto, RemoveSpool, workerFrame, submitVars, rowVars, locals, hookVars
    <2>1. RowTypes' /\ QueueTypes' /\ RequestTypes' /\ ObserverTypes'
        OBVIOUS
    <2>2. SpoolTypes'
        OBVIOUS
    <2>3. WorkerTypes'
        OBVIOUS
    <2>4. PcOK'
        OBVIOUS
    <2> QED BY <2>1, <2>2, <2>3, <2>4
<1>20. ASSUME NEW w \in Workers, ScanStream(w) PROVE TypeInv'
    <2>1. RowTypes' /\ SpoolTypes' /\ QueueTypes' /\ RequestTypes' /\ ObserverTypes'
        BY <1>20 DEF ScanStream, workerFrame, submitVars, rowVars, hookVars
    <2>2. PICK v \in Verdicts, pc \in {"failScan", "remove", "quarantine"} :
            /\ wres' = [wres EXCEPT ![w] = v]
            /\ wpc' = [wpc EXCEPT ![w] = pc]
        BY <1>20 DEF ScanStream, WorkerGoto, AfterScan, ScanVerdicts
    <2>3. UNCHANGED <<rpc, rid, fd, wjob, wfd, attempt, phase>> /\ wpc[w] = "scan"
        BY <1>20 DEF ScanStream, workerFrame, submitVars
    <2>4. WorkerTypes'
        BY <2>2, <2>3
    <2>5. PcOK'
        BY <2>2, <2>3
    <2> QED BY <2>1, <2>4, <2>5
<1>21. ASSUME BeginStop PROVE TypeInv'
    <2> USE <1>21 DEF BeginStop, mainFrame, dbVars, spoolVars, submitVars, workerVars, hookVars, locals
    <2>1. RowTypes' /\ SpoolTypes' /\ RequestTypes' /\ WorkerTypes' /\ ObserverTypes'
        OBVIOUS
    <2>2. QueueTypes'
        OBVIOUS
    <2>3. PcOK'
        OBVIOUS
    <2> QED BY <2>1, <2>2, <2>3
<1>22. ASSUME StopReturns PROVE TypeInv'
    <2> USE <1>22 DEF StopReturns, WorkersDone, mainFrame, dbVars, spoolVars, submitVars, workerVars, hookVars, locals
    <2>1. RowTypes' /\ SpoolTypes' /\ RequestTypes' /\ WorkerTypes' /\ ObserverTypes'
        OBVIOUS
    <2>2. QueueTypes'
        OBVIOUS
    <2>3. PcOK'
        OBVIOUS
    <2> QED BY <2>1, <2>2, <2>3
<1>23. ASSUME Exit PROVE TypeInv'
    <2> USE <1>23 DEF Exit, ProcessEnds, mainFrame, dbVars, spoolVars, submitVars, workerVars, hookVars, locals
    <2>1. RowTypes' /\ SpoolTypes'
        OBVIOUS
    <2>2. QueueTypes'
        OBVIOUS
    <2>3. RequestTypes'
        OBVIOUS
    <2>4. WorkerTypes'
        OBVIOUS
    <2>5. ObserverTypes'
        OBVIOUS
    <2>6. PcOK'
        OBVIOUS
    <2> QED BY <2>1, <2>2, <2>3, <2>4, <2>5, <2>6
<1>24. ASSUME Crash PROVE TypeInv'
    <2> USE <1>24 DEF Crash, ProcessEnds, mainFrame, dbVars, spoolVars, submitVars, workerVars, hookVars, locals
    <2>1. RowTypes' /\ SpoolTypes'
        OBVIOUS
    <2>2. QueueTypes'
        OBVIOUS
    <2>3. RequestTypes'
        OBVIOUS
    <2>4. WorkerTypes'
        OBVIOUS
    <2>5. ObserverTypes'
        OBVIOUS
    <2>6. PcOK'
        OBVIOUS
    <2> QED BY <2>1, <2>2, <2>3, <2>4, <2>5, <2>6
<1>25. ASSUME Start PROVE TypeInv'
    <2> USE <1>25 DEF Start, mainFrame, dbVars, spoolVars, submitVars, workerVars, hookVars, locals
    <2>1. RowTypes' /\ SpoolTypes' /\ RequestTypes'
        OBVIOUS
    <2>2. QueueTypes'
        OBVIOUS
    <2>3. WorkerTypes'
        OBVIOUS
    <2>4. ObserverTypes'
        OBVIOUS
    <2>5. PcOK'
        OBVIOUS
    <2> QED BY <2>1, <2>2, <2>3, <2>4, <2>5
<1>26. ASSUME UNCHANGED vars PROVE TypeInv'
    BY <1>26 DEF vars
<1> QED
    BY <1>1, <1>2, <1>3, <1>4, <1>5, <1>6, <1>7, <1>8, <1>9, <1>10, <1>11, <1>12, <1>13, <1>14, <1>15, <1>16, <1>17, <1>18, <1>19, <1>20, <1>21, <1>22, <1>23, <1>24, <1>25, <1>26 DEF Next, SubmitJob, WorkerStep, Off

\* Every variable keeps its type: SubmitJob's and processJob's locals, the rows
\* and the files are what the code takes them for at each of its statements.
THEOREM TypeCorrect == Spec => []TypeOK
<1>1. Init => TypeInv
    BY TypeInit
<1>2. TypeInv /\ [Next]_vars => TypeInv'
    BY TypeStep
<1>3. TypeInv => TypeOK
    BY DEF TypeInv
<1> QED
    BY <1>1, <1>2, <1>3, PTL DEF Spec

-----------------------------------------------------------------------------
(* One handler per job, and one final decision *)

Undecided == {"claimed", "open", "failOpen", "scan", "failScan", "quarantine",
              "remove", "record"}

Sending(j) == \E r \in Requests : rpc[r] = "send" /\ rid[r] = j

\* A job whose row does not exist yet is nowhere, and nothing was posted for it.
FreshRows ==
    \A j \in JobIds : status[j] = "none" => ~InChan(j) /\ ~Held(j) /\ ~Sending(j)

\* What waits for a worker, or is with one that has not got to its verdict, is
\* not decided; what has not been through dispatchWebhook has no POST but the
\* attempts its worker counts.
Untouched(j) == status[j] \notin Terminal /\ posts[j] = 0 /\ j \notin acked
UntouchedNext(j) == status'[j] \notin Terminal /\ posts'[j] = 0 /\ j \notin acked'
Pending ==
    /\ \A j \in JobIds : status[j] = "none" => posts[j] = 0 /\ j \notin acked
    /\ \A r \in Requests : rpc[r] = "send" => Untouched(rid[r])
    /\ \A i \in 1..Len(jobsChan) : Untouched(jobsChan[i])
    /\ \A w \in Workers :
        /\ wpc[w] \in Undecided => status[wjob[w]] \notin Terminal
        /\ Busy(w) /\ wpc[w] # "cleanup" =>
            posts[wjob[w]] = attempt[w] /\ wjob[w] \notin acked

HandlerInv == TypeInv /\ OneHandler /\ FreshRows
DecisionInv == HandlerInv /\ Pending

\* The elements of a sequence, and that none occurs twice.
Occurs(s, e) == \E i \in 1..Len(s) : s[i] = e
NoRepeats(s) == \A i, k \in 1..Len(s) : s[i] = s[k] => i = k

\* What Append does to both.
LEMMA AppendElements ==
    ASSUME NEW S, NEW s \in Seq(S), NEW e \in S
    PROVE  /\ \A x : Occurs(Append(s, e), x) <=> Occurs(s, x) \/ x = e
           /\ NoRepeats(s) /\ ~Occurs(s, e) => NoRepeats(Append(s, e))
<1> DEFINE t == Append(s, e)
<1>1. Len(s) \in Nat /\ Len(t) = Len(s) + 1
    OBVIOUS
<1>2. \A i \in 1..Len(s) : t[i] = s[i]
    OBVIOUS
<1>3. t[Len(s) + 1] = e
    OBVIOUS
<1>4. \A i \in 1..Len(t) : i \in 1..Len(s) \/ i = Len(s) + 1
    BY <1>1
<1> HIDE DEF t
<1>5. ASSUME NEW x PROVE Occurs(t, x) <=> Occurs(s, x) \/ x = e
    <2>1. ASSUME Occurs(t, x) PROVE Occurs(s, x) \/ x = e
        BY <1>2, <1>3, <1>4, <2>1 DEF Occurs
    <2>2. ASSUME Occurs(s, x) PROVE Occurs(t, x)
        <3>1. \A i \in 1..Len(s) : i \in 1..Len(t)
            BY <1>1
        <3> QED BY <1>2, <2>2, <3>1 DEF Occurs
    <2>3. Occurs(t, e)
        <3>1. Len(s) + 1 \in 1..Len(t)
            BY <1>1
        <3> QED BY <1>3, <3>1 DEF Occurs
    <2> QED BY <2>1, <2>2, <2>3
<1>6. ASSUME NoRepeats(s), ~Occurs(s, e) PROVE NoRepeats(t)
    BY <1>1, <1>2, <1>3, <1>4, <1>6 DEF NoRepeats, Occurs
<1> QED BY <1>5, <1>6 DEF t

\* And what Head and Tail do.
LEMMA TailElements ==
    ASSUME NEW S, NEW s \in Seq(S), s # <<>>
    PROVE  /\ Occurs(s, Head(s))
           /\ \A x : Occurs(Tail(s), x) => Occurs(s, x)
           /\ NoRepeats(s) => NoRepeats(Tail(s)) /\ ~Occurs(Tail(s), Head(s))
<1> DEFINE t == Tail(s)
<1>1. Len(s) \in Nat \ {0} /\ Len(t) = Len(s) - 1
    OBVIOUS
<1>2. \A i \in 1..Len(t) : i + 1 \in 1..Len(s) /\ t[i] = s[i + 1]
    BY <1>1
<1>3. 1 \in 1..Len(s) /\ Head(s) = s[1]
    BY <1>1
<1> HIDE DEF t
<1>4. Occurs(s, Head(s))
    BY <1>3 DEF Occurs
<1>5. ASSUME NEW x, Occurs(t, x) PROVE Occurs(s, x)
    BY <1>2, <1>5 DEF Occurs
<1>6. ASSUME NoRepeats(s) PROVE NoRepeats(t)
    BY <1>1, <1>2, <1>6 DEF NoRepeats
<1>7. ASSUME NoRepeats(s) PROVE ~Occurs(t, Head(s))
    <2>1. \A i \in 1..Len(t) : i + 1 # 1
        BY <1>1
    <2> QED BY <1>2, <1>3, <1>7, <2>1 DEF NoRepeats, Occurs
<1> QED BY <1>4, <1>5, <1>6, <1>7 DEF t

\* No step but the insert, the send and the receive puts a job anywhere: when
\* every place only keeps or loses its job, nothing is in two places after it.
Shrinks ==
    /\ jobsChan' \in {jobsChan, <<>>}
    /\ \A r \in Requests : rpc'[r] = "send" => rpc[r] = "send" /\ rid'[r] = rid[r]
    /\ \A w \in Workers : Busy(w)' => Busy(w) /\ wjob'[w] = wjob[w]
    /\ \A j \in JobIds : status'[j] = "none" => status[j] = "none"

LEMMA ShrinkKeepsHandlers ==
    ASSUME HandlerInv, Shrinks
    PROVE  OneHandler' /\ FreshRows'
<1>1. \A j \in JobIds : InChan(j)' => InChan(j)
    BY DEF Shrinks, InChan
<1>2. \A j \in JobIds : Held(j)' => Held(j)
    BY DEF Shrinks, Held
<1>3. \A j \in JobIds : Sending(j)' => Sending(j)
    BY DEF Shrinks, Sending
<1>4. \A r \in Requests : rpc[r] = "send" => rid[r] \in JobIds
    BY DEF HandlerInv, TypeInv, PcOK, Submitting
<1>5. OneHandler'
    <2>1. \A j \in JobIds : InChan(j)' => ~Held(j)'
        BY <1>1, <1>2 DEF HandlerInv, OneHandler
    <2>2. \A k, l \in 1..Len(jobsChan') : jobsChan'[k] = jobsChan'[l] => k = l
        BY DEF Shrinks, HandlerInv, OneHandler
    <2>3. \A w, x \in Workers :
            Busy(w)' /\ Busy(x)' /\ wjob'[w] = wjob'[x] => w = x
        BY DEF Shrinks, HandlerInv, OneHandler
    <2>4. \A r, q \in Requests :
            rpc'[r] = "send" /\ rpc'[q] = "send" /\ rid'[r] = rid'[q] => r = q
        BY DEF Shrinks, HandlerInv, OneHandler
    <2>5. \A r \in Requests :
            rpc'[r] = "send" => ~InChan(rid[r])' /\ ~Held(rid[r])'
        BY <1>1, <1>2, <1>4 DEF Shrinks, HandlerInv, OneHandler
    <2>6. \A r \in Requests : rpc'[r] = "send" => rid'[r] = rid[r]
        BY DEF Shrinks
    <2> QED BY <2>1, <2>2, <2>3, <2>4, <2>5, <2>6 DEF OneHandler, InChan, Held
<1>6. FreshRows'
    BY <1>1, <1>2, <1>3 DEF Shrinks, HandlerInv, FreshRows
<1> QED BY <1>5, <1>6

LEMMA HandlerInit == Init => HandlerInv
BY TypeInit, ConstantsAssumption
   DEF ConstantsAssumption, Init, HandlerInv, OneHandler, FreshRows, InChan, Held, Busy, Sending

LEMMA HandlerStep == HandlerInv /\ [Next]_vars => HandlerInv'
<1> SUFFICES ASSUME HandlerInv, [Next]_vars PROVE OneHandler' /\ FreshRows'
    BY TypeStep DEF HandlerInv
<1> USE DEF Shrinks, HandlerInv, TypeInv, TypeOK, PcOK, RowTypes, QueueTypes, RequestTypes,
        WorkerTypes, Busy, Answered, Submitting, WorkerGoto
<1>1. ASSUME NEW r \in Requests, RejectRequest(r) PROVE OneHandler' /\ FreshRows'
    <2> USE <1>1 DEF RejectRequest, Accepting, submitFrame, workerVars, hookVars, dbVars, spoolVars
    <2>1. Shrinks
        OBVIOUS
    <2> QED BY <2>1, ShrinkKeepsHandlers
<1>2. ASSUME NEW r \in Requests, NameJob(r) PROVE OneHandler' /\ FreshRows'
    <2> USE <1>2 DEF NameJob, submitFrame, workerVars, hookVars, dbVars, spoolVars
    <2>1. Shrinks
        OBVIOUS
    <2> QED BY <2>1, ShrinkKeepsHandlers
<1>3. ASSUME NEW r \in Requests, CreateSpool(r) PROVE OneHandler' /\ FreshRows'
    <2> USE <1>3 DEF CreateSpool, submitFrame, workerVars, hookVars, dbVars, spoolVars
    <2>1. Shrinks
        OBVIOUS
    <2> QED BY <2>1, ShrinkKeepsHandlers
<1>4. ASSUME NEW r \in Requests, CopyBody(r) PROVE OneHandler' /\ FreshRows'
    <2> USE <1>4 DEF CopyBody, submitFrame, workerVars, hookVars, dbVars, spoolVars
    <2>1. Shrinks
        OBVIOUS
    <2> QED BY <2>1, ShrinkKeepsHandlers
<1>5. ASSUME NEW r \in Requests, InsertScanJob(r) PROVE OneHandler' /\ FreshRows'
    <2> USE <1>5 DEF InsertScanJob, submitFrame, workerVars, hookVars, dbVars, spoolVars
    <2>1. CASE dir' = dir /\ status[rid[r]] = "none"
            /\ status' = [status EXCEPT ![rid[r]] = "QUEUED"]
            /\ rpc' = [rpc EXCEPT ![r] = "send"]
        <3>1. rid[r] \in JobIds /\ ~InChan(rid[r]) /\ ~Held(rid[r]) /\ ~Sending(rid[r])
            BY <2>1 DEF FreshRows
        <3>2. UNCHANGED <<jobsChan, rid, wpc, wjob>>
            OBVIOUS
        <3>3. OneHandler'
            BY <2>1, <3>1, <3>2 DEF OneHandler, InChan, Held, Sending
        <3>4. FreshRows'
            BY <2>1, <3>1, <3>2 DEF FreshRows, InChan, Held, Sending
        <3> QED BY <3>3, <3>4
    <2>2. CASE UNCHANGED status /\ rpc' = [rpc EXCEPT ![r] = "rejected"]
        <3>1. Shrinks
            BY <2>2
        <3> QED BY <3>1, ShrinkKeepsHandlers
    <2> QED BY <2>1, <2>2 DEF RowExists
<1>6. ASSUME NEW r \in Requests, Enqueue(r) PROVE OneHandler' /\ FreshRows'
    <2> USE <1>6 DEF Enqueue, submitFrame, workerVars, hookVars, dbVars, spoolVars
    <2>1. CASE jobsChan' = Append(jobsChan, rid[r]) /\ rpc' = [rpc EXCEPT ![r] = "accepted"]
        <3>1. rid[r] \in JobIds /\ ~InChan(rid[r]) /\ ~Held(rid[r])
            BY DEF OneHandler
        <3>2. UNCHANGED <<rid, wpc, wjob, status>>
            OBVIOUS
        <3>3. \A j \in JobIds : InChan(j)' <=> InChan(j) \/ j = rid[r]
            <4>1. \A x : Occurs(jobsChan', x) <=> Occurs(jobsChan, x) \/ x = rid[r]
                BY <2>1, <3>1, AppendElements
            <4> QED BY <3>2, <4>1 DEF InChan, Occurs
        <3>4. NoRepeats(jobsChan')
            BY <2>1, <3>1, AppendElements DEF OneHandler, InChan, Occurs, NoRepeats
        <3>5. \A j \in JobIds : Held(j)' <=> Held(j)
            BY <3>2 DEF Held
        <3>6. OneHandler'
            <4>1. \A j \in JobIds : InChan(j)' => ~Held(j)'
                BY <3>1, <3>3, <3>5 DEF OneHandler
            <4>2. \A k, l \in 1..Len(jobsChan') : jobsChan'[k] = jobsChan'[l] => k = l
                BY <3>4 DEF NoRepeats
            <4>3. \A w, x \in Workers :
                    Busy(w)' /\ Busy(x)' /\ wjob'[w] = wjob'[x] => w = x
                BY <3>2 DEF OneHandler
            <4>4. \A q, s \in Requests :
                    rpc'[q] = "send" /\ rpc'[s] = "send" /\ rid'[q] = rid'[s] => q = s
                BY <2>1, <3>2 DEF OneHandler
            <4>5. \A q \in Requests : rpc'[q] = "send" =>
                    rid[q] \in JobIds /\ ~InChan(rid[q])' /\ ~Held(rid[q])'
                BY <2>1, <3>2, <3>3, <3>5 DEF OneHandler
            <4> QED BY <3>2, <4>1, <4>2, <4>3, <4>4, <4>5 DEF OneHandler, InChan, Held
        <3>7. FreshRows'
            <4>1. status[rid[r]] # "none"
                BY <3>1 DEF FreshRows, Sending
            <4>2. \A j \in JobIds : Sending(j)' => Sending(j)
                BY <2>1, <3>2 DEF Sending
            <4> QED BY <3>2, <3>3, <3>5, <4>1, <4>2 DEF FreshRows
        <3> QED BY <3>6, <3>7
    <2>2. CASE UNCHANGED jobsChan /\ rpc' = [rpc EXCEPT ![r] = "accepted"]
        <3>1. Shrinks
            BY <2>2
        <3> QED BY <3>1, ShrinkKeepsHandlers
    <2>3. CASE UNCHANGED jobsChan /\ rpc' = [rpc EXCEPT ![r] = "panicked"]
        <3>1. Shrinks
            BY <2>3
        <3> QED BY <3>1, ShrinkKeepsHandlers
    <2> QED BY <2>1, <2>2, <2>3 DEF DropJob
<1>7. ASSUME NEW w \in Workers, Receive(w) PROVE OneHandler' /\ FreshRows'
    <2> USE <1>7 DEF Receive, workerFrame, submitVars, rowVars, locals, hookVars
    <2> DEFINE job == Head(jobsChan)
    <2>1. job \in JobIds /\ jobsChan # <<>> /\ jobsChan' = Tail(jobsChan)
        OBVIOUS
    <2>2. Occurs(jobsChan, job) /\ NoRepeats(jobsChan)
        BY <2>1, TailElements DEF OneHandler, NoRepeats
    <2>3. InChan(job) /\ ~Held(job) /\ ~Sending(job)
        BY <2>1, <2>2 DEF OneHandler, InChan, Occurs, Sending
    <2>4. UNCHANGED <<rpc, rid, status>>
        OBVIOUS
    <2>5. \A j \in JobIds : InChan(j)' => InChan(j) /\ j # job
        <3>1. \A x : Occurs(jobsChan', x) => Occurs(jobsChan, x) /\ x # job
            BY <2>1, <2>2, TailElements
        <3> QED BY <3>1 DEF InChan, Occurs
    <2>6. \A x \in Workers : Busy(x)' => x = w \/ (Busy(x) /\ wjob'[x] = wjob[x])
        OBVIOUS
    <2>7. wjob'[w] = job
        OBVIOUS
    <2>8. \A j \in JobIds : Held(j)' => Held(j) \/ j = job
        BY <2>6, <2>7 DEF Held
    <2>9. OneHandler'
        <3>1. \A j \in JobIds : InChan(j)' => ~Held(j)'
            BY <2>5, <2>8 DEF OneHandler
        <3>2. \A k, l \in 1..Len(jobsChan') : jobsChan'[k] = jobsChan'[l] => k = l
            <4>1. NoRepeats(jobsChan')
                BY <2>1, <2>2, TailElements
            <4> QED BY <4>1 DEF NoRepeats
        <3>3. \A x, y \in Workers :
                Busy(x)' /\ Busy(y)' /\ wjob'[x] = wjob'[y] => x = y
            BY <2>3, <2>6, <2>7 DEF OneHandler, Held
        <3>4. \A q, s \in Requests :
                rpc'[q] = "send" /\ rpc'[s] = "send" /\ rid'[q] = rid'[s] => q = s
            BY <2>4 DEF OneHandler
        <3>5. \A q \in Requests : rpc'[q] = "send" =>
                rid[q] \in JobIds /\ ~InChan(rid[q])' /\ ~Held(rid[q])'
            BY <2>3, <2>4, <2>5, <2>8 DEF OneHandler, Sending
        <3> QED BY <2>4, <3>1, <3>2, <3>3, <3>4, <3>5 DEF OneHandler, InChan, Held
    <2>10. FreshRows'
        <3>1. status[job] # "none"
            BY <2>1, <2>3 DEF FreshRows
        <3>2. \A j \in JobIds : Sending(j)' <=> Sending(j)
            BY <2>4 DEF Sending
        <3> QED BY <2>4, <2>5, <2>8, <3>1, <3>2 DEF FreshRows
    <2> QED BY <2>9, <2>10
<1>8. ASSUME NEW w \in Workers, WorkerExit(w) PROVE OneHandler' /\ FreshRows'
    <2> USE <1>8 DEF WorkerExit, workerFrame, submitVars, rowVars, locals, hookVars
    <2>1. Shrinks
        OBVIOUS
    <2> QED BY <2>1, ShrinkKeepsHandlers
<1>9. ASSUME NEW w \in Workers, MarkProcessing(w) PROVE OneHandler' /\ FreshRows'
    <2> USE <1>9 DEF MarkProcessing, UpdateScanJobStatus, workerFrame, submitVars, rowVars, locals, hookVars
    <2>1. Shrinks
        OBVIOUS
    <2> QED BY <2>1, ShrinkKeepsHandlers
<1>10. ASSUME NEW w \in Workers, OpenSpool(w) PROVE OneHandler' /\ FreshRows'
    <2> USE <1>10 DEF OpenSpool, workerFrame, submitVars, rowVars, locals, hookVars
    <2>1. Shrinks
        OBVIOUS
    <2> QED BY <2>1, ShrinkKeepsHandlers
<1>11. ASSUME NEW w \in Workers, RecordOpenFailure(w) PROVE OneHandler' /\ FreshRows'
    <2> USE <1>11 DEF RecordOpenFailure, UpdateScanJobStatus, workerFrame, submitVars, rowVars, locals, hookVars
    <2>1. Shrinks
        OBVIOUS
    <2> QED BY <2>1, ShrinkKeepsHandlers
<1>12. ASSUME NEW w \in Workers, RecordScanFailure(w) PROVE OneHandler' /\ FreshRows'
    <2> USE <1>12 DEF RecordScanFailure, UpdateScanJobStatus, workerFrame, submitVars, rowVars, locals, hookVars
    <2>1. Shrinks
        OBVIOUS
    <2> QED BY <2>1, ShrinkKeepsHandlers
<1>13. ASSUME NEW w \in Workers, QuarantineFile(w) PROVE OneHandler' /\ FreshRows'
    <2> USE <1>13 DEF QuarantineFile, workerFrame, submitVars, rowVars, locals, hookVars
    <2>1. Shrinks
        OBVIOUS
    <2> QED BY <2>1, ShrinkKeepsHandlers
<1>14. ASSUME NEW w \in Workers, DropSpool(w) PROVE OneHandler' /\ FreshRows'
    <2> USE <1>14 DEF DropSpool, workerFrame, submitVars, rowVars, locals, hookVars
    <2>1. Shrinks
        OBVIOUS
    <2> QED BY <2>1, ShrinkKeepsHandlers
<1>15. ASSUME NEW w \in Workers, RecordVerdict(w) PROVE OneHandler' /\ FreshRows'
    <2> USE <1>15 DEF RecordVerdict, UpdateScanJobStatus, workerFrame, submitVars, rowVars, locals, hookVars
    <2>1. Shrinks
        OBVIOUS
    <2> QED BY <2>1, ShrinkKeepsHandlers
<1>16. ASSUME NEW w \in Workers, InsertScanAuditLog(w) PROVE OneHandler' /\ FreshRows'
    <2> USE <1>16 DEF InsertScanAuditLog, workerFrame, submitVars, rowVars, locals, hookVars
    <2>1. Shrinks
        OBVIOUS
    <2> QED BY <2>1, ShrinkKeepsHandlers
<1>17. ASSUME NEW w \in Workers, DispatchThreat(w) PROVE OneHandler' /\ FreshRows'
    <2> USE <1>17 DEF DispatchThreat, workerFrame, submitVars, rowVars, locals, hookVars
    <2>1. Shrinks
        OBVIOUS
    <2> QED BY <2>1, ShrinkKeepsHandlers
<1>18. ASSUME NEW w \in Workers, PostWebhook(w) PROVE OneHandler' /\ FreshRows'
    <2> USE <1>18 DEF PostWebhook, StopsRetrying, workerFrame, submitVars, rowVars, locals, hookVars
    <2>1. Shrinks
        OBVIOUS
    <2> QED BY <2>1, ShrinkKeepsHandlers
<1>19. ASSUME NEW w \in Workers, Cleanup(w) PROVE OneHandler' /\ FreshRows'
    <2> USE <1>19 DEF Cleanup, workerFrame, submitVars, rowVars, locals, hookVars
    <2>1. Shrinks
        OBVIOUS
    <2> QED BY <2>1, ShrinkKeepsHandlers
<1>20. ASSUME NEW w \in Workers, ScanStream(w) PROVE OneHandler' /\ FreshRows'
    <2> USE <1>20 DEF ScanStream, AfterScan, ScanVerdicts, workerFrame, submitVars, rowVars, locals, hookVars
    <2>1. Shrinks
        OBVIOUS
    <2> QED BY <2>1, ShrinkKeepsHandlers
<1>21. ASSUME BeginStop PROVE OneHandler' /\ FreshRows'
    <2> USE <1>21 DEF BeginStop, mainFrame, dbVars, spoolVars, submitVars, workerVars, hookVars, locals
    <2>1. Shrinks
        OBVIOUS
    <2> QED BY <2>1, ShrinkKeepsHandlers
<1>22. ASSUME StopReturns PROVE OneHandler' /\ FreshRows'
    <2> USE <1>22 DEF StopReturns, mainFrame, dbVars, spoolVars, submitVars, workerVars, hookVars, locals
    <2>1. Shrinks
        OBVIOUS
    <2> QED BY <2>1, ShrinkKeepsHandlers
<1>23. ASSUME Exit PROVE OneHandler' /\ FreshRows'
    <2> USE <1>23 DEF Exit, ProcessEnds, mainFrame, dbVars, spoolVars, submitVars, workerVars, hookVars, locals
    <2>1. Shrinks
        OBVIOUS
    <2> QED BY <2>1, ShrinkKeepsHandlers
<1>24. ASSUME Crash PROVE OneHandler' /\ FreshRows'
    <2> USE <1>24 DEF Crash, ProcessEnds, mainFrame, dbVars, spoolVars, submitVars, workerVars, hookVars, locals
    <2>1. Shrinks
        OBVIOUS
    <2> QED BY <2>1, ShrinkKeepsHandlers
<1>25. ASSUME Start PROVE OneHandler' /\ FreshRows'
    <2> USE <1>25 DEF Start, mainFrame, dbVars, spoolVars, submitVars, workerVars, hookVars, locals
    <2>1. Shrinks
        OBVIOUS
    <2> QED BY <2>1, ShrinkKeepsHandlers
<1>26. ASSUME UNCHANGED vars PROVE OneHandler' /\ FreshRows'
    BY <1>26, ShrinkKeepsHandlers DEF vars
<1> QED
    BY <1>1, <1>2, <1>3, <1>4, <1>5, <1>6, <1>7, <1>8, <1>9, <1>10, <1>11, <1>12, <1>13, <1>14, <1>15, <1>16, <1>17, <1>18, <1>19, <1>20, <1>21, <1>22, <1>23, <1>24, <1>25, <1>26 DEF Next, SubmitJob, WorkerStep, Off

\* A job has one handler, for every interleaving of requests, workers, crashes
\* and restarts, with failing statements and a clock that repeats itself.
THEOREM OneHandlerAlways == Spec => []OneHandler
<1>1. HandlerInv => OneHandler
    BY DEF HandlerInv
<1> QED
    BY HandlerInit, HandlerStep, <1>1, PTL DEF Spec

-----------------------------------------------------------------------------
Final == \A j \in JobIds : KeepsDecision(j)

\* The steps that write no row and post nothing, and that bring no worker back.
Quiet ==
    /\ Shrinks
    /\ UNCHANGED <<status, verdict, posts, acked>>
    /\ \A w \in Workers :
        /\ wpc'[w] \in Undecided => wpc[w] \in Undecided
        /\ Busy(w)' /\ wpc'[w] # "cleanup" =>
            wpc[w] # "cleanup" /\ attempt'[w] = attempt[w]

LEMMA QuietKeepsPending ==
    ASSUME DecisionInv, Quiet
    PROVE  Pending' /\ Final
<1>1. \A r \in Requests : rpc'[r] = "send" => UntouchedNext(rid'[r])
    BY DEF DecisionInv, Pending, Quiet, Shrinks, Untouched, UntouchedNext
<1>2. \A k \in 1..Len(jobsChan') : UntouchedNext(jobsChan'[k])
    BY DEF DecisionInv, Pending, Quiet, Shrinks, Untouched, UntouchedNext
<1>3. \A w \in Workers :
        /\ wpc'[w] \in Undecided => status'[wjob'[w]] \notin Terminal
        /\ Busy(w)' /\ wpc'[w] # "cleanup" =>
            posts'[wjob'[w]] = attempt'[w] /\ wjob'[w] \notin acked'
    BY DEF DecisionInv, Pending, Quiet, Shrinks, Busy, Undecided
<1>4. Final
    BY DEF Final, KeepsDecision, Quiet
<1> QED BY <1>1, <1>2, <1>3, <1>4 DEF Pending, Quiet, DecisionInv, Untouched, UntouchedNext

\* What a worker's UPDATE does: it writes the row of its own job, which nobody
\* else has, and which is not decided yet.
Writes(w, s) ==
    /\ Shrinks
    /\ w \in Workers /\ wpc[w] \in Undecided /\ Busy(w) /\ wjob[w] \in JobIds
    /\ s # "none"
    /\ \A j \in JobIds : j # wjob[w] => status'[j] = status[j] /\ verdict'[j] = verdict[j]
    /\ status'[wjob[w]] \in {status[wjob[w]], s}
    /\ UNCHANGED <<posts, acked, wjob, attempt>>
    /\ wpc'[w] \in Undecided => s \notin Terminal
    /\ wpc'[w] # "cleanup" => Busy(w)'
    /\ \A x \in Workers : x # w => wpc'[x] = wpc[x]

LEMMA WriteKeepsPending ==
    ASSUME DecisionInv, NEW w, NEW s, Writes(w, s)
    PROVE  Pending' /\ Final
<1>1. \A r \in Requests : rpc[r] = "send" => rid[r] \in JobIds
    BY DEF DecisionInv, HandlerInv, TypeInv, PcOK, Submitting
<1>2. \A k \in 1..Len(jobsChan) : jobsChan[k] \in JobIds
    BY DEF DecisionInv, HandlerInv, TypeInv, TypeOK, QueueTypes
<1>3. \A x \in Workers : Busy(x) => wjob[x] \in JobIds
    BY DEF DecisionInv, HandlerInv, TypeInv, PcOK
<1>4. Held(wjob[w])
    BY DEF Writes, Held
<1>5. \A r \in Requests : rpc'[r] = "send" => UntouchedNext(rid'[r])
    <2>1. \A r \in Requests : rpc[r] = "send" => rid[r] # wjob[w]
        BY <1>1, <1>4 DEF DecisionInv, HandlerInv, OneHandler
    <2> QED BY <1>1, <2>1 DEF DecisionInv, Pending, Writes, Shrinks, Untouched, UntouchedNext
<1>6. \A k \in 1..Len(jobsChan') : UntouchedNext(jobsChan'[k])
    <2>1. \A k \in 1..Len(jobsChan) : jobsChan[k] # wjob[w]
        BY <1>2, <1>4 DEF DecisionInv, HandlerInv, OneHandler, InChan
    <2> QED BY <1>2, <2>1 DEF DecisionInv, Pending, Writes, Shrinks, Untouched, UntouchedNext
<1>7. \A x \in Workers : x # w /\ Busy(x) => wjob[x] # wjob[w]
    BY DEF DecisionInv, HandlerInv, OneHandler, Writes
<1>8. ASSUME NEW x \in Workers
      PROVE  /\ wpc'[x] \in Undecided => status'[wjob'[x]] \notin Terminal
             /\ Busy(x)' /\ wpc'[x] # "cleanup" =>
                posts'[wjob'[x]] = attempt'[x] /\ wjob'[x] \notin acked'
    <2>1. CASE x = w
        BY <2>1 DEF DecisionInv, Pending, Writes, Busy, Undecided
    <2>2. CASE x # w
        BY <1>3, <1>7, <2>2 DEF DecisionInv, Pending, Writes, Busy, Undecided
    <2> QED BY <2>1, <2>2
<1>9. \A j \in JobIds : status'[j] = "none" => posts'[j] = 0 /\ j \notin acked'
    BY DEF DecisionInv, Pending, Writes, Shrinks
<1>10. Final
    <2>1. status[wjob[w]] \notin Terminal
        BY DEF DecisionInv, Pending, Writes
    <2> QED BY <2>1 DEF Final, KeepsDecision, Writes
<1> QED BY <1>5, <1>6, <1>8, <1>9, <1>10 DEF Pending, Untouched, UntouchedNext

LEMMA DecisionInit == Init => DecisionInv
BY HandlerInit, ConstantsAssumption
   DEF ConstantsAssumption, Init, DecisionInv, Pending, Busy, Undecided

LEMMA DecisionStep == DecisionInv /\ [Next]_vars => DecisionInv' /\ Final
<1> SUFFICES ASSUME DecisionInv, [Next]_vars PROVE Pending' /\ Final
    BY HandlerStep DEF DecisionInv
<1> USE DEF Shrinks, DecisionInv, HandlerInv, TypeInv, TypeOK, PcOK, RowTypes, QueueTypes,
        RequestTypes, WorkerTypes, Busy, Answered, Submitting, WorkerGoto, Undecided
<1>1. ASSUME NEW r \in Requests, RejectRequest(r) PROVE Pending' /\ Final
    <2> USE <1>1 DEF RejectRequest, Accepting, submitFrame, workerVars, hookVars, dbVars, spoolVars
    <2>1. Quiet
        BY DEF Quiet
    <2> QED BY <2>1, QuietKeepsPending
<1>2. ASSUME NEW r \in Requests, NameJob(r) PROVE Pending' /\ Final
    <2> USE <1>2 DEF NameJob, submitFrame, workerVars, hookVars, dbVars, spoolVars
    <2>1. Quiet
        BY DEF Quiet
    <2> QED BY <2>1, QuietKeepsPending
<1>3. ASSUME NEW r \in Requests, CreateSpool(r) PROVE Pending' /\ Final
    <2> USE <1>3 DEF CreateSpool, submitFrame, workerVars, hookVars, dbVars, spoolVars
    <2>1. Quiet
        BY DEF Quiet
    <2> QED BY <2>1, QuietKeepsPending
<1>4. ASSUME NEW r \in Requests, CopyBody(r) PROVE Pending' /\ Final
    <2> USE <1>4 DEF CopyBody, submitFrame, workerVars, hookVars, dbVars, spoolVars
    <2>1. Quiet
        BY DEF Quiet
    <2> QED BY <2>1, QuietKeepsPending
<1>5. ASSUME NEW r \in Requests, InsertScanJob(r) PROVE Pending' /\ Final
    <2> USE <1>5 DEF InsertScanJob, submitFrame, workerVars, hookVars, dbVars, spoolVars
    <2>1. CASE status[rid[r]] = "none" /\ status' = [status EXCEPT ![rid[r]] = "QUEUED"]
            /\ rpc' = [rpc EXCEPT ![r] = "send"]
        <3>1. rid[r] \in JobIds /\ posts[rid[r]] = 0 /\ rid[r] \notin acked
              /\ ~InChan(rid[r]) /\ ~Held(rid[r]) /\ ~Sending(rid[r])
            BY <2>1 DEF FreshRows, Pending
        <3>2. UNCHANGED <<jobsChan, rid, wpc, wjob, attempt, posts, acked, verdict>>
            OBVIOUS
        <3>3. \A q \in Requests : rpc'[q] = "send" => UntouchedNext(rid'[q])
            BY <2>1, <3>1, <3>2 DEF Pending, Untouched, UntouchedNext, Terminal
        <3>4. \A k \in 1..Len(jobsChan') : UntouchedNext(jobsChan'[k])
            BY <2>1, <3>1, <3>2 DEF Pending, Untouched, UntouchedNext, Terminal, InChan
        <3>5. \A w \in Workers :
                /\ wpc'[w] \in Undecided => status'[wjob'[w]] \notin Terminal
                /\ Busy(w)' /\ wpc'[w] # "cleanup" =>
                    posts'[wjob'[w]] = attempt'[w] /\ wjob'[w] \notin acked'
            BY <2>1, <3>1, <3>2 DEF Pending, Held
        <3>6. Final
            BY <2>1, <3>1, <3>2 DEF Final, KeepsDecision, Terminal
        <3>7. \A j \in JobIds : status'[j] = "none" => posts'[j] = 0 /\ j \notin acked'
            BY <2>1, <3>2 DEF Pending
        <3> QED BY <3>3, <3>4, <3>5, <3>6, <3>7 DEF Pending, Untouched, UntouchedNext
    <2>2. CASE UNCHANGED status /\ rpc' = [rpc EXCEPT ![r] = "rejected"]
        <3>1. Quiet
            BY <2>2 DEF Quiet
        <3> QED BY <3>1, QuietKeepsPending
    <2> QED BY <2>1, <2>2 DEF RowExists
<1>6. ASSUME NEW r \in Requests, Enqueue(r) PROVE Pending' /\ Final
    <2> USE <1>6 DEF Enqueue, submitFrame, workerVars, hookVars, dbVars, spoolVars
    <2>1. CASE jobsChan' = Append(jobsChan, rid[r]) /\ rpc' = [rpc EXCEPT ![r] = "accepted"]
        <3>1. rid[r] \in JobIds /\ Untouched(rid[r])
            BY DEF Pending
        <3>2. UNCHANGED <<rid, wpc, wjob, attempt, status, verdict, posts, acked>>
            OBVIOUS
        <3>3. \A x : Occurs(jobsChan', x) <=> Occurs(jobsChan, x) \/ x = rid[r]
            BY <2>1, <3>1, AppendElements
        <3>4. \A x : Occurs(jobsChan, x) => Untouched(x)
            BY DEF Pending, Occurs
        <3>5. \A k \in 1..Len(jobsChan') : UntouchedNext(jobsChan'[k])
            <4>1. ASSUME NEW k \in 1..Len(jobsChan') PROVE Untouched(jobsChan'[k])
                BY <3>1, <3>3, <3>4 DEF Occurs
            <4> QED BY <3>2, <4>1 DEF Untouched, UntouchedNext
        <3>6. \A q \in Requests : rpc'[q] = "send" => UntouchedNext(rid'[q])
            BY <2>1, <3>2 DEF Pending, Untouched, UntouchedNext
        <3>7. Final
            BY <3>2 DEF Final, KeepsDecision
        <3> QED BY <3>2, <3>5, <3>6, <3>7 DEF Pending, Untouched, UntouchedNext
    <2>2. CASE UNCHANGED jobsChan /\ rpc' \in {[rpc EXCEPT ![r] = "accepted"],
                                             [rpc EXCEPT ![r] = "panicked"]}
        <3>1. Quiet
            BY <2>2 DEF Quiet
        <3> QED BY <3>1, QuietKeepsPending
    <2> QED BY <2>1, <2>2 DEF DropJob
<1>7. ASSUME NEW w \in Workers, Receive(w) PROVE Pending' /\ Final
    <2> USE <1>7 DEF Receive, workerFrame, submitVars, rowVars, locals, hookVars
    <2> DEFINE job == Head(jobsChan)
    <2>1. job \in JobIds /\ jobsChan # <<>> /\ jobsChan' = Tail(jobsChan)
        OBVIOUS
    <2>2. Occurs(jobsChan, job) /\ \A x : Occurs(jobsChan', x) => Occurs(jobsChan, x)
        BY <2>1, TailElements
    <2>3. \A x : Occurs(jobsChan, x) => Untouched(x)
        BY DEF Pending, Occurs
    <2>4. UNCHANGED <<rpc, rid, attempt, status, verdict, posts, acked>>
        OBVIOUS
    <2>5. attempt[w] = 0
        OBVIOUS
    <2>6. \A k \in 1..Len(jobsChan') : UntouchedNext(jobsChan'[k])
        <3>1. ASSUME NEW k \in 1..Len(jobsChan') PROVE Untouched(jobsChan'[k])
            BY <2>2, <2>3 DEF Occurs
        <3> QED BY <2>4, <3>1 DEF Untouched, UntouchedNext
    <2>7. \A x \in Workers :
            /\ wpc'[x] \in Undecided => status'[wjob'[x]] \notin Terminal
            /\ Busy(x)' /\ wpc'[x] # "cleanup" =>
                posts'[wjob'[x]] = attempt'[x] /\ wjob'[x] \notin acked'
        BY <2>2, <2>3, <2>4, <2>5 DEF Pending, Untouched, UntouchedNext
    <2>8. Final
        BY <2>4 DEF Final, KeepsDecision
    <2>9. \A q \in Requests : rpc'[q] = "send" => UntouchedNext(rid'[q])
        BY <2>4 DEF Pending, Untouched, UntouchedNext
    <2> QED BY <2>4, <2>6, <2>7, <2>8, <2>9 DEF Pending, Untouched, UntouchedNext
<1>8. ASSUME NEW w \in Workers, WorkerExit(w) PROVE Pending' /\ Final
    <2> USE <1>8 DEF WorkerExit, workerFrame, submitVars, rowVars, locals, hookVars
    <2>1. Quiet
        BY DEF Quiet
    <2> QED BY <2>1, QuietKeepsPending
<1>9. ASSUME NEW w \in Workers, MarkProcessing(w) PROVE Pending' /\ Final
    <2> USE <1>9 DEF MarkProcessing, workerFrame, submitVars, rowVars, locals, hookVars
    <2>1. Writes(w, "PROCESSING")
        BY DEF Writes, UpdateScanJobStatus, Terminal
    <2> QED BY <2>1, WriteKeepsPending
<1>10. ASSUME NEW w \in Workers, OpenSpool(w) PROVE Pending' /\ Final
    <2> USE <1>10 DEF OpenSpool, workerFrame, submitVars, rowVars, locals, hookVars
    <2>1. Quiet
        BY DEF Quiet
    <2> QED BY <2>1, QuietKeepsPending
<1>11. ASSUME NEW w \in Workers, RecordOpenFailure(w) PROVE Pending' /\ Final
    <2> USE <1>11 DEF RecordOpenFailure, workerFrame, submitVars, rowVars, locals, hookVars
    <2>1. Writes(w, "FAILED")
        BY DEF Writes, UpdateScanJobStatus, Terminal
    <2> QED BY <2>1, WriteKeepsPending
<1>12. ASSUME NEW w \in Workers, RecordScanFailure(w) PROVE Pending' /\ Final
    <2> USE <1>12 DEF RecordScanFailure, workerFrame, submitVars, rowVars, locals, hookVars
    <2>1. Writes(w, "FAILED")
        BY DEF Writes, UpdateScanJobStatus, Terminal
    <2> QED BY <2>1, WriteKeepsPending
<1>13. ASSUME NEW w \in Workers, QuarantineFile(w) PROVE Pending' /\ Final
    <2> USE <1>13 DEF QuarantineFile, workerFrame, submitVars, rowVars, locals, hookVars
    <2>1. Quiet
        BY DEF Quiet
    <2> QED BY <2>1, QuietKeepsPending
<1>14. ASSUME NEW w \in Workers, DropSpool(w) PROVE Pending' /\ Final
    <2> USE <1>14 DEF DropSpool, workerFrame, submitVars, rowVars, locals, hookVars
    <2>1. Quiet
        BY DEF Quiet
    <2> QED BY <2>1, QuietKeepsPending
<1>15. ASSUME NEW w \in Workers, RecordVerdict(w) PROVE Pending' /\ Final
    <2> USE <1>15 DEF RecordVerdict, workerFrame, submitVars, rowVars, locals, hookVars
    <2>1. Writes(w, "COMPLETED")
        BY DEF Writes, UpdateScanJobStatus, Terminal
    <2> QED BY <2>1, WriteKeepsPending
<1>16. ASSUME NEW w \in Workers, InsertScanAuditLog(w) PROVE Pending' /\ Final
    <2> USE <1>16 DEF InsertScanAuditLog, AfterAudit, workerFrame, submitVars, rowVars, locals, hookVars
    <2>1. Quiet
        BY DEF Quiet
    <2> QED BY <2>1, QuietKeepsPending
<1>17. ASSUME NEW w \in Workers, DispatchThreat(w) PROVE Pending' /\ Final
    <2> USE <1>17 DEF DispatchThreat, workerFrame, submitVars, rowVars, locals, hookVars
    <2>1. Quiet
        BY DEF Quiet
    <2> QED BY <2>1, QuietKeepsPending
<1>18. ASSUME NEW w \in Workers, PostWebhook(w) PROVE Pending' /\ Final
    <2> USE <1>18 DEF PostWebhook, StopsRetrying, workerFrame, submitVars, rowVars, locals, hookVars
    <2> DEFINE job == wjob[w]
    <2>1. job \in JobIds /\ attempt[w] \in 0..2 /\ posts[job] = attempt[w] /\ job \notin acked
        BY DEF Pending, MaxAttempts
    <2>2. UNCHANGED <<status, verdict, jobsChan, rpc, rid, wjob>>
        OBVIOUS
    <2>3. posts' = [posts EXCEPT ![job] = attempt[w] + 1]
          /\ attempt' = [attempt EXCEPT ![w] = attempt[w] + 1]
        BY <2>1
    <2>4. acked' \subseteq acked \cup {job}
        OBVIOUS
    <2>5. \/ wpc' = [wpc EXCEPT ![w] = "cleanup"]
          \/ wpc' = [wpc EXCEPT ![w] = "webhook"] /\ acked' = acked
        OBVIOUS
    <2>6. Held(job)
        BY DEF Held
    <2>7. status[job] # "none"
        BY <2>1, <2>6 DEF FreshRows
    <2>8. \A q \in Requests : rpc[q] = "send" => rid[q] \in JobIds /\ rid[q] # job
        BY <2>6 DEF OneHandler
    <2>9. \A q \in Requests : rpc'[q] = "send" => UntouchedNext(rid'[q])
        BY <2>2, <2>3, <2>4, <2>8 DEF Pending, Untouched, UntouchedNext, ObserverTypes
    <2>10. \A k \in 1..Len(jobsChan') : UntouchedNext(jobsChan'[k])
        <3>1. \A k \in 1..Len(jobsChan) : jobsChan[k] \in JobIds /\ jobsChan[k] # job
            BY <2>6 DEF OneHandler, InChan
        <3> QED BY <2>2, <2>3, <2>4, <3>1 DEF Pending, Untouched, UntouchedNext, ObserverTypes
    <2>11. ASSUME NEW x \in Workers
           PROVE  /\ wpc'[x] \in Undecided => status'[wjob'[x]] \notin Terminal
                  /\ Busy(x)' /\ wpc'[x] # "cleanup" =>
                    posts'[wjob'[x]] = attempt'[x] /\ wjob'[x] \notin acked'
        <3>1. CASE x = w
            BY <2>1, <2>2, <2>3, <2>5, <3>1 DEF ObserverTypes
        <3>2. CASE x # w
            <4>1. wpc'[x] = wpc[x] /\ attempt'[x] = attempt[x]
                BY <2>3, <2>5, <3>2
            <4>2. Busy(x) => wjob[x] # job
                BY <3>2 DEF OneHandler
            <4> QED BY <2>2, <2>3, <2>4, <4>1, <4>2 DEF Pending, ObserverTypes
        <3> QED BY <3>1, <3>2
    <2>12. \A j \in JobIds : status'[j] = "none" => posts'[j] = 0 /\ j \notin acked'
        BY <2>2, <2>3, <2>4, <2>7 DEF Pending, ObserverTypes
    <2>13. Final
        BY <2>1, <2>2, <2>3 DEF Final, KeepsDecision, MaxAttempts, ObserverTypes
    <2> QED BY <2>9, <2>10, <2>11, <2>12, <2>13 DEF Pending, Untouched, UntouchedNext
<1>19. ASSUME NEW w \in Workers, Cleanup(w) PROVE Pending' /\ Final
    <2> USE <1>19 DEF Cleanup, workerFrame, submitVars, rowVars, locals, hookVars
    <2>1. Quiet
        BY DEF Quiet
    <2> QED BY <2>1, QuietKeepsPending
<1>20. ASSUME NEW w \in Workers, ScanStream(w) PROVE Pending' /\ Final
    <2> USE <1>20 DEF ScanStream, AfterScan, ScanVerdicts, workerFrame, submitVars, rowVars, locals, hookVars
    <2>1. Quiet
        BY DEF Quiet
    <2> QED BY <2>1, QuietKeepsPending
<1>21. ASSUME BeginStop PROVE Pending' /\ Final
    <2> USE <1>21 DEF BeginStop, mainFrame, dbVars, spoolVars, submitVars, workerVars, hookVars, locals
    <2>1. Quiet
        BY DEF Quiet
    <2> QED BY <2>1, QuietKeepsPending
<1>22. ASSUME StopReturns PROVE Pending' /\ Final
    <2> USE <1>22 DEF StopReturns, mainFrame, dbVars, spoolVars, submitVars, workerVars, hookVars, locals
    <2>1. Quiet
        BY DEF Quiet
    <2> QED BY <2>1, QuietKeepsPending
<1>23. ASSUME Exit PROVE Pending' /\ Final
    <2> USE <1>23 DEF Exit, ProcessEnds, mainFrame, dbVars, spoolVars, submitVars, workerVars, hookVars, locals
    <2>1. Quiet
        BY DEF Quiet
    <2> QED BY <2>1, QuietKeepsPending
<1>24. ASSUME Crash PROVE Pending' /\ Final
    <2> USE <1>24 DEF Crash, ProcessEnds, mainFrame, dbVars, spoolVars, submitVars, workerVars, hookVars, locals
    <2>1. Quiet
        BY DEF Quiet
    <2> QED BY <2>1, QuietKeepsPending
<1>25. ASSUME Start PROVE Pending' /\ Final
    <2> USE <1>25 DEF Start, mainFrame, dbVars, spoolVars, submitVars, workerVars, hookVars, locals
    <2>1. Quiet
        BY DEF Quiet
    <2> QED BY <2>1, QuietKeepsPending
<1>26. ASSUME UNCHANGED vars PROVE Pending' /\ Final
    <2>1. Quiet
        BY <1>26 DEF Quiet, vars
    <2> QED BY <2>1, QuietKeepsPending
<1> QED
    BY <1>1, <1>2, <1>3, <1>4, <1>5, <1>6, <1>7, <1>8, <1>9, <1>10, <1>11, <1>12, <1>13, <1>14, <1>15, <1>16, <1>17, <1>18, <1>19, <1>20, <1>21, <1>22, <1>23, <1>24, <1>25, <1>26 DEF Next, SubmitJob, WorkerStep, Off
=============================================================================
