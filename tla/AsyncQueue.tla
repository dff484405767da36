----------------------------- MODULE AsyncQueue -----------------------------
(***************************************************************************)
(* The asynchronous scan queue (internal/asyncscan/queue.go): HTTP requests *)
(* submit a body, SubmitJob spools it, inserts a scan_jobs row and offers   *)
(* the job to a bounded channel; worker goroutines take jobs from the       *)
(* channel, scan the spool file with clamd, quarantine what is infected,    *)
(* record the verdict and post it to the callback URL.                      *)
(*                                                                         *)
(* The rows, the audit log, the vault and the spool directory survive a     *)
(* crash; the channel, the goroutines and the open files do not.            *)
(***************************************************************************)
EXTENDS Naturals, Sequences, FiniteSets

CONSTANTS
    Requests,       \* requests POST /api/v1/scan/async, one body each
    Infected,       \* the requests whose body ScanStream reports INFECTED
    Workers,        \* the goroutines Start launches (cfg.Workers)
    QueueCapacity,  \* cfg.QueueCapacity, the buffer of jobsChan
    MaxClock,       \* bound: job identifiers are clock readings 1..MaxClock
    ClockSteps,     \* by how much two readings of time.Now().UnixNano() differ:
                    \* {1} for a clock that advances, {0, 1} for a coarse one
    DbFaults,       \* whether a statement on scan_jobs or the audit log can fail
    Crashes,        \* whether the process can be killed at any point
    MaxBoots,       \* bound: how often the service is started
    NoFile, NoJob, NoRequest

ASSUME ConstantsAssumption ==
    /\ Infected \subseteq Requests
    /\ QueueCapacity \in Nat \ {0}          \* NewQueue replaces <= 0 by 100
    /\ MaxClock \in Nat /\ MaxBoots \in Nat
    /\ ClockSteps \subseteq Nat
    /\ DbFaults \in BOOLEAN /\ Crashes \in BOOLEAN
    /\ NoFile \notin Requests /\ NoRequest \notin Requests
    /\ NoJob \notin 1..MaxClock

ASSUME WorkersExist == Workers # {}         \* and cfg.Workers <= 0 by 2

VARIABLES
    \* what survives a crash
    status,     \* scan_jobs.status of each job, "none" when there is no row
    verdict,    \* scan_jobs.verdict, "none" (empty) until the job is decided
    owner,      \* the request whose SubmitJob inserted the row
    audit,      \* verdict of the job's row in scan_audit_logs, or "none"
    quar,       \* the bytes quarantined for the job, or NoFile
    dir,        \* spool directory: the inode at <job>.spool, or NoFile
    data,       \* an inode's bytes: the requests whose bodies were written to it
    \* what a crash loses
    phase,      \* main(): "up", "draining" (in Stop), "drained", "down"
    jobsChan,   \* the channel's buffer
    rpc,        \* where each request is in SubmitJob
    rid,        \* its jobID
    fd,         \* its open spool file
    wpc,        \* where each worker is in processJob
    wjob,       \* the job it holds
    wfd,        \* its open spool file
    wres,       \* the verdict it is handling
    attempt,    \* dispatchWebhook's loop counter
    \* the environment and what an observer has seen
    clock,      \* the last reading of time.Now().UnixNano()
    boots,      \* how often the service was started
    posts,      \* POSTs made for each job
    told,       \* what receivers of callbacks were told: <<job, verdict, quarantine ID given>>
    acked,      \* jobs whose POST was answered with 2xx
    alerted,    \* jobs handed to notifier.DispatchThreat
    lost,       \* jobs with a row that no goroutine of this process will handle
    missed,     \* statements of workers that failed: <<job, "audit" or the status
                \* that was not written>>
    repeated    \* readings of the clock that two requests got

dbVars     == <<status, verdict, owner, audit, quar, missed>>
spoolVars  == <<dir, data>>
submitVars == <<rpc, rid, fd>>
workerVars == <<wpc, wjob, wfd, wres, attempt>>
rowVars    == <<status, verdict, missed>>
locals     == <<wjob, wfd, wres, attempt>>
hookVars   == <<posts, told, acked, alerted>>
\* What no step of a request, of a worker, and of main changes.
submitFrame == <<verdict, audit, quar, missed, phase, workerVars, boots, hookVars>>
workerFrame == <<owner, data, phase, submitVars, clock, repeated, boots, lost>>
mainFrame   == <<dbVars, spoolVars, rid, clock, repeated, hookVars>>
vars == <<status, verdict, owner, audit, quar, dir, data, phase, jobsChan,
          rpc, rid, fd, wpc, wjob, wfd, wres, attempt,
          clock, boots, posts, told, acked, alerted, lost, missed, repeated>>

JobIds    == 1..MaxClock
Statuses  == {"none", "QUEUED", "PROCESSING", "COMPLETED", "FAILED"}
Terminal  == {"COMPLETED", "FAILED"}
Verdicts  == {"CLEAN", "INFECTED", "ERROR"}
MaxAttempts == 3

\* Where a request is; the last four are ends: 202, an error, a panic that
\* net/http recovers, a connection cut by a crash.
SubmitPcs == {"idle", "open", "copy", "insert", "send",
              "accepted", "rejected", "panicked", "aborted"}
Answered  == {"accepted", "rejected", "panicked", "aborted"}

WorkerPcs == {"idle", "claimed", "open", "failOpen", "scan", "failScan",
              "quarantine", "remove", "record", "audit", "alert", "webhook",
              "cleanup", "exited"}

\* Outcomes of a statement whose error the code ignores or handles.
DbOutcomes == IF DbFaults THEN BOOLEAN ELSE {TRUE}

\* The verdict ScanStream can return on an inode holding the bodies C. Two writers
\* on one inode overlay each other, so a mixed file may or may not keep a
\* signature. Infected are the bodies it reports so: one whose signature name has
\* "OK" in it, which parseScanResponse takes for clean, is not among them.
ScanVerdicts(C) ==
    {v \in {"CLEAN", "INFECTED"} :
        /\ v = "INFECTED" => C \cap Infected # {}
        /\ v = "CLEAN" => Cardinality(C) # 1 \/ C \cap Infected = {}}

InChan(j) == \E i \in 1..Len(jobsChan) : jobsChan[i] = j
Busy(w)   == wpc[w] \notin {"idle", "exited"}
Held(j)   == \E w \in Workers : Busy(w) /\ wjob[w] = j

Init ==
    /\ status = [j \in JobIds |-> "none"]
    /\ verdict = [j \in JobIds |-> "none"]
    /\ owner = [j \in JobIds |-> NoRequest]
    /\ audit = [j \in JobIds |-> "none"]
    /\ quar = [j \in JobIds |-> NoFile]
    /\ dir = [j \in JobIds |-> NoFile]
    /\ data = [i \in Requests |-> {}]
    /\ phase = "up"
    /\ jobsChan = <<>>
    /\ rpc = [r \in Requests |-> "idle"]
    /\ rid = [r \in Requests |-> NoJob]
    /\ fd = [r \in Requests |-> NoFile]
    /\ wpc = [w \in Workers |-> "idle"]
    /\ wjob = [w \in Workers |-> NoJob]
    /\ wfd = [w \in Workers |-> NoFile]
    /\ wres = [w \in Workers |-> "none"]
    /\ attempt = [w \in Workers |-> 0]
    /\ clock = 0
    /\ boots = 1
    /\ posts = [j \in JobIds |-> 0]
    /\ told = {} /\ acked = {} /\ alerted = {} /\ lost = {} /\ missed = {} /\ repeated = {}

-----------------------------------------------------------------------------
(* SubmitJob, called from handleScanAsync on a request's own goroutine *)

\* os.Remove(spoolPath): the name goes, open handles keep the inode.
RemoveSpool(j) == dir' = [dir EXCEPT ![j] = NoFile]

\* fmt.Sprintf("job_%d", time.Now().UnixNano()): a name for each reading.
JobNameMicros(t) == (t + 1) \div 2
JobName(t) == t

\* The primary key of scan_jobs.
InsertOrReplace(j) == FALSE
RowExists(j) == status[j] # "none"

UnboundedChannel == FALSE
ChannelFull == Len(jobsChan) >= QueueCapacity

\* Stop has closed the channel.
CloseForgotten == FALSE
ChannelClosed == phase # "up"

Accepting == phase \in {"up", "draining"}

\* The body is too large, a field is missing, or callback_url is refused.
RejectRequest(r) ==
    /\ rpc[r] = "idle" /\ Accepting
    /\ rpc' = [rpc EXCEPT ![r] = "rejected"]
    /\ UNCHANGED <<submitFrame, status, owner, spoolVars, jobsChan, rid, fd, clock, repeated, lost>>

\* The checks pass and the job is named after the clock.
NameJob(r) ==
    /\ rpc[r] = "idle" /\ Accepting
    /\ \E d \in ClockSteps :
        /\ clock + d \in JobIds
        /\ clock' = clock + d
        /\ repeated' = IF d = 0 THEN repeated \cup {clock} ELSE repeated
        /\ rid' = [rid EXCEPT ![r] = JobName(clock + d)]
    /\ rpc' = [rpc EXCEPT ![r] = "open"]
    /\ UNCHANGED <<submitFrame, status, owner, spoolVars, jobsChan, fd, lost>>

\* OpenFile with O_CREATE|O_TRUNC: an existing file is emptied, not replaced.
\* The spool directory may be unusable; then the request fails.
CreateSpool(r) ==
    /\ rpc[r] = "open"
    /\ \/ LET inode == IF dir[rid[r]] = NoFile THEN r ELSE dir[rid[r]]
          IN  /\ dir' = [dir EXCEPT ![rid[r]] = inode]
              /\ data' = [data EXCEPT ![inode] = {}]
              /\ fd' = [fd EXCEPT ![r] = inode]
              /\ rpc' = [rpc EXCEPT ![r] = "copy"]
       \/ /\ rpc' = [rpc EXCEPT ![r] = "rejected"]
          /\ UNCHANGED <<spoolVars, fd>>
    /\ UNCHANGED <<submitFrame, status, owner, jobsChan, rid, clock, repeated, lost>>

\* io.Copy and Close; a failed copy removes the spool file and gives up.
CopyBody(r) ==
    /\ rpc[r] = "copy"
    /\ data' = [data EXCEPT ![fd[r]] = @ \cup {r}]
    /\ fd' = [fd EXCEPT ![r] = NoFile]
    /\ \/ rpc' = [rpc EXCEPT ![r] = "insert"] /\ UNCHANGED dir
       \/ rpc' = [rpc EXCEPT ![r] = "rejected"] /\ RemoveSpool(rid[r])
    /\ UNCHANGED <<submitFrame, status, owner, jobsChan, rid, clock, repeated, lost>>

\* InsertScanJob: the primary key refuses a second row with the same ID. A
\* failed insert removes the spool file at the job's path.
InsertScanJob(r) ==
    LET j == rid[r] IN
    /\ rpc[r] = "insert"
    /\ \E ok \in DbOutcomes :
        IF ok /\ ~RowExists(j)
        THEN /\ status' = [status EXCEPT ![j] = "QUEUED"]
             /\ owner' = [owner EXCEPT ![j] = r]
             /\ rpc' = [rpc EXCEPT ![r] = "send"]
             /\ UNCHANGED dir
        ELSE /\ rpc' = [rpc EXCEPT ![r] = "rejected"]
             /\ RemoveSpool(j)
             /\ UNCHANGED <<status, owner>>
    /\ UNCHANGED <<submitFrame, data, jobsChan, rid, fd, clock, repeated, lost>>

\* The select on jobsChan: a full buffer takes the default branch, which only
\* logs, and the row stays behind.
BlockWhenFull(r) == FALSE
DropJob(r) ==
    /\ ~ChannelClosed /\ ChannelFull
    /\ rpc' = [rpc EXCEPT ![r] = "accepted"]
    /\ lost' = lost \cup {rid[r]}
    /\ UNCHANGED jobsChan

\* A send on the channel Stop has closed panics; net/http recovers, and
\* neither the row nor the spool file is taken back.
Enqueue(r) ==
    /\ rpc[r] = "send"
    /\ \/ /\ ~ChannelClosed /\ ~ChannelFull
          /\ jobsChan' = Append(jobsChan, rid[r])
          /\ rpc' = [rpc EXCEPT ![r] = "accepted"]
          /\ UNCHANGED lost
       \/ DropJob(r)
       \/ /\ ChannelClosed
          /\ rpc' = [rpc EXCEPT ![r] = "panicked"]
          /\ lost' = lost \cup {rid[r]}
          /\ UNCHANGED jobsChan
    /\ UNCHANGED <<submitFrame, status, owner, spoolVars, rid, fd, clock, repeated>>

SubmitJob(r) == CreateSpool(r) \/ CopyBody(r) \/ InsertScanJob(r) \/ Enqueue(r)

-----------------------------------------------------------------------------
(* processJob, on a worker goroutine *)

UpdateStatusOnly(w, s, v) ==
    /\ status' = [status EXCEPT ![wjob[w]] = s]
    /\ UNCHANGED <<verdict, missed>>

\* The worker's UPDATE of its job's row; its error is discarded.
UpdateScanJobStatus(w, s, v) ==
    \E ok \in DbOutcomes :
        IF ok
        THEN /\ status' = [status EXCEPT ![wjob[w]] = s]
             /\ verdict' = [verdict EXCEPT ![wjob[w]] = v]
             /\ UNCHANGED missed
        ELSE /\ missed' = missed \cup {<<wjob[w], s>>}
             /\ UNCHANGED <<status, verdict>>

WorkerGoto(w, pc) == wpc' = [wpc EXCEPT ![w] = pc]

\* "for job := range q.jobsChan": a closed channel still yields its buffer.
Receive(w) ==
    /\ wpc[w] = "idle" /\ jobsChan # <<>>
    /\ wjob' = [wjob EXCEPT ![w] = Head(jobsChan)]
    /\ jobsChan' = Tail(jobsChan)
    /\ WorkerGoto(w, "claimed")
    /\ UNCHANGED <<workerFrame, rowVars, audit, quar, dir, hookVars, wfd, wres, attempt>>

\* The range ends when the channel is closed and its buffer empty.
LeaveOnCancel == ChannelClosed
RangeEnds == ChannelClosed /\ jobsChan = <<>>

WorkerExit(w) ==
    /\ wpc[w] = "idle" /\ RangeEnds
    /\ WorkerGoto(w, "exited")
    /\ UNCHANGED <<workerFrame, rowVars, audit, quar, dir, hookVars, jobsChan, locals>>

MarkProcessing(w) ==
    /\ wpc[w] = "claimed"
    /\ UpdateScanJobStatus(w, "PROCESSING", "none")
    /\ WorkerGoto(w, "open")
    /\ UNCHANGED <<workerFrame, audit, quar, dir, jobsChan, locals, hookVars>>

OpenSpool(w) ==
    /\ wpc[w] = "open"
    /\ IF dir[wjob[w]] = NoFile
       THEN /\ wres' = [wres EXCEPT ![w] = "ERROR"]
            /\ WorkerGoto(w, "failOpen")
            /\ UNCHANGED wfd
       ELSE /\ wfd' = [wfd EXCEPT ![w] = dir[wjob[w]]]
            /\ WorkerGoto(w, "scan")
            /\ UNCHANGED wres
    /\ UNCHANGED <<workerFrame, rowVars, audit, quar, dir, hookVars, jobsChan, wjob, attempt>>

\* No spool file: the job fails and its callback is told.
RecordOpenFailure(w) ==
    /\ wpc[w] = "failOpen"
    /\ UpdateScanJobStatus(w, "FAILED", "ERROR")
    /\ WorkerGoto(w, "webhook")
    /\ UNCHANGED <<workerFrame, audit, quar, dir, jobsChan, locals, hookVars>>

\* Where processJob goes on with a verdict, and after the audit row.
RecordBeforeRemove(v) == IF v = "CLEAN" THEN "record" ELSE "quarantine"
AfterScan(v) == IF v = "CLEAN" THEN "remove" ELSE "quarantine"

SkipAlert(v) == "webhook"
AfterAudit(v) == IF v = "INFECTED" THEN "alert" ELSE "webhook"

\* scanner.ScanStream returns a verdict on the bytes, or an error.
ScanStream(w) ==
    /\ wpc[w] = "scan"
    /\ \/ /\ wres' = [wres EXCEPT ![w] = "ERROR"]
          /\ WorkerGoto(w, "failScan")
       \/ \E v \in ScanVerdicts(data[wfd[w]]) :
            /\ wres' = [wres EXCEPT ![w] = v]
            /\ WorkerGoto(w, AfterScan(v))
    /\ UNCHANGED <<workerFrame, rowVars, audit, quar, dir, hookVars, jobsChan, wjob, wfd, attempt>>

ForgetScanFailure(w) ==
    /\ wpc[w] = "failScan"
    /\ WorkerGoto(w, "cleanup")
    /\ UNCHANGED <<workerFrame, rowVars, audit, quar, dir, jobsChan, locals, hookVars>>

\* A scan error: the job fails, and processJob returns without a callback.
RecordScanFailure(w) ==
    /\ wpc[w] = "failScan"
    /\ UpdateScanJobStatus(w, "FAILED", "ERROR")
    /\ WorkerGoto(w, "cleanup")
    /\ UNCHANGED <<workerFrame, audit, quar, dir, jobsChan, locals, hookVars>>

\* vault.QuarantineFile reads the open spool file again; its error is ignored.
QuarantineFile(w) ==
    /\ wpc[w] = "quarantine"
    /\ \/ quar' = [quar EXCEPT ![wjob[w]] = data[wfd[w]]]
       \/ UNCHANGED quar
    /\ WorkerGoto(w, "remove")
    /\ UNCHANGED <<workerFrame, rowVars, audit, dir, jobsChan, locals, hookVars>>

\* The explicit os.Remove before a verdict is recorded.
DropSpool(w) ==
    /\ wpc[w] = "remove"
    /\ RemoveSpool(wjob[w])
    /\ WorkerGoto(w, "record")
    /\ UNCHANGED <<workerFrame, rowVars, audit, quar, jobsChan, locals, hookVars>>

RecordVerdict(w) ==
    /\ wpc[w] = "record"
    /\ UpdateScanJobStatus(w, "COMPLETED", wres[w])
    /\ WorkerGoto(w, "audit")
    /\ UNCHANGED <<workerFrame, audit, quar, dir, jobsChan, locals, hookVars>>

\* The insert can also fail because two rows drew one audit_<UnixNano>.
InsertScanAuditLog(w) ==
    /\ wpc[w] = "audit"
    /\ \E ok \in DbOutcomes :
        IF ok
        THEN audit' = [audit EXCEPT ![wjob[w]] = wres[w]] /\ UNCHANGED missed
        ELSE missed' = missed \cup {<<wjob[w], "audit">>} /\ UNCHANGED audit
    /\ WorkerGoto(w, AfterAudit(wres[w]))
    /\ UNCHANGED <<workerFrame, status, verdict, quar, dir, jobsChan, locals, hookVars>>

DispatchThreat(w) ==
    /\ wpc[w] = "alert"
    /\ alerted' = alerted \cup {wjob[w]}
    /\ WorkerGoto(w, "webhook")
    /\ UNCHANGED <<workerFrame, rowVars, audit, quar, dir, jobsChan, locals, posts, told, acked>>

\* What ends the loop of dispatchWebhook before its third attempt.
RetryAfterSuccess(outcome) == outcome = "blocked"
StopsRetrying(outcome) == outcome \in {"acknowledged", "blocked"}

\* One attempt of dispatchWebhook. "received" stands for an answer that is not
\* 2xx and for an answer lost to the 10 s timeout alike; "blocked" is the
\* dialer's refusal of an address, which ends the loop.
PostWebhook(w) ==
    LET j == wjob[w]
        payload == <<j, wres[w], quar[j] # NoFile>>
    IN
    /\ wpc[w] = "webhook"
    /\ attempt' = [attempt EXCEPT ![w] = @ + 1]
    /\ posts' = [posts EXCEPT ![j] = @ + 1]
    /\ \E outcome \in {"acknowledged", "received", "unreached", "blocked"} :
        /\ told' = IF outcome \in {"acknowledged", "received"}
                   THEN told \cup {payload} ELSE told
        /\ acked' = IF outcome = "acknowledged" THEN acked \cup {j} ELSE acked
        /\ WorkerGoto(w, IF StopsRetrying(outcome) \/ attempt[w] + 1 = MaxAttempts
                         THEN "cleanup" ELSE "webhook")
    /\ UNCHANGED <<workerFrame, rowVars, audit, quar, dir, jobsChan, wjob, wfd, wres, alerted>>

\* processJob returns: the deferred os.Remove, Close, and back to the range.
Cleanup(w) ==
    /\ wpc[w] = "cleanup"
    /\ RemoveSpool(wjob[w])
    /\ WorkerGoto(w, "idle")
    /\ wjob' = [wjob EXCEPT ![w] = NoJob]
    /\ wfd' = [wfd EXCEPT ![w] = NoFile]
    /\ wres' = [wres EXCEPT ![w] = "none"]
    /\ attempt' = [attempt EXCEPT ![w] = 0]
    /\ UNCHANGED <<workerFrame, rowVars, audit, quar, jobsChan, hookVars>>

\* Every step of a worker but the wait for clamd.
WorkerStep(w) ==
    \/ Receive(w) \/ WorkerExit(w) \/ MarkProcessing(w) \/ OpenSpool(w)
    \/ RecordOpenFailure(w) \/ RecordScanFailure(w) \/ QuarantineFile(w)
    \/ DropSpool(w) \/ RecordVerdict(w) \/ InsertScanAuditLog(w)
    \/ DispatchThreat(w) \/ PostWebhook(w) \/ Cleanup(w)

-----------------------------------------------------------------------------
(* main: SIGTERM, Stop, HTTP shutdown, exit; a kill; the next start *)

\* asyncQueue.Stop cancels a context no worker looks at and closes the channel.
BeginStop ==
    /\ phase = "up"
    /\ phase' = "draining"
    /\ UNCHANGED <<mainFrame, jobsChan, rpc, fd, workerVars, boots, lost>>

WaitForgotten == TRUE
WorkersDone == \A w \in Workers : wpc[w] = "exited"

\* wg.Wait returns; httpServer.Shutdown closes the listener only now.
StopReturns ==
    /\ phase = "draining"
    /\ WorkersDone
    /\ phase' = "drained"
    /\ UNCHANGED <<mainFrame, jobsChan, rpc, fd, workerVars, boots, lost>>

\* The process ends: goroutines, channel and open files are gone, and no row
\* that is not decided has a goroutine left.
ProcessEnds ==
    /\ phase' = "down"
    /\ jobsChan' = <<>>
    /\ rpc' = [r \in Requests |->
                IF rpc[r] \in Answered \cup {"idle"} THEN rpc[r] ELSE "aborted"]
    /\ fd' = [r \in Requests |-> NoFile]
    /\ wpc' = [w \in Workers |-> "exited"]
    /\ wjob' = [w \in Workers |-> NoJob]
    /\ wfd' = [w \in Workers |-> NoFile]
    /\ wres' = [w \in Workers |-> "none"]
    /\ attempt' = [w \in Workers |-> 0]
    /\ lost' = lost \cup {j \in JobIds : status[j] \in {"QUEUED", "PROCESSING"}}
    /\ UNCHANGED <<mainFrame, boots>>

\* main returns when handlers are done or the 15 s of Shutdown have passed.
Exit == phase = "drained" /\ ProcessEnds

\* SIGKILL, the OOM killer, a power cut.
Crash == Crashes /\ phase # "down" /\ ProcessEnds

\* NewQueue and Start: an empty channel and fresh workers. Nothing reads
\* scan_jobs or the spool directory for work left behind.
Start ==
    /\ phase = "down" /\ boots < MaxBoots
    /\ phase' = "up"
    /\ boots' = boots + 1
    /\ wpc' = [w \in Workers |-> "idle"]
    /\ UNCHANGED <<mainFrame, jobsChan, rpc, fd, locals, lost>>

\* The service is not started again.
Off == phase = "down" /\ boots = MaxBoots /\ UNCHANGED vars

Next ==
    \/ \E r \in Requests : RejectRequest(r) \/ NameJob(r) \/ SubmitJob(r)
    \/ \E w \in Workers : WorkerStep(w) \/ ScanStream(w)
    \/ BeginStop \/ StopReturns \/ Exit \/ Crash \/ Start \/ Off

Spec == Init /\ [][Next]_vars

\* A handler that has started runs: SubmitJob waits for nobody.
SubmitFairness == \A r \in Requests : WF_vars(SubmitJob(r))

\* Workers are scheduled, each POST has a 10 s timeout, and main is waiting.
WorkerFairness == (\A w \in Workers : WF_vars(WorkerStep(w))) /\ WF_vars(StopReturns)

\* clamd answers each scan or drops the connection. The code has no deadline
\* on the socket, so this is an assumption about clamd.
ClamdResponds == \A w \in Workers : WF_vars(ScanStream(w))

\* What the runtime guarantees; a worker may still hang in clamd for ever.
FairSpec == Spec /\ SubmitFairness /\ WorkerFairness

-----------------------------------------------------------------------------
(* Properties *)

\* Every variable has its type.
RowTypes ==
    /\ status \in [JobIds -> Statuses]
    /\ verdict \in [JobIds -> Verdicts \cup {"none"}]
    /\ owner \in [JobIds -> Requests \cup {NoRequest}]
    /\ audit \in [JobIds -> Verdicts \cup {"none"}]
    /\ quar \in [JobIds -> (SUBSET Requests) \cup {NoFile}]
SpoolTypes ==
    /\ dir \in [JobIds -> Requests \cup {NoFile}]
    /\ data \in [Requests -> SUBSET Requests]
QueueTypes ==
    /\ phase \in {"up", "draining", "drained", "down"}
    /\ jobsChan \in Seq(JobIds)
    /\ Len(jobsChan) <= QueueCapacity
RequestTypes ==
    /\ rpc \in [Requests -> SubmitPcs]
    /\ rid \in [Requests -> JobIds \cup {NoJob}]
    /\ fd \in [Requests -> Requests \cup {NoFile}]
WorkerTypes ==
    /\ wpc \in [Workers -> WorkerPcs]
    /\ wjob \in [Workers -> JobIds \cup {NoJob}]
    /\ wfd \in [Workers -> Requests \cup {NoFile}]
    /\ wres \in [Workers -> Verdicts \cup {"none"}]
    /\ attempt \in [Workers -> 0..MaxAttempts]
ObserverTypes ==
    /\ clock \in 0..MaxClock /\ boots \in Nat
    /\ posts \in [JobIds -> Nat]
    /\ told \subseteq JobIds \X Verdicts \X BOOLEAN
    /\ acked \subseteq JobIds /\ alerted \subseteq JobIds
    /\ lost \subseteq JobIds
    /\ missed \subseteq JobIds \X {"PROCESSING", "COMPLETED", "FAILED", "audit"}
    /\ repeated \subseteq JobIds
TypeOK ==
    RowTypes /\ SpoolTypes /\ QueueTypes /\ RequestTypes /\ WorkerTypes /\ ObserverTypes

\* A job is in one place at most: once in the channel, or in the hands of one
\* worker, or on its way from the insert to the send. The channel, the
\* goroutines and the primary key of scan_jobs have to agree on this; two
\* requests that read the same nanosecond must not both hand the job over.
OneHandler ==
    /\ \A j \in JobIds : InChan(j) => ~Held(j)
    /\ \A i, k \in 1..Len(jobsChan) : jobsChan[i] = jobsChan[k] => i = k
    /\ \A w, x \in Workers :
        Busy(w) /\ Busy(x) /\ wjob[w] = wjob[x] => w = x
    /\ \A r, q \in Requests :
        rpc[r] = "send" /\ rpc[q] = "send" /\ rid[r] = rid[q] => r = q
    /\ \A r \in Requests :
        rpc[r] = "send" => ~InChan(rid[r]) /\ ~Held(rid[r])

\* The UPDATE that was to decide the job failed; processJob drops its error.
DecisionMissed(j) == \E s \in Terminal : <<j, s>> \in missed

\* A row that waits (QUEUED or PROCESSING) is still with a goroutine: its
\* request, the channel or a worker, unless the code let go of it: a full
\* channel, a closed one, the end of the process, or its own UPDATE failed.
NoSilentLoss ==
    \A j \in JobIds :
        status[j] \in {"QUEUED", "PROCESSING"} /\ j \notin lost /\ ~DecisionMissed(j) =>
            \/ \E r \in Requests : rpc[r] = "send" /\ rid[r] = j
            \/ InChan(j)
            \/ Held(j)

\* What the code relies on: the reading a job is named after was one request's.
OwnReading(j) == j \notin repeated

\* Across crashes, a COMPLETED job has no bytes left in the spool directory:
\* processJob removes the file before it records the verdict.
CompletedLeavesNoSpool ==
    \A j \in JobIds : status[j] = "COMPLETED" /\ OwnReading(j) => dir[j] = NoFile

\* A verdict is right for a job if it is ScanStream's of its own request's body.
Sound(v, j) ==
    /\ v = "CLEAN" => owner[j] \notin Infected
    /\ v = "INFECTED" => owner[j] \in Infected

\* The verdict on a request is a verdict on its own body, in its row, in the
\* audit log, in the alerts and in every callback, whatever other requests,
\* workers, failing statements and crashes do between the copy and the scan, and
\* what is quarantined for it is that body. A clock that repeats a reading
\* spoils the jobs of that reading only.
VerdictOfOwnBytes ==
    /\ \A j \in JobIds : OwnReading(j) =>
        /\ Sound(verdict[j], j) /\ Sound(audit[j], j)
        /\ j \in alerted => owner[j] \in Infected
        /\ quar[j] # NoFile => quar[j] = {owner[j]}
    /\ \A t \in told : OwnReading(t[1]) => Sound(t[2], t[1])

\* A consumer that was told a verdict finds it in the row unless the UPDATE of
\* that very job failed, and for a finished scan in the audit log unless that
\* INSERT failed; a failed statement leaves nothing there, never something else.
\* For an infection the alert was raised and the quarantine ID it was given
\* names bytes in the vault, whatever failed.
ToldIsRecorded ==
    \A t \in told :
        /\ ~DecisionMissed(t[1]) => status[t[1]] \in Terminal /\ verdict[t[1]] = t[2]
        /\ t[2] # "ERROR" /\ <<t[1], "audit">> \notin missed => audit[t[1]] = t[2]
        /\ {verdict[t[1]], audit[t[1]]} \subseteq {t[2], "none"}
        /\ t[2] = "INFECTED" => t[1] \in alerted
        /\ t[3] => quar[t[1]] # NoFile

\* A COMPLETED or FAILED row is never written again, and nothing is posted for
\* a job once a 2xx came back or the three attempts were made, in this life of
\* the process or a later one. And whatever is posted for it again is what was
\* posted first, also when its row could not be written.
KeepsDecision(j) ==
    /\ status[j] \in Terminal => status'[j] = status[j] /\ verdict'[j] = verdict[j]
    /\ j \in acked \/ posts[j] = MaxAttempts => posts'[j] = posts[j]
KeepsMessages == \A t \in told, u \in told' : t[1] = u[1] => t = u
DecidedIsFinal == [][KeepsMessages /\ \A j \in JobIds : KeepsDecision(j)]_vars

\* When Stop has returned no worker is inside a job and the channel is empty:
\* what is still PROCESSING then was cut by an end of the process, or decided
\* by an UPDATE that failed.
StopWaits ==
    phase \in {"drained", "down"} =>
        /\ jobsChan = <<>>
        /\ \A w \in Workers : ~Busy(w)
        /\ \A j \in JobIds : status[j] = "PROCESSING" => j \in lost \/ DecisionMissed(j)

\* An HTTP handler inside SubmitJob waits for nobody: whatever the workers, the
\* channel and clamd do, its next step is possible, also after Stop.
SubmitNeverWaits ==
    \A r \in Requests : rpc[r] \notin Answered \cup {"idle"} => ENABLED SubmitJob(r)

\* A job is begun when a worker has tried to write so, also if the row says
\* QUEUED still.
BegunState(j) ==
    IF status[j] = "QUEUED" /\ <<j, "PROCESSING">> \in missed THEN "PROCESSING" ELSE status[j]

\* The queue implements the contract. A job whose decision could not be written
\* stays undecided there, and what its callbacks say is no part of it.
Contract == INSTANCE ScanJobContract WITH
    Jobs <- JobIds, state <- [j \in JobIds |-> BegunState(j)], outcome <- verdict,
    told <- {<<t[1], t[2]>> : t \in {u \in told : ~DecisionMissed(u[1])}}

KeepsContract == Contract!ContractSpec

-----------------------------------------------------------------------------
(* Liveness *)

\* If clamd answers, an accepted job is decided unless the code let go of it.
AcceptedIsDecidedOrLost ==
    ClamdResponds =>
        \A j \in JobIds :
            (status[j] = "QUEUED") ~> (status[j] \in Terminal \/ j \in lost)

\* If clamd answers, Stop returns: closing the channel ends every worker's
\* range after the buffer is drained.
StopCompletes == ClamdResponds => ((phase = "draining") ~> (phase # "draining"))

-----------------------------------------------------------------------------
(* What the documentation says of the queue *)

\* "Scan job queued. Verdict will be posted to callback_url." (server.go:1047):
\* every request answered 202 gets its job decided.
AcceptedIsDecided ==
    ClamdResponds =>
        \A r \in Requests :
            (rpc[r] = "accepted") ~> (rid[r] \in JobIds /\ status[rid[r]] \in Terminal)

\* The callback follows every final verdict, CLEAN, INFECTED or ERROR
\* (DCD-04 4.3): a job whose worker is done was posted at least once.
FinalVerdictIsPosted ==
    \A j \in JobIds : status[j] \in Terminal /\ ~Held(j) => posts[j] > 0

\* "Stop terminates worker goroutines and waits for pending jobs to finish"
\* (queue.go:126): after a graceful exit no job is left pending.
StopFinishesPending ==
    phase = "down" => \A j \in JobIds : status[j] \notin {"QUEUED", "PROCESSING"}
=============================================================================
