----------------------- MODULE AsyncQueueRecordProofs ------------------------
(***************************************************************************)
(* Proofs about what the asynchronous queue writes down: the rows, what the *)
(* receivers of callbacks were told, the spool files, and the contract of   *)
(* the job API: with crashes, restarts, failing statements and a clock that *)
(* repeats its readings.                                                    *)
(***************************************************************************)
EXTENDS AsyncQueueProofs, FiniteSetTheorems

-----------------------------------------------------------------------------
(* A consumer hears one thing of a job, also when statements fail *)

\* A worker inside its job that has not posted yet.
InHand(w) == Busy(w) /\ wpc[w] \notin {"webhook", "cleanup"}

\* Whatever was posted of a job is what its worker is posting, and of a job in
\* hand nothing was.
Spoken ==
    /\ \A t \in told : posts[t[1]] # 0
    /\ \A w \in Workers : InHand(w) => attempt[w] = 0
    /\ \A w \in Workers : \A t \in told :
        wpc[w] = "webhook" /\ t[1] = wjob[w] =>
            t = <<wjob[w], wres[w], quar[wjob[w]] # NoFile>>
    /\ \A t, u \in told : t[1] = u[1] => t = u

SpeechInv == DecisionInv /\ Spoken

\* The steps that post nothing.
Hush ==
    /\ UNCHANGED <<told, posts>>
    /\ \A j \in JobIds : quar'[j] = quar[j] \/ \E w \in Workers : InHand(w) /\ wjob[w] = j
    /\ \A w \in Workers :
        \/ wpc'[w] = wpc[w] /\ wjob'[w] = wjob[w] /\ wres'[w] = wres[w] /\ attempt'[w] = attempt[w]
        \/ InHand(w) /\ wjob'[w] = wjob[w] /\ attempt'[w] = attempt[w]
        \/ attempt'[w] = 0 /\ wpc'[w] # "webhook"

\* Nothing was told of a job in hand.
LEMMA HandUntold ==
    ASSUME SpeechInv, NEW w \in Workers, InHand(w)
    PROVE  \A t \in told : t[1] # wjob[w]
<1>1. Spoken /\ Pending
    BY DEF SpeechInv, DecisionInv
<1>2. attempt[w] = 0 /\ posts[wjob[w]] = attempt[w]
    BY <1>1 DEF Spoken, Pending, InHand
<1> QED
    BY <1>1, <1>2 DEF Spoken

LEMMA HushKeepsSpoken ==
    ASSUME SpeechInv, Hush
    PROVE  Spoken' /\ KeepsMessages
<1>1. Spoken /\ TypeInv /\ Pending /\ OneHandler
    BY DEF SpeechInv, DecisionInv, HandlerInv
<1>2. \A w \in Workers : InHand(w) => \A t \in told : t[1] # wjob[w]
    BY HandUntold
<1>3. ASSUME NEW w \in Workers, NEW t \in told', wpc'[w] = "webhook", t[1] = wjob'[w]
      PROVE  t = <<wjob'[w], wres'[w], quar'[wjob'[w]] # NoFile>>
    <2>1. t \in told /\ ~(InHand(w) /\ wjob'[w] = wjob[w])
        BY <1>2, <1>3 DEF Hush
    <2>2. wpc[w] = "webhook" /\ wjob'[w] = wjob[w] /\ wres'[w] = wres[w]
        BY <1>3, <2>1 DEF Hush
    <2>3. wjob[w] \in JobIds /\ Busy(w)
        BY <1>1, <2>2 DEF TypeInv, PcOK, Busy
    <2>4. quar'[wjob[w]] = quar[wjob[w]]
        BY <1>2, <1>3, <2>1, <2>2, <2>3 DEF Hush
    <2> QED BY <1>1, <1>3, <2>1, <2>2, <2>4 DEF Spoken
<1>4. \A w \in Workers : InHand(w)' => attempt'[w] = 0
    BY <1>1 DEF Spoken, Hush, InHand, Busy
<1>5. told' = told /\ posts' = posts
    BY DEF Hush
<1> QED
    BY <1>1, <1>3, <1>4, <1>5 DEF Spoken, KeepsMessages

LEMMA PostKeepsSpoken ==
    ASSUME SpeechInv, NEW w \in Workers, PostWebhook(w)
    PROVE  Spoken' /\ KeepsMessages
<1> DEFINE said == <<wjob[w], wres[w], quar[wjob[w]] # NoFile>>
<1>1. Spoken /\ TypeInv /\ OneHandler
    BY DEF SpeechInv, DecisionInv, HandlerInv
<1>2. /\ wpc[w] = "webhook" /\ told' \in {told, told \cup {said}}
      /\ UNCHANGED <<wjob, wres, quar>>
      /\ posts' = [posts EXCEPT ![wjob[w]] = @ + 1]
      /\ \A x \in Workers : x # w => wpc'[x] = wpc[x] /\ attempt'[x] = attempt[x]
      /\ wpc'[w] \in {"webhook", "cleanup"}
    BY <1>1 DEF PostWebhook, WorkerGoto, TypeInv, TypeOK, WorkerTypes
<1>3. wjob[w] \in JobIds /\ Busy(w) /\ \A t \in told : t[1] \in JobIds
    BY <1>1, <1>2 DEF TypeInv, TypeOK, PcOK, Busy, ObserverTypes
<1>4. \A t \in told' : t \in told \/ t = said
    BY <1>2
<1>5. \A t \in told : t[1] = wjob[w] => t = said
    BY <1>1, <1>2 DEF Spoken
<1>6. \A t, u \in told' : t[1] = u[1] => t = u
    BY <1>1, <1>4, <1>5 DEF Spoken
<1>7. told \subseteq told'
    BY <1>2
<1>8. \A t \in told' : posts'[t[1]] # 0
    <2>1. posts \in [JobIds -> Nat]
        BY <1>1 DEF TypeInv, TypeOK, ObserverTypes
    <2>2. posts'[wjob[w]] # 0 /\ \A j \in JobIds : j # wjob[w] => posts'[j] = posts[j]
        BY <1>2, <1>3, <2>1
    <2> QED BY <1>1, <1>3, <1>4, <2>2 DEF Spoken
<1>9. \A x \in Workers : InHand(x)' => attempt'[x] = 0
    BY <1>1, <1>2 DEF Spoken, InHand, Busy
<1>10. ASSUME NEW x \in Workers, NEW t \in told', wpc'[x] = "webhook", t[1] = wjob'[x]
       PROVE  t = <<wjob'[x], wres'[x], quar'[wjob'[x]] # NoFile>>
    <2>1. CASE x = w
        BY <1>2, <1>4, <1>5, <1>10, <2>1
    <2>2. CASE x # w
        <3>1. wpc[x] = "webhook" /\ Busy(x) /\ wjob[x] # wjob[w]
            BY <1>1, <1>2, <1>3, <1>10, <2>2 DEF OneHandler, Busy
        <3> QED BY <1>1, <1>2, <1>4, <1>10, <3>1 DEF Spoken
    <2> QED BY <2>1, <2>2
<1> QED
    BY <1>6, <1>7, <1>8, <1>9, <1>10 DEF Spoken, KeepsMessages

LEMMA SpokenStep == SpeechInv /\ [Next]_vars => Spoken' /\ KeepsMessages
<1> SUFFICES ASSUME SpeechInv, [Next]_vars PROVE Spoken' /\ KeepsMessages
    OBVIOUS
<1>1. Spoken /\ TypeInv
    BY DEF SpeechInv, DecisionInv, HandlerInv
<1> USE DEF InHand, Busy, WorkerGoto
<1>2. ASSUME NEW r \in Requests, RejectRequest(r) \/ NameJob(r) \/ SubmitJob(r)
      PROVE  Spoken' /\ KeepsMessages
    <2>1. Hush
        BY <1>2 DEF RejectRequest, NameJob, SubmitJob, CreateSpool, CopyBody, InsertScanJob,
            Enqueue, submitFrame, workerVars, dbVars, hookVars, Hush
    <2> QED BY <2>1, HushKeepsSpoken
<1>3. ASSUME NEW w \in Workers, PostWebhook(w) PROVE Spoken' /\ KeepsMessages
    BY <1>3, PostKeepsSpoken
<1>4. ASSUME NEW w \in Workers, Receive(w) \/ WorkerExit(w) \/ Cleanup(w)
      PROVE  Spoken' /\ KeepsMessages
    <2>1. Hush
        BY <1>1, <1>4 DEF Receive, WorkerExit, Cleanup, TypeInv, TypeOK, PcOK, WorkerTypes,
            workerFrame, locals, rowVars, hookVars, Hush
    <2> QED BY <2>1, HushKeepsSpoken
<1>5. ASSUME NEW w \in Workers,
             \/ MarkProcessing(w) \/ OpenSpool(w) \/ ScanStream(w) \/ RecordOpenFailure(w)
             \/ RecordScanFailure(w) \/ QuarantineFile(w) \/ DropSpool(w) \/ RecordVerdict(w)
             \/ InsertScanAuditLog(w) \/ DispatchThreat(w)
      PROVE  Spoken' /\ KeepsMessages
    <2>1. InHand(w) /\ UNCHANGED <<told, posts, wjob, attempt>>
        BY <1>5 DEF MarkProcessing, OpenSpool, ScanStream, RecordOpenFailure, RecordScanFailure,
            QuarantineFile, DropSpool, RecordVerdict, InsertScanAuditLog, DispatchThreat,
            workerFrame, locals, hookVars
    <2>2. \A x \in Workers : x # w => wpc'[x] = wpc[x] /\ wres'[x] = wres[x]
        BY <1>1, <1>5
           DEF MarkProcessing, OpenSpool, ScanStream, RecordOpenFailure, RecordScanFailure,
            QuarantineFile, DropSpool, RecordVerdict, InsertScanAuditLog, DispatchThreat,
            locals, TypeInv, TypeOK, WorkerTypes
    <2>3. \A j \in JobIds : j # wjob[w] => quar'[j] = quar[j]
        BY <1>1, <1>5
           DEF MarkProcessing, OpenSpool, ScanStream, RecordOpenFailure, RecordScanFailure,
            QuarantineFile, DropSpool, RecordVerdict, InsertScanAuditLog, DispatchThreat,
            TypeInv, TypeOK, RowTypes
    <2>4. Hush
        BY <2>1, <2>2, <2>3 DEF Hush
    <2> QED BY <2>4, HushKeepsSpoken
<1>6. ASSUME BeginStop \/ StopReturns \/ ProcessEnds \/ Start \/ UNCHANGED vars
      PROVE  Spoken' /\ KeepsMessages
    <2>1. Hush
        BY <1>1, <1>6 DEF BeginStop, StopReturns, ProcessEnds, Start, mainFrame, workerVars,
            locals, dbVars, hookVars, vars, TypeInv, TypeOK, PcOK, WorkerTypes, Hush
    <2> QED BY <2>1, HushKeepsSpoken
<1> QED
    BY <1>2, <1>3, <1>4, <1>5, <1>6 DEF Next, WorkerStep, Exit, Crash, Off

\* A decided row is never rewritten, a settled callback never repeated, and what
\* is posted again is what was posted first, for every number of workers and
\* requests, across crashes, restarts and failing statements.
THEOREM DecidedIsFinalAlways == Spec => DecidedIsFinal
<1>1. Init => SpeechInv
    BY DecisionInit DEF Init, SpeechInv, Spoken, InHand, Busy
<1>2. SpeechInv /\ [Next]_vars => SpeechInv' /\ KeepsMessages /\ Final
    BY SpokenStep, DecisionStep DEF SpeechInv
<1>3. SpeechInv /\ [Next]_vars
        => SpeechInv' /\ [KeepsMessages /\ \A j \in JobIds : KeepsDecision(j)]_vars
    BY <1>2 DEF Final
<1> QED
    BY <1>1, <1>3, PTL DEF Spec, DecidedIsFinal

-----------------------------------------------------------------------------
(* Rows, callbacks, and who has a job that waits *)

Waits(j) == status[j] \in {"QUEUED", "PROCESSING"}
Working == {"open", "failOpen", "scan", "failScan", "quarantine", "remove", "record"}

\* No attempt to mark the job PROCESSING failed.
Unbegun(j) == <<j, "PROCESSING">> \notin missed

\* What is written for the job of a worker, by where the worker is, but for the
\* statements that failed.
Noted(w) ==
    LET j == wjob[w] IN
    /\ wpc[w] = "claimed" => status[j] = "QUEUED" /\ Unbegun(j)
    /\ wpc[w] \in Working =>
        Waits(j) /\ (<<j, "PROCESSING">> \in missed \/ status[j] = "PROCESSING")
    /\ wpc[w] \in {"quarantine", "remove", "record", "audit"} => wres[w] # "ERROR"
    /\ wpc[w] \in {"failOpen", "failScan"} => wres[w] = "ERROR"
    /\ wpc[w] \in Working \cup {"claimed", "audit"} => audit[j] = "none"
    /\ wpc[w] \in {"audit", "alert", "webhook", "cleanup"} =>
        DecisionMissed(j) \/ status[j] \in Terminal
    /\ wpc[w] \in {"audit", "alert", "webhook"} =>
        /\ DecisionMissed(j) \/ verdict[j] = wres[w]
        /\ verdict[j] \in {wres[w], "none"}
    /\ wpc[w] = "alert" => wres[w] = "INFECTED"
    /\ wpc[w] \in {"alert", "webhook"} =>
        /\ wres[w] # "ERROR" => <<j, "audit">> \in missed \/ audit[j] = wres[w]
        /\ audit[j] \in {wres[w], "none"}
    /\ wpc[w] = "webhook" /\ wres[w] = "INFECTED" => j \in alerted

\* What is true of one message that a callback's receiver got.
Told(t) ==
    /\ status[t[1]] # "none"
    /\ DecisionMissed(t[1]) \/ (status[t[1]] \in Terminal /\ verdict[t[1]] = t[2])
    /\ t[2] # "ERROR" => <<t[1], "audit">> \in missed \/ audit[t[1]] = t[2]
    /\ {verdict[t[1]], audit[t[1]]} \subseteq {t[2], "none"}
    /\ t[2] = "INFECTED" => t[1] \in alerted
    /\ t[3] => quar[t[1]] # NoFile

\* Who has the job.
Kept(j) == Sending(j) \/ InChan(j) \/ Held(j)

Recorded ==
    /\ \A j \in JobIds : status[j] \notin Terminal => verdict[j] = "none"
    /\ \A j \in JobIds : Sending(j) \/ InChan(j) => status[j] = "QUEUED"
    /\ \A j \in JobIds : status[j] = "none" \/ Sending(j) \/ InChan(j) =>
        audit[j] = "none" /\ Unbegun(j)
    /\ \A w \in Workers : Noted(w)
    /\ \A t \in told : Told(t)
    /\ \A j \in JobIds : Waits(j) /\ j \notin lost => DecisionMissed(j) \/ Kept(j)

\* A worker leaves only a channel that is closed and empty.
Drained == \A w \in Workers : wpc[w] = "exited" => phase # "up" /\ jobsChan = <<>>

RecordInv == SpeechInv /\ Recorded /\ Drained

LEMMA RecordInit == Init => RecordInv
<1> SUFFICES ASSUME Init PROVE RecordInv
    OBVIOUS
<1>1. SpeechInv
    BY DecisionInit DEF Init, SpeechInv, Spoken, InHand, Busy
<1>2. Recorded /\ Drained
    BY DEF Init, Recorded, Drained, Unbegun, Waits, Noted, Working, Sending, InChan, Terminal
<1> QED
    BY <1>1, <1>2 DEF RecordInv

\* What is noted for a worker, and what was told, stays true while nothing is
\* written about the job but failures.
LEMMA NotedStays ==
    ASSUME NEW w, Noted(w), missed \subseteq missed', wpc'[w] = wpc[w], wjob'[w] = wjob[w],
           wres'[w] = wres[w], status'[wjob[w]] = status[wjob[w]],
           verdict'[wjob[w]] = verdict[wjob[w]], audit'[wjob[w]] = audit[wjob[w]],
           wjob[w] \in alerted => wjob[w] \in alerted', Unbegun(wjob[w]) => Unbegun(wjob[w])'
    PROVE  Noted(w)'
<1>1. /\ DecisionMissed(wjob[w]) => DecisionMissed(wjob[w])'
      /\ \A x : <<wjob[w], x>> \in missed => <<wjob[w], x>> \in missed'
    BY DEF DecisionMissed
<1> QED
    BY <1>1 DEF Noted, Waits

LEMMA ToldStays ==
    ASSUME NEW t, Told(t), missed \subseteq missed', status'[t[1]] = status[t[1]],
           verdict'[t[1]] = verdict[t[1]], audit'[t[1]] = audit[t[1]],
           quar'[t[1]] = quar[t[1]], t[1] \in alerted => t[1] \in alerted'
    PROVE  Told(t)'
<1>1. /\ DecisionMissed(t[1]) => DecisionMissed(t[1])'
      /\ \A x : <<t[1], x>> \in missed => <<t[1], x>> \in missed'
    BY DEF DecisionMissed
<1> QED
    BY <1>1 DEF Told

\* The steps that write none of this and move no job.
Aside ==
    /\ UNCHANGED <<status, verdict, audit, quar, missed, told, alerted, lost, jobsChan>>
    /\ \A r \in Requests :
        /\ rpc'[r] = "send" <=> rpc[r] = "send"
        /\ rpc[r] = "send" => rid'[r] = rid[r]
    /\ \A w \in Workers :
        /\ Busy(w)' <=> Busy(w)
        /\ Busy(w) => wpc'[w] = wpc[w] /\ wjob'[w] = wjob[w] /\ wres'[w] = wres[w]

LEMMA AsideKeepsRecord ==
    ASSUME Recorded, Aside
    PROVE  Recorded'
<1>1. \A j : (Sending(j)' <=> Sending(j)) /\ (InChan(j)' <=> InChan(j)) /\ (Held(j)' <=> Held(j))
    BY DEF Aside, Sending, InChan, Held
<1>2. ASSUME NEW w \in Workers PROVE Noted(w)'
    <2>1. CASE Busy(w)
        BY <2>1, NotedStays DEF Recorded, Aside, Unbegun
    <2>2. CASE ~Busy(w)
        BY <2>2 DEF Recorded, Aside, Noted, Busy, Working
    <2> QED BY <2>1, <2>2
<1>3. \A t \in told' : Told(t)'
    BY DEF Recorded, Aside, Told, DecisionMissed
<1>4. \A j \in JobIds : Waits(j)' /\ j \notin lost' => DecisionMissed(j)' \/ Kept(j)'
    BY <1>1 DEF Recorded, Aside, Waits, Kept, DecisionMissed
<1>5. \A j \in JobIds :
        status'[j] = "none" \/ Sending(j)' \/ InChan(j)' => audit'[j] = "none" /\ Unbegun(j)'
    BY <1>1 DEF Recorded, Aside, Unbegun
<1> QED
    BY <1>1, <1>2, <1>3, <1>4, <1>5 DEF Recorded, Aside

\* A step of a worker inside its job: it writes about no other, which nobody
\* else has, and what failed stays failed.
Moves(w) ==
    /\ w \in Workers /\ Busy(w) /\ Busy(w)'
    /\ UNCHANGED <<rpc, rid, jobsChan, wjob, lost>>
    /\ missed \subseteq missed'
    /\ status'[wjob[w]] # "none"
    /\ \A x \in Workers : x # w => wpc'[x] = wpc[x] /\ wres'[x] = wres[x]
    /\ \A j \in JobIds : j # wjob[w] =>
        /\ status'[j] = status[j] /\ verdict'[j] = verdict[j]
        /\ audit'[j] = audit[j] /\ quar'[j] = quar[j]
        /\ j \in alerted => j \in alerted'
        /\ Unbegun(j) => Unbegun(j)'
    /\ \A t \in told' : t[1] # wjob[w] => t \in told

LEMMA MoveKeepsRecord ==
    ASSUME DecisionInv, TypeInv', Recorded, NEW w, Moves(w), Noted(w)',
           \A t \in told' : t[1] = wjob[w] => Told(t)',
           status'[wjob[w]] \notin Terminal => verdict'[wjob[w]] = "none"
    PROVE  Recorded'
<1>1. /\ \A j : (Sending(j)' <=> Sending(j)) /\ (InChan(j)' <=> InChan(j))
      /\ \A j : Held(j)' <=> Held(j)
      /\ \A j : DecisionMissed(j) => DecisionMissed(j)'
    BY DEF Moves, Sending, InChan, Held, Busy, DecisionMissed
<1>2. /\ wjob[w] \in JobIds /\ Held(wjob[w])
      /\ \A x \in Workers : Busy(x) => wjob[x] \in JobIds
    BY DEF Moves, Held, DecisionInv, HandlerInv, TypeInv, PcOK
<1>3. ~InChan(wjob[w]) /\ ~Sending(wjob[w])
    BY <1>2 DEF DecisionInv, HandlerInv, OneHandler, Sending
<1>4. ASSUME NEW x \in Workers PROVE Noted(x)'
    <2>1. CASE x # w /\ Busy(x)
        <3>1. wjob[x] # wjob[w] /\ wjob[x] \in JobIds
            BY <1>2, <2>1 DEF Moves, DecisionInv, HandlerInv, OneHandler
        <3> QED BY <2>1, <3>1, NotedStays DEF Recorded, Moves
    <2>2. CASE x # w /\ ~Busy(x)
        BY <2>2 DEF Moves, Noted, Busy, Working
    <2> QED BY <2>1, <2>2
<1>5. ASSUME NEW t \in told' PROVE Told(t)'
    <2>1. CASE t[1] # wjob[w]
        <3>1. t \in told /\ t[1] \in JobIds
            BY <2>1 DEF Moves, TypeInv, TypeOK, ObserverTypes
        <3> QED BY <1>1, <2>1, <3>1 DEF Recorded, Moves, Told
    <2> QED BY <2>1
<1>6. \A j \in JobIds : Waits(j)' /\ j \notin lost' => DecisionMissed(j)' \/ Kept(j)'
    BY <1>1, <1>2 DEF Recorded, Moves, Waits, Kept
<1>7. \A j \in JobIds : Sending(j)' \/ InChan(j)' => status'[j] = "QUEUED"
    BY <1>1, <1>3 DEF Recorded, Moves
<1>8. \A j \in JobIds : status'[j] \notin Terminal => verdict'[j] = "none"
    BY DEF Recorded, Moves
<1>9. \A j \in JobIds :
        status'[j] = "none" \/ Sending(j)' \/ InChan(j)' => audit'[j] = "none" /\ Unbegun(j)'
    BY <1>1, <1>3 DEF Recorded, Moves
<1> QED
    BY <1>4, <1>5, <1>6, <1>7, <1>8, <1>9 DEF Recorded

\* An UPDATE writes the row of the worker's job, or is noted as failed.
LEMMA UpdateEffect ==
    ASSUME TypeInv, NEW w, wjob[w] \in JobIds, NEW st, NEW v, UpdateScanJobStatus(w, st, v)
    PROVE  /\ missed \subseteq missed' /\ missed' \subseteq missed \cup {<<wjob[w], st>>}
           /\ \A j \in JobIds : j # wjob[w] => status'[j] = status[j] /\ verdict'[j] = verdict[j]
           /\ \/ status'[wjob[w]] = st /\ verdict'[wjob[w]] = v
              \/ /\ <<wjob[w], st>> \in missed'
                 /\ status'[wjob[w]] = status[wjob[w]] /\ verdict'[wjob[w]] = verdict[wjob[w]]
BY DEF UpdateScanJobStatus, TypeInv, TypeOK, RowTypes

\* A decision that is not written is noted as failed.
LEMMA MissIsNoted ==
    ASSUME NEW w, wjob' = wjob, NEW st \in Terminal, <<wjob[w], st>> \in missed'
    PROVE  DecisionMissed(wjob[w])'
BY DEF DecisionMissed

LEMMA UpdateMoves ==
    ASSUME TypeInv, NEW w \in Workers, Busy(w), NEW st \in Statuses \ {"none"}, NEW v,
           UpdateScanJobStatus(w, st, v), status[wjob[w]] # "none",
           NEW pc \in WorkerPcs \ {"idle", "exited"}, wpc' = [wpc EXCEPT ![w] = pc],
           UNCHANGED <<rpc, rid, jobsChan, wjob, wres, lost, audit, quar, alerted, told>>
    PROVE  Moves(w)
<1>1. wjob[w] \in JobIds /\ wpc \in [Workers -> WorkerPcs]
    BY DEF TypeInv, TypeOK, PcOK, WorkerTypes
<1>2. /\ missed \subseteq missed' /\ missed' \subseteq missed \cup {<<wjob[w], st>>}
      /\ \A j \in JobIds : j # wjob[w] => status'[j] = status[j] /\ verdict'[j] = verdict[j]
      /\ status'[wjob[w]] # "none"
    BY <1>1, UpdateEffect
<1>3. \A j : j # wjob[w] => (Unbegun(j) => Unbegun(j)')
    BY <1>2 DEF Unbegun
<1>4. Busy(w)' /\ \A x \in Workers : x # w => wpc'[x] = wpc[x] /\ wres'[x] = wres[x]
    BY <1>1 DEF Busy
<1> QED
    BY <1>2, <1>3, <1>4 DEF Moves

\* Receiving takes one job out of the channel and leaves the others.
LEMMA TailKeeps ==
    ASSUME NEW S, NEW s \in Seq(S), s # <<>>, NEW x, Occurs(s, x), x # Head(s)
    PROVE  Occurs(Tail(s), x)
<1>1. PICK i \in 1..Len(s) : s[i] = x
    BY DEF Occurs
<1>2. Len(s) \in Nat /\ i # 1
    BY <1>1
<1>3. i - 1 \in 1..Len(Tail(s)) /\ Tail(s)[i - 1] = s[i]
    BY <1>2
<1> QED
    BY <1>1, <1>3 DEF Occurs

LEMMA RecordStep ==
    ASSUME RecordInv, [Next]_vars
    PROVE  Recorded'
<1>1. DecisionInv /\ Recorded /\ TypeInv /\ TypeInv'
    BY DecisionStep DEF RecordInv, SpeechInv, DecisionInv, HandlerInv
\* A job in hand has a row, and no consumer was told anything of it.
<1>2. ASSUME NEW w \in Workers, Busy(w)
      PROVE  wjob[w] \in JobIds /\ status[wjob[w]] # "none" /\ Noted(w)
    <2>1. wjob[w] \in JobIds /\ Held(wjob[w])
        BY <1>1, <1>2 DEF TypeInv, PcOK, Held
    <2> QED BY <1>1, <2>1 DEF DecisionInv, HandlerInv, FreshRows, Recorded
<1>3. \A w \in Workers : InHand(w) => \A t \in told : t[1] # wjob[w]
    BY HandUntold DEF RecordInv
<1> USE <1>1 DEF TypeInv, TypeOK, PcOK, RowTypes, QueueTypes, RequestTypes, WorkerTypes,
        Busy, Answered, Submitting, WorkerGoto
<1>4. ASSUME NEW r \in Requests, RejectRequest(r) PROVE Recorded'
    <2>1. Aside
        BY <1>4 DEF Aside, RejectRequest, submitFrame, workerVars, hookVars, dbVars, spoolVars
    <2> QED BY <2>1, AsideKeepsRecord
<1>5. ASSUME NEW r \in Requests, NameJob(r) PROVE Recorded'
    <2>1. Aside
        BY <1>5 DEF Aside, NameJob, submitFrame, workerVars, hookVars, dbVars, spoolVars
    <2> QED BY <2>1, AsideKeepsRecord
<1>6. ASSUME NEW r \in Requests, CreateSpool(r) PROVE Recorded'
    <2>1. Aside
        BY <1>6 DEF Aside, CreateSpool, submitFrame, workerVars, hookVars, dbVars, spoolVars
    <2> QED BY <2>1, AsideKeepsRecord
<1>7. ASSUME NEW r \in Requests, CopyBody(r) PROVE Recorded'
    <2>1. Aside
        BY <1>7 DEF Aside, CopyBody, submitFrame, workerVars, hookVars, dbVars, spoolVars
    <2> QED BY <2>1, AsideKeepsRecord
<1>8. ASSUME NEW r \in Requests, InsertScanJob(r) PROVE Recorded'
    <2> USE <1>8 DEF InsertScanJob, submitFrame, workerVars, hookVars, dbVars, spoolVars
    <2> DEFINE job == rid[r]
    <2>1. CASE status[job] = "none" /\ status' = [status EXCEPT ![job] = "QUEUED"]
            /\ rpc' = [rpc EXCEPT ![r] = "send"]
        <3>1. job \in JobIds /\ ~InChan(job) /\ ~Held(job) /\ ~Sending(job)
            BY <2>1 DEF DecisionInv, HandlerInv, FreshRows
        <3>2. UNCHANGED <<jobsChan, rid, wpc, wjob, wres, verdict, audit, quar, told, alerted, lost, missed>>
            OBVIOUS
        <3>3. /\ \A j : Sending(j)' <=> Sending(j) \/ j = job
              /\ \A j : (InChan(j)' <=> InChan(j)) /\ (Held(j)' <=> Held(j))
            BY <2>1, <3>2 DEF Sending, InChan, Held
        <3>4. ASSUME NEW w \in Workers PROVE Noted(w)'
            <4>1. CASE Busy(w)
                <5>1. wjob[w] # job /\ wjob[w] \in JobIds /\ Noted(w)
                    BY <1>2, <2>1, <4>1
                <5>2. /\ wpc'[w] = wpc[w] /\ wjob'[w] = wjob[w] /\ wres'[w] = wres[w]
                      /\ Unbegun(wjob[w]) => Unbegun(wjob[w])'
                    BY <3>2 DEF Unbegun
                <5>3. /\ status'[wjob[w]] = status[wjob[w]] /\ verdict' = verdict
                      /\ audit' = audit /\ missed' = missed /\ alerted' = alerted
                    BY <2>1, <3>2, <5>1
                <5> HIDE <1>8 DEF InsertScanJob, submitFrame, workerVars, hookVars, dbVars, spoolVars
                <5> QED BY <5>1, <5>2, <5>3, NotedStays
            <4>2. CASE ~Busy(w)
                BY <3>2, <4>2 DEF Noted, Working
            <4> QED BY <4>1, <4>2
        <3>5. ASSUME NEW t \in told' PROVE Told(t)'
            <4>1. t \in told /\ t[1] \in JobIds /\ t[1] # job /\ Told(t)
                BY <2>1, <3>2 DEF Recorded, Told, ObserverTypes
            <4> QED BY <2>1, <3>1, <3>2, <4>1, ToldStays
        <3>6. \A j \in JobIds : Waits(j)' /\ j \notin lost' => DecisionMissed(j)' \/ Kept(j)'
            BY <2>1, <3>2, <3>3 DEF Recorded, Waits, Kept, DecisionMissed
        <3>7. /\ \A j \in JobIds : Sending(j)' \/ InChan(j)' => status'[j] = "QUEUED"
              /\ \A j \in JobIds :
                    status'[j] = "none" \/ Sending(j)' \/ InChan(j)' =>
                        audit'[j] = "none" /\ Unbegun(j)'
            BY <2>1, <3>1, <3>2, <3>3 DEF Recorded, Unbegun
        <3>8. \A j \in JobIds : status'[j] \notin Terminal => verdict'[j] = "none"
            BY <2>1, <3>2 DEF Recorded, Terminal
        <3> QED BY <3>4, <3>5, <3>6, <3>7, <3>8 DEF Recorded
    <2>2. CASE UNCHANGED status /\ rpc' = [rpc EXCEPT ![r] = "rejected"]
        <3>1. Aside
            BY <2>2 DEF Aside
        <3> QED BY <3>1, AsideKeepsRecord
    <2> QED BY <2>1, <2>2 DEF RowExists
<1>9. ASSUME NEW r \in Requests, Enqueue(r) PROVE Recorded'
    <2> USE <1>9 DEF Enqueue, DropJob, submitFrame, workerVars, hookVars, dbVars, spoolVars
    <2> DEFINE job == rid[r]
    <2>1. job \in JobIds /\ Sending(job) /\ status[job] = "QUEUED"
        BY DEF Recorded, Sending
    <2>2. UNCHANGED <<status, verdict, audit, quar, missed, told, alerted, rid, wpc, wjob, wres>>
        OBVIOUS
    <2>3. rpc'[r] # "send" /\ \A q \in Requests : q # r => rpc'[q] = rpc[q]
        OBVIOUS
    <2>4. \A j : (Sending(j)' => Sending(j)) /\ (Sending(j) => Sending(j)' \/ j = job)
        BY <2>2, <2>3 DEF Sending
    <2>5. \/ /\ \A x : InChan(x)' <=> InChan(x) \/ x = job
             /\ lost' = lost
          \/ (\A x : InChan(x)' <=> InChan(x)) /\ lost' = lost \cup {job}
        <3>1. CASE jobsChan' = Append(jobsChan, job) /\ lost' = lost
            <4>1. \A x : Occurs(jobsChan', x) <=> Occurs(jobsChan, x) \/ x = job
                BY <2>1, <3>1, AppendElements
            <4> QED BY <3>1, <4>1 DEF InChan, Occurs
        <3>2. CASE jobsChan' = jobsChan /\ lost' = lost \cup {job}
            BY <3>2 DEF InChan
        <3> QED BY <3>1, <3>2
    <2>6. \A j : Held(j)' <=> Held(j)
        BY <2>2 DEF Held
    <2>7. \A w \in Workers : Noted(w)'
        BY <2>2, NotedStays DEF Recorded, Unbegun
    <2>8. \A t \in told' : Told(t)'
        BY <2>2, ToldStays DEF Recorded
    <2>9. \A j \in JobIds : Waits(j)' /\ j \notin lost' => DecisionMissed(j)' \/ Kept(j)'
        BY <2>2, <2>4, <2>5, <2>6 DEF Recorded, Waits, Kept, DecisionMissed
    <2>10. /\ \A j \in JobIds : Sending(j)' \/ InChan(j)' => status'[j] = "QUEUED"
           /\ \A j \in JobIds :
                status'[j] = "none" \/ Sending(j)' \/ InChan(j)' =>
                        audit'[j] = "none" /\ Unbegun(j)'
        BY <2>1, <2>2, <2>4, <2>5 DEF Recorded, Unbegun
    <2> QED BY <2>2, <2>7, <2>8, <2>9, <2>10 DEF Recorded
<1>10. ASSUME NEW w \in Workers, Receive(w) PROVE Recorded'
    <2> USE <1>10 DEF Receive, workerFrame, submitVars, rowVars, locals, hookVars
    <2> PICK job : job = Head(jobsChan)
        OBVIOUS
    <2>1. job \in JobIds /\ jobsChan # <<>> /\ jobsChan' = Tail(jobsChan)
        OBVIOUS
    <2>2. /\ Occurs(jobsChan, job)
          /\ \A x : Occurs(jobsChan', x) => Occurs(jobsChan, x)
          /\ \A x : Occurs(jobsChan, x) => Occurs(jobsChan', x) \/ x = job
        BY <2>1, TailElements, TailKeeps
    <2>3. UNCHANGED <<status, verdict, audit, quar, missed, told, alerted, rpc, rid, lost, wres>>
        OBVIOUS
    <2>4. /\ \A j : (InChan(j)' => InChan(j)) /\ (InChan(j) => InChan(j)' \/ j = job)
          /\ InChan(job)
        BY <2>2 DEF InChan, Occurs
    <2>5. \A j : Sending(j)' <=> Sending(j)
        BY <2>3 DEF Sending
    <2>6. (\A j : Held(j) => Held(j)') /\ Held(job)'
        <3>1. Busy(w)' /\ wjob'[w] = job
            OBVIOUS
        <3>2. \A x \in Workers : Busy(x) => Busy(x)' /\ wjob'[x] = wjob[x]
            OBVIOUS
        <3> QED BY <3>1, <3>2 DEF Held
    <2>7. status[job] = "QUEUED" /\ audit[job] = "none" /\ Unbegun(job)
        BY <2>1, <2>4 DEF Recorded
    <2>8. ASSUME NEW x \in Workers PROVE Noted(x)'
        <3>1. CASE x = w
            BY <2>3, <2>7, <3>1 DEF Noted, Working, Unbegun
        <3>2. CASE x # w
            <4>1. wpc'[x] = wpc[x] /\ wjob'[x] = wjob[x] /\ wres'[x] = wres[x]
                BY <2>3, <3>2
            <4>2. Noted(x) /\ (Unbegun(wjob[x]) => Unbegun(wjob[x])')
                BY <2>3, <4>1 DEF Recorded, Unbegun
            <4>3. /\ status' = status /\ verdict' = verdict /\ audit' = audit
                  /\ missed' = missed /\ alerted' = alerted
                BY <2>3
            <4> HIDE <1>10 DEF Receive, workerFrame, submitVars, rowVars, locals, hookVars
            <4> QED BY <4>1, <4>2, <4>3, NotedStays
        <3> QED BY <3>1, <3>2
    <2>9. \A t \in told' : Told(t)'
        BY <2>3, ToldStays DEF Recorded
    <2>10. \A j \in JobIds : Waits(j)' /\ j \notin lost' => DecisionMissed(j)' \/ Kept(j)'
        <3>1. \A j : Kept(j) => Kept(j)'
            BY <2>4, <2>5, <2>6 DEF Kept
        <3>2. \A j : (Waits(j)' => Waits(j)) /\ (DecisionMissed(j) => DecisionMissed(j)')
            BY <2>3 DEF Waits, DecisionMissed
        <3> QED BY <2>3, <3>1, <3>2 DEF Recorded
    <2>11. /\ \A j \in JobIds : Sending(j)' \/ InChan(j)' => status'[j] = "QUEUED"
           /\ \A j \in JobIds :
                status'[j] = "none" \/ Sending(j)' \/ InChan(j)' =>
                        audit'[j] = "none" /\ Unbegun(j)'
        BY <2>3, <2>4, <2>5 DEF Recorded, Unbegun
    <2> QED BY <2>3, <2>8, <2>9, <2>10, <2>11 DEF Recorded
<1>11. ASSUME NEW w \in Workers, WorkerExit(w) PROVE Recorded'
    <2>1. Aside
        BY <1>11 DEF Aside, WorkerExit, workerFrame, submitVars, rowVars, locals, hookVars
    <2> QED BY <2>1, AsideKeepsRecord
<1>12. ASSUME NEW w \in Workers, MarkProcessing(w) PROVE Recorded'
    <2> USE <1>12 DEF MarkProcessing, workerFrame, submitVars, rowVars, locals, hookVars
    <2>1. wjob[w] \in JobIds /\ Noted(w) /\ InHand(w) /\ wpc[w] = "claimed"
        BY <1>2 DEF InHand
    <2>2. UpdateScanJobStatus(w, "PROCESSING", "none") /\ wpc' = [wpc EXCEPT ![w] = "open"]
        OBVIOUS
    <2>3. UNCHANGED <<rpc, rid, jobsChan, wjob, wres, lost, audit, quar, alerted, told>>
        OBVIOUS
    <2>4. /\ missed \subseteq missed' /\ \A j : j # wjob[w] => (Unbegun(j) => Unbegun(j)')
          /\ \A j \in JobIds : j # wjob[w] => status'[j] = status[j] /\ verdict'[j] = verdict[j]
          /\ \/ status'[wjob[w]] = "PROCESSING" /\ verdict'[wjob[w]] = "none"
             \/ /\ <<wjob[w], "PROCESSING">> \in missed'
                /\ status'[wjob[w]] = status[wjob[w]] /\ verdict'[wjob[w]] = verdict[wjob[w]]
        BY <2>1, <2>2, UpdateEffect DEF Unbegun
    <2> HIDE <1>12 DEF MarkProcessing, workerFrame, submitVars, rowVars, locals, hookVars
    <2>5. Moves(w)
        <3>1. Busy(w) /\ status[wjob[w]] # "none"
            BY <1>2, <2>1
        <3>2. "PROCESSING" \in Statuses \ {"none"} /\ "open" \in WorkerPcs \ {"idle", "exited"}
            BY DEF Statuses, WorkerPcs
        <3> QED BY ONLY <1>1, <2>2, <2>3, <3>1, <3>2, UpdateMoves
    <2>6. Noted(w)'
        <3>1. wpc'[w] = "open" /\ wres'[w] = wres[w] /\ wjob'[w] = wjob[w]
            BY <2>2, <2>3
        <3>2. audit'[wjob[w]] = "none" /\ Waits(wjob[w])'
            BY <2>1, <2>3, <2>4 DEF Noted, Waits
        <3>3. <<wjob[w], "PROCESSING">> \in missed' \/ status'[wjob[w]] = "PROCESSING"
            BY <2>4
        <3> QED BY <3>1, <3>2, <3>3 DEF Noted, Working
    <2>7. \A t \in told' : t[1] = wjob[w] => Told(t)'
        BY <1>3, <2>1, <2>3
    <2>8. status'[wjob[w]] \notin Terminal => verdict'[wjob[w]] = "none"
        BY <2>1, <2>4 DEF Recorded, Terminal
    <2> QED BY <2>5, <2>6, <2>7, <2>8, MoveKeepsRecord
<1>13. ASSUME NEW w \in Workers, OpenSpool(w) PROVE Recorded'
    <2> USE <1>13 DEF OpenSpool, workerFrame, submitVars, rowVars, locals, hookVars
    <2>1. wjob[w] \in JobIds /\ status[wjob[w]] # "none" /\ Noted(w) /\ InHand(w)
        BY <1>2 DEF InHand
    <2>2. Moves(w)
        BY <2>1 DEF Moves, Unbegun
    <2>3. Noted(w)'
        <3>1. /\ wpc[w] = "open" /\ wpc'[w] \in {"failOpen", "scan"} /\ wjob'[w] = wjob[w]
              /\ wpc'[w] = "failOpen" => wres'[w] = "ERROR"
            OBVIOUS
        <3>2. UNCHANGED <<status, verdict, audit, missed>>
            OBVIOUS
        <3> QED BY <2>1, <3>1, <3>2 DEF Noted, Working, Waits
    <2>4. \A t \in told' : t[1] = wjob[w] => Told(t)'
        BY <1>3, <2>1
    <2>5. status'[wjob[w]] \notin Terminal => verdict'[wjob[w]] = "none"
        BY <2>1 DEF Recorded
    <2> QED BY <2>2, <2>3, <2>4, <2>5, MoveKeepsRecord
<1>14. ASSUME NEW w \in Workers, RecordOpenFailure(w) PROVE Recorded'
    <2> USE <1>14 DEF RecordOpenFailure, workerFrame, submitVars, rowVars, locals, hookVars
    <2>1. wjob[w] \in JobIds /\ Noted(w) /\ InHand(w) /\ wpc[w] = "failOpen"
        BY <1>2 DEF InHand
    <2>2. UpdateScanJobStatus(w, "FAILED", "ERROR") /\ wpc' = [wpc EXCEPT ![w] = "webhook"]
        OBVIOUS
    <2>3. UNCHANGED <<rpc, rid, jobsChan, wjob, wres, lost, audit, quar, alerted, told>>
        OBVIOUS
    <2>4. /\ missed \subseteq missed' /\ \A j : j # wjob[w] => (Unbegun(j) => Unbegun(j)')
          /\ \A j \in JobIds : j # wjob[w] => status'[j] = status[j] /\ verdict'[j] = verdict[j]
          /\ \/ status'[wjob[w]] = "FAILED" /\ verdict'[wjob[w]] = "ERROR"
             \/ /\ <<wjob[w], "FAILED">> \in missed'
                /\ status'[wjob[w]] = status[wjob[w]] /\ verdict'[wjob[w]] = verdict[wjob[w]]
        BY <2>1, <2>2, UpdateEffect DEF Unbegun
    <2> HIDE <1>14 DEF RecordOpenFailure, workerFrame, submitVars, rowVars, locals, hookVars
    <2>5. Moves(w)
        <3>1. Busy(w) /\ status[wjob[w]] # "none"
            BY <1>2, <2>1
        <3>2. "FAILED" \in Statuses \ {"none"} /\ "webhook" \in WorkerPcs \ {"idle", "exited"}
            BY DEF Statuses, WorkerPcs
        <3> QED BY ONLY <1>1, <2>2, <2>3, <3>1, <3>2, UpdateMoves
    <2>6. Noted(w)'
        <3>1. /\ verdict[wjob[w]] = "none" /\ audit[wjob[w]] = "none"
              /\ wres[w] = "ERROR"
            BY <2>1 DEF Noted, Recorded, Working, Waits, Terminal
        <3>2. /\ DecisionMissed(wjob[w])' \/ (status'[wjob[w]] \in Terminal /\ verdict'[wjob[w]] = wres[w])
              /\ verdict'[wjob[w]] \in {wres[w], "none"}
            <4>1. "FAILED" \in Terminal /\ "COMPLETED" \in Terminal /\ wjob' = wjob
                BY <2>3 DEF Terminal
            <4> QED BY ONLY <2>4, <3>1, <4>1, MissIsNoted
        <3>3. wpc'[w] = "webhook" /\ wres'[w] = wres[w] /\ wjob'[w] = wjob[w]
            BY <2>2, <2>3
        <3>4. audit'[wjob[w]] = "none"
            BY <2>3, <3>1
        <3> QED BY <3>1, <3>2, <3>3, <3>4 DEF Noted, Working
    <2>7. \A t \in told' : t[1] = wjob[w] => Told(t)'
        BY <1>3, <2>1, <2>3
    <2>8. status'[wjob[w]] \notin Terminal => verdict'[wjob[w]] = "none"
        BY <2>1, <2>4 DEF Recorded, Terminal
    <2> QED BY <2>5, <2>6, <2>7, <2>8, MoveKeepsRecord
<1>15. ASSUME NEW w \in Workers, RecordScanFailure(w) PROVE Recorded'
    <2> USE <1>15 DEF RecordScanFailure, workerFrame, submitVars, rowVars, locals, hookVars
    <2>1. wjob[w] \in JobIds /\ Noted(w) /\ InHand(w) /\ wpc[w] = "failScan"
        BY <1>2 DEF InHand
    <2>2. UpdateScanJobStatus(w, "FAILED", "ERROR") /\ wpc' = [wpc EXCEPT ![w] = "cleanup"]
        OBVIOUS
    <2>3. UNCHANGED <<rpc, rid, jobsChan, wjob, wres, lost, audit, quar, alerted, told>>
        OBVIOUS
    <2>4. /\ missed \subseteq missed' /\ \A j : j # wjob[w] => (Unbegun(j) => Unbegun(j)')
          /\ \A j \in JobIds : j # wjob[w] => status'[j] = status[j] /\ verdict'[j] = verdict[j]
          /\ \/ status'[wjob[w]] = "FAILED" /\ verdict'[wjob[w]] = "ERROR"
             \/ /\ <<wjob[w], "FAILED">> \in missed'
                /\ status'[wjob[w]] = status[wjob[w]] /\ verdict'[wjob[w]] = verdict[wjob[w]]
        BY <2>1, <2>2, UpdateEffect DEF Unbegun
    <2> HIDE <1>15 DEF RecordScanFailure, workerFrame, submitVars, rowVars, locals, hookVars
    <2>5. Moves(w)
        <3>1. Busy(w) /\ status[wjob[w]] # "none"
            BY <1>2, <2>1
        <3>2. "FAILED" \in Statuses \ {"none"} /\ "cleanup" \in WorkerPcs \ {"idle", "exited"}
            BY DEF Statuses, WorkerPcs
        <3> QED BY ONLY <1>1, <2>2, <2>3, <3>1, <3>2, UpdateMoves
    <2>6. Noted(w)'
        <3>1. wpc'[w] = "cleanup" /\ wjob'[w] = wjob[w]
            BY <2>2, <2>3
        <3>2. DecisionMissed(wjob[w])' \/ status'[wjob[w]] \in Terminal
            <4>1. "FAILED" \in Terminal /\ wjob' = wjob
                BY <2>3 DEF Terminal
            <4> QED BY ONLY <2>4, <4>1, MissIsNoted
        <3> QED BY <3>1, <3>2 DEF Noted, Working
    <2>7. \A t \in told' : t[1] = wjob[w] => Told(t)'
        BY <1>3, <2>1, <2>3
    <2>8. status'[wjob[w]] \notin Terminal => verdict'[wjob[w]] = "none"
        BY <2>1, <2>4 DEF Recorded, Terminal
    <2> QED BY <2>5, <2>6, <2>7, <2>8, MoveKeepsRecord
<1>16. ASSUME NEW w \in Workers, QuarantineFile(w) PROVE Recorded'
    <2> USE <1>16 DEF QuarantineFile, workerFrame, submitVars, rowVars, locals, hookVars
    <2>1. wjob[w] \in JobIds /\ status[wjob[w]] # "none" /\ Noted(w) /\ InHand(w)
        BY <1>2 DEF InHand
    <2>2. Moves(w)
        BY <2>1 DEF Moves, Unbegun
    <2>3. Noted(w)'
        BY <2>1 DEF Noted, Recorded, Working, Waits, Terminal, DecisionMissed
    <2>4. \A t \in told' : t[1] = wjob[w] => Told(t)'
        BY <1>3, <2>1
    <2>5. status'[wjob[w]] \notin Terminal => verdict'[wjob[w]] = "none"
        BY <2>1 DEF Recorded
    <2> QED BY <2>2, <2>3, <2>4, <2>5, MoveKeepsRecord
<1>17. ASSUME NEW w \in Workers, DropSpool(w) PROVE Recorded'
    <2> USE <1>17 DEF DropSpool, workerFrame, submitVars, rowVars, locals, hookVars
    <2>1. wjob[w] \in JobIds /\ status[wjob[w]] # "none" /\ Noted(w) /\ InHand(w)
        BY <1>2 DEF InHand
    <2>2. Moves(w)
        BY <2>1 DEF Moves, Unbegun
    <2>3. Noted(w)'
        BY <2>1 DEF Noted, Recorded, Working, Waits, Terminal, DecisionMissed
    <2>4. \A t \in told' : t[1] = wjob[w] => Told(t)'
        BY <1>3, <2>1
    <2>5. status'[wjob[w]] \notin Terminal => verdict'[wjob[w]] = "none"
        BY <2>1 DEF Recorded
    <2> QED BY <2>2, <2>3, <2>4, <2>5, MoveKeepsRecord
<1>18. ASSUME NEW w \in Workers, RecordVerdict(w) PROVE Recorded'
    <2> USE <1>18 DEF RecordVerdict, workerFrame, submitVars, rowVars, locals, hookVars
    <2>1. wjob[w] \in JobIds /\ Noted(w) /\ InHand(w) /\ wpc[w] = "record"
        BY <1>2 DEF InHand
    <2>2. UpdateScanJobStatus(w, "COMPLETED", wres[w]) /\ wpc' = [wpc EXCEPT ![w] = "audit"]
        OBVIOUS
    <2>3. UNCHANGED <<rpc, rid, jobsChan, wjob, wres, lost, audit, quar, alerted, told>>
        OBVIOUS
    <2>4. /\ missed \subseteq missed' /\ \A j : j # wjob[w] => (Unbegun(j) => Unbegun(j)')
          /\ \A j \in JobIds : j # wjob[w] => status'[j] = status[j] /\ verdict'[j] = verdict[j]
          /\ \/ status'[wjob[w]] = "COMPLETED" /\ verdict'[wjob[w]] = wres[w]
             \/ /\ <<wjob[w], "COMPLETED">> \in missed'
                /\ status'[wjob[w]] = status[wjob[w]] /\ verdict'[wjob[w]] = verdict[wjob[w]]
        BY <2>1, <2>2, UpdateEffect DEF Unbegun
    <2> HIDE <1>18 DEF RecordVerdict, workerFrame, submitVars, rowVars, locals, hookVars
    <2>5. Moves(w)
        <3>1. Busy(w) /\ status[wjob[w]] # "none"
            BY <1>2, <2>1
        <3>2. "COMPLETED" \in Statuses \ {"none"} /\ "audit" \in WorkerPcs \ {"idle", "exited"}
            BY DEF Statuses, WorkerPcs
        <3> QED BY ONLY <1>1, <2>2, <2>3, <3>1, <3>2, UpdateMoves
    <2>6. Noted(w)'
        <3>1. /\ verdict[wjob[w]] = "none" /\ audit[wjob[w]] = "none"
              /\ wres[w] # "ERROR"
            BY <2>1 DEF Noted, Recorded, Working, Waits, Terminal
        <3>2. /\ DecisionMissed(wjob[w])' \/ (status'[wjob[w]] \in Terminal /\ verdict'[wjob[w]] = wres[w])
              /\ verdict'[wjob[w]] \in {wres[w], "none"}
            <4>1. "FAILED" \in Terminal /\ "COMPLETED" \in Terminal /\ wjob' = wjob
                BY <2>3 DEF Terminal
            <4> QED BY ONLY <2>4, <3>1, <4>1, MissIsNoted
        <3>3. wpc'[w] = "audit" /\ wres'[w] = wres[w] /\ wjob'[w] = wjob[w]
            BY <2>2, <2>3
        <3>4. audit'[wjob[w]] = "none"
            BY <2>3, <3>1
        <3> QED BY <3>1, <3>2, <3>3, <3>4 DEF Noted, Working
    <2>7. \A t \in told' : t[1] = wjob[w] => Told(t)'
        BY <1>3, <2>1, <2>3
    <2>8. status'[wjob[w]] \notin Terminal => verdict'[wjob[w]] = "none"
        BY <2>1, <2>4 DEF Recorded, Terminal
    <2> QED BY <2>5, <2>6, <2>7, <2>8, MoveKeepsRecord
<1>19. ASSUME NEW w \in Workers, InsertScanAuditLog(w) PROVE Recorded'
    <2> USE <1>19 DEF InsertScanAuditLog, AfterAudit, workerFrame, submitVars, rowVars, locals, hookVars
    <2>1. wjob[w] \in JobIds /\ status[wjob[w]] # "none" /\ Noted(w) /\ InHand(w)
        BY <1>2 DEF InHand
    <2>2. Moves(w)
        BY <2>1 DEF Moves, Unbegun
    <2>3. Noted(w)'
        <3>1. /\ wpc[w] = "audit" /\ wres[w] \in {"CLEAN", "INFECTED"} /\ audit[wjob[w]] = "none"
              /\ wpc'[w] = IF wres[w] = "INFECTED" THEN "alert" ELSE "webhook"
            BY <2>1 DEF Noted, Verdicts, Judged
        <3>2. UNCHANGED <<status, verdict, wjob, wres>> /\ missed \subseteq missed'
            OBVIOUS
        <3>3. /\ <<wjob[w], "audit">> \in missed' \/ audit'[wjob[w]] = wres[w]
              /\ audit'[wjob[w]] \in {wres[w], "none"}
            BY <2>1, <3>1
        <3>4. DecisionMissed(wjob[w]) => DecisionMissed(wjob[w])'
            BY <3>2 DEF DecisionMissed
        <3> QED BY <2>1, <3>1, <3>2, <3>3, <3>4 DEF Noted, Working
    <2>4. \A t \in told' : t[1] = wjob[w] => Told(t)'
        BY <1>3, <2>1
    <2>5. status'[wjob[w]] \notin Terminal => verdict'[wjob[w]] = "none"
        BY <2>1 DEF Recorded
    <2> QED BY <2>2, <2>3, <2>4, <2>5, MoveKeepsRecord
<1>20. ASSUME NEW w \in Workers, DispatchThreat(w) PROVE Recorded'
    <2> USE <1>20 DEF DispatchThreat, workerFrame, submitVars, rowVars, locals, hookVars
    <2>1. wjob[w] \in JobIds /\ status[wjob[w]] # "none" /\ Noted(w) /\ InHand(w)
        BY <1>2 DEF InHand
    <2>2. Moves(w)
        BY <2>1 DEF Moves, Unbegun
    <2>3. Noted(w)'
        BY <2>1 DEF Noted, Recorded, Working, Waits, Terminal, DecisionMissed
    <2>4. \A t \in told' : t[1] = wjob[w] => Told(t)'
        BY <1>3, <2>1
    <2>5. status'[wjob[w]] \notin Terminal => verdict'[wjob[w]] = "none"
        BY <2>1 DEF Recorded
    <2> QED BY <2>2, <2>3, <2>4, <2>5, MoveKeepsRecord
<1>21. ASSUME NEW w \in Workers, PostWebhook(w) PROVE Recorded'
    <2> USE <1>21 DEF PostWebhook, StopsRetrying, workerFrame, submitVars, rowVars, locals, hookVars
    <2>1. wjob[w] \in JobIds /\ status[wjob[w]] # "none" /\ Noted(w)
        BY <1>2
    <2>2. UNCHANGED <<status, verdict, audit, quar, missed, alerted>>
        OBVIOUS
    <2>3. Moves(w)
        BY <2>1 DEF Moves, Unbegun
    <2>4. Noted(w)'
        <3>1. /\ wpc[w] = "webhook" /\ wpc'[w] \in {"webhook", "cleanup"}
              /\ wjob'[w] = wjob[w] /\ wres'[w] = wres[w]
            OBVIOUS
        <3> HIDE <1>21 DEF PostWebhook, StopsRetrying, workerFrame, submitVars, rowVars, locals, hookVars
        <3> QED BY <2>1, <2>2, <3>1 DEF Noted, Working, DecisionMissed
    <2>5. \A t \in told' : t[1] = wjob[w] => Told(t)'
        <3> PICK message : message = <<wjob[w], wres[w], quar[wjob[w]] # NoFile>>
            OBVIOUS
        <3>1. told' \subseteq told \cup {message}
            OBVIOUS
        <3>2. \A t \in told : Told(t)'
            BY <2>2, ToldStays DEF Recorded
        <3>3. Told(message)'
            <4>1. /\ message[1] = wjob[w] /\ message[2] = wres[w]
                  /\ message[3] => quar[wjob[w]] # NoFile
                OBVIOUS
            <4>2. Told(message)
                BY <2>1, <4>1 DEF Noted, Told
            <4>3. UNCHANGED quar
                OBVIOUS
            <4> HIDE <1>21 DEF PostWebhook, StopsRetrying, workerFrame, submitVars, rowVars, locals, hookVars
            <4> QED BY <2>2, <4>2, <4>3, ToldStays
        <3> QED BY <3>1, <3>2, <3>3
    <2>6. status'[wjob[w]] \notin Terminal => verdict'[wjob[w]] = "none"
        BY <2>1, <2>2 DEF Recorded
    <2> QED BY <2>3, <2>4, <2>5, <2>6, MoveKeepsRecord
<1>22. ASSUME NEW w \in Workers, Cleanup(w) PROVE Recorded'
    <2> USE <1>22 DEF Cleanup, workerFrame, submitVars, rowVars, locals, hookVars
    <2> DEFINE job == wjob[w]
    <2>1. UNCHANGED <<status, verdict, audit, quar, missed, told, alerted, rpc, rid, lost, jobsChan>>
        OBVIOUS
    <2>2. \A j : (InChan(j)' <=> InChan(j)) /\ (Sending(j)' <=> Sending(j))
        BY <2>1 DEF InChan, Sending
    <2>3. \A j : Held(j) => Held(j)' \/ j = job
        BY DEF Held
    <2>4. DecisionMissed(job) \/ status[job] \in Terminal
        BY <1>2 DEF Noted
    <2>5. ASSUME NEW x \in Workers PROVE Noted(x)'
        <3>1. CASE x = w
            BY <3>1 DEF Noted, Working
        <3>2. CASE x # w
            <4>1. wpc'[x] = wpc[x] /\ wjob'[x] = wjob[x] /\ wres'[x] = wres[x]
                BY <3>2
            <4>2. Noted(x) /\ (Unbegun(wjob[x]) => Unbegun(wjob[x])')
                BY <2>1, <4>1 DEF Recorded, Unbegun
            <4>3. /\ status' = status /\ verdict' = verdict /\ audit' = audit
                  /\ missed' = missed /\ alerted' = alerted
                BY <2>1
            <4> HIDE <1>22 DEF Cleanup, workerFrame, submitVars, rowVars, locals, hookVars
            <4> QED BY <4>1, <4>2, <4>3, NotedStays
        <3> QED BY <3>1, <3>2
    <2>6. \A t \in told' : Told(t)'
        BY <2>1, ToldStays DEF Recorded
    <2>7. \A j \in JobIds : Waits(j)' /\ j \notin lost' => DecisionMissed(j)' \/ Kept(j)'
        BY <2>1, <2>2, <2>3, <2>4 DEF Recorded, Waits, Kept, Terminal, DecisionMissed
    <2> QED BY <2>1, <2>2, <2>5, <2>6, <2>7 DEF Recorded, Unbegun
<1>23. ASSUME NEW w \in Workers, ScanStream(w) PROVE Recorded'
    <2> USE <1>23 DEF ScanStream, workerFrame, submitVars, rowVars, locals, hookVars
    <2>1. PICK v \in Verdicts, pc \in {"failScan", "remove", "quarantine"} :
            /\ wres' = [wres EXCEPT ![w] = v]
            /\ wpc' = [wpc EXCEPT ![w] = pc]
            /\ pc = "failScan" <=> v = "ERROR"
        BY DEF AfterScan, ScanVerdicts, Verdicts
    <2>2. /\ UNCHANGED <<rowVars, audit, quar, hookVars, rpc, rid, jobsChan, wjob, lost>>
          /\ wpc[w] = "scan"
        OBVIOUS
    <2>3. wjob[w] \in JobIds /\ status[wjob[w]] # "none" /\ Noted(w) /\ InHand(w)
        BY <1>2 DEF InHand
    <2>4. Moves(w)
        BY <2>1, <2>2, <2>3 DEF Moves, Unbegun
    <2>5. Noted(w)'
        BY <2>1, <2>2, <2>3 DEF Noted, Working, Waits
    <2>6. \A t \in told' : t[1] = wjob[w] => Told(t)'
        BY <1>3, <2>2, <2>3
    <2>7. status'[wjob[w]] \notin Terminal => verdict'[wjob[w]] = "none"
        BY <2>2, <2>3 DEF Recorded
    <2> QED BY <2>4, <2>5, <2>6, <2>7, MoveKeepsRecord
<1>24. ASSUME BeginStop PROVE Recorded'
    <2>1. Aside
        BY <1>24 DEF Aside, BeginStop, mainFrame, dbVars, spoolVars, submitVars, workerVars, hookVars, locals
    <2> QED BY <2>1, AsideKeepsRecord
<1>25. ASSUME StopReturns PROVE Recorded'
    <2>1. Aside
        BY <1>25 DEF Aside, StopReturns, mainFrame, dbVars, spoolVars, submitVars, workerVars, hookVars, locals
    <2> QED BY <2>1, AsideKeepsRecord
<1>26. ASSUME ProcessEnds PROVE Recorded'
    <2> USE <1>26 DEF ProcessEnds, mainFrame, dbVars, spoolVars, submitVars, workerVars, hookVars, locals
    <2>1. UNCHANGED <<status, verdict, audit, quar, missed, told, alerted, rid>>
        OBVIOUS
    <2>2. \A j : ~InChan(j)' /\ ~Sending(j)'
        BY DEF InChan, Sending
    <2>3. \A w \in Workers : Noted(w)'
        BY DEF Noted, Working
    <2>4. \A t \in told' : Told(t)'
        BY <2>1, ToldStays DEF Recorded
    <2>5. \A j \in JobIds : Waits(j)' => j \in lost'
        BY <2>1 DEF Waits
    <2> QED BY <2>1, <2>2, <2>3, <2>4, <2>5 DEF Recorded, Unbegun
<1>27. ASSUME Start PROVE Recorded'
    <2>1. Aside
        BY <1>27 DEF Aside, Start, mainFrame, dbVars, spoolVars, submitVars, workerVars, hookVars, locals
    <2> QED BY <2>1, AsideKeepsRecord
<1>28. ASSUME UNCHANGED vars PROVE Recorded'
    <2>1. Aside
        BY <1>28 DEF Aside, vars
    <2> QED BY <2>1, AsideKeepsRecord
<1> QED
    BY <1>4, <1>5, <1>6, <1>7, <1>8, <1>9, <1>10, <1>11, <1>12, <1>13, <1>14, <1>15, <1>16, <1>17, <1>18, <1>19, <1>20, <1>21, <1>22, <1>23, <1>24, <1>25, <1>26, <1>27, <1>28
    DEF Next, SubmitJob, WorkerStep, Exit, Crash, Off

LEMMA DrainedStep ==
    ASSUME TypeInv, Drained, [Next]_vars
    PROVE  Drained'
<1> USE DEF Drained, TypeInv, TypeOK, QueueTypes, WorkerTypes, WorkerGoto
<1>1. ASSUME NEW r \in Requests, RejectRequest(r) \/ NameJob(r) \/ SubmitJob(r) PROVE Drained'
    BY <1>1 DEF RejectRequest, NameJob, SubmitJob, CreateSpool, CopyBody, InsertScanJob, Enqueue,
        DropJob, ChannelClosed, submitFrame, workerVars
<1>2. ASSUME NEW w \in Workers, WorkerStep(w) \/ ScanStream(w) PROVE Drained'
    <2>1. phase' = phase /\ (jobsChan = <<>> => jobsChan' = <<>>)
        BY <1>2 DEF WorkerStep, Receive, WorkerExit, MarkProcessing, OpenSpool, RecordOpenFailure,
            RecordScanFailure, QuarantineFile, DropSpool, RecordVerdict, InsertScanAuditLog,
            DispatchThreat, PostWebhook, Cleanup, ScanStream, workerFrame
    <2>2. CASE WorkerExit(w)
        BY <2>1, <2>2 DEF WorkerExit, RangeEnds, ChannelClosed
    <2>3. CASE ~WorkerExit(w)
        <3>1. \A x \in Workers : wpc'[x] = "exited" => wpc[x] = "exited"
            BY <1>2, <2>3 DEF WorkerStep, Receive, MarkProcessing, OpenSpool, RecordOpenFailure,
                RecordScanFailure, QuarantineFile, DropSpool, RecordVerdict, InsertScanAuditLog,
                AfterAudit, DispatchThreat, PostWebhook, Cleanup, ScanStream, AfterScan
        <3> QED BY <2>1, <3>1
    <2> QED BY <2>2, <2>3
<1>3. CASE BeginStop \/ StopReturns \/ ProcessEnds \/ Start
    BY <1>3 DEF BeginStop, StopReturns, ProcessEnds, Start, workerVars
<1>4. CASE UNCHANGED vars
    BY <1>4 DEF vars
<1> QED
    BY <1>1, <1>2, <1>3, <1>4 DEF Next, Exit, Crash, Off

LEMMA RecordAlways == Spec => []RecordInv
<1>1. RecordInv /\ [Next]_vars => RecordInv'
    <2> SUFFICES ASSUME RecordInv, [Next]_vars PROVE RecordInv'
        OBVIOUS
    <2>1. SpeechInv /\ TypeInv /\ Drained
        BY DEF RecordInv, SpeechInv, DecisionInv, HandlerInv
    <2>2. SpeechInv'
        BY <2>1, SpokenStep, DecisionStep DEF SpeechInv
    <2> QED BY <2>1, <2>2, RecordStep, DrainedStep DEF RecordInv
<1> QED
    BY RecordInit, <1>1, PTL DEF Spec

\* A consumer that was told a verdict finds it in the job's row, in the audit
\* log and, for an infection, in the alerts, across crashes and restarts: each
\* is written before dispatchWebhook is called.
THEOREM ToldIsRecordedAlways == Spec => []ToldIsRecorded
<1>1. RecordInv => ToldIsRecorded
    BY DEF RecordInv, Recorded, Told, ToldIsRecorded
<1> QED
    BY RecordAlways, <1>1, PTL

\* A job whose row waits is with its request, in the channel or with a worker,
\* unless the code let go of it at one of the three places that do.
THEOREM NoSilentLossAlways == Spec => []NoSilentLoss
<1>1. RecordInv => NoSilentLoss
    BY DEF RecordInv, Recorded, Waits, Kept, Sending, NoSilentLoss
<1> QED
    BY RecordAlways, <1>1, PTL

\* When Stop has returned (wg.Wait), the channel is drained and no job is inside
\* a worker.
StopDrains ==
    phase \in {"drained", "down"} => jobsChan = <<>> /\ \A w \in Workers : ~Busy(w)

LEMMA DrainedIsDone == TypeInv /\ Drained => StopDrains
<1> SUFFICES ASSUME TypeInv, Drained, phase \in {"drained", "down"}
             PROVE  jobsChan = <<>> /\ \A w \in Workers : ~Busy(w)
    BY DEF StopDrains
<1>1. \A w \in Workers : wpc[w] = "exited"
    BY DEF TypeInv, PcOK
<1>2. jobsChan = <<>>
    BY <1>1, WorkersExist DEF Drained, WorkersExist
<1> QED
    BY <1>1, <1>2 DEF Busy

\* Stop waits for every worker and every job in the channel, whatever fails.
THEOREM StopDrainsAlways == Spec => []StopDrains
<1>1. Init => TypeInv /\ Drained
    BY TypeInit DEF Init, Drained
<1>2. TypeInv /\ Drained /\ [Next]_vars => (TypeInv /\ Drained)'
    BY TypeStep, DrainedStep
<1> QED
    BY <1>1, <1>2, DrainedIsDone, PTL DEF Spec

\* And what it leaves PROCESSING then is a job that an end of the process took.
THEOREM StopWaitsAlways == Spec => []StopWaits
<1>1. ASSUME RecordInv, phase \in {"drained", "down"}
      PROVE  /\ jobsChan = <<>>
             /\ \A w \in Workers : ~Busy(w)
             /\ \A j \in JobIds : status[j] = "PROCESSING" => j \in lost \/ DecisionMissed(j)
    <2>1. jobsChan = <<>> /\ \A w \in Workers : ~Busy(w)
        BY <1>1, DrainedIsDone DEF RecordInv, SpeechInv, DecisionInv, HandlerInv, StopDrains
    <2>2. \A j : ~InChan(j) /\ ~Held(j)
        BY <2>1 DEF InChan, Held
    <2>3. \A j \in JobIds : status[j] = "PROCESSING" => ~Sending(j)
        BY <1>1 DEF RecordInv, Recorded
    <2>4. \A j \in JobIds : status[j] = "PROCESSING" => j \in lost \/ DecisionMissed(j)
        BY <1>1, <2>2, <2>3 DEF RecordInv, Recorded, Waits, Kept
    <2> QED BY <2>1, <2>4
<1>2. RecordInv => StopWaits
    BY <1>1 DEF StopWaits
<1> QED
    BY RecordAlways, <1>2, PTL

-----------------------------------------------------------------------------
(* The queue implements the contract of the job API *)

\* The states of jobs, and what consumers were told, as the contract sees them.
Shown == [j \in JobIds |-> BegunState(j)]
Messages == {<<t[1], t[2]>> : t \in {u \in told : ~DecisionMissed(u[1])}}

LEMMA ContractInit == Init => Contract!CInit
BY DEF Init, Contract!CInit, BegunState

LEMMA ShownStays ==
    ASSUME status' = status, \A j \in JobIds : Unbegun(j)' <=> Unbegun(j)
    PROVE  Shown' = Shown
BY DEF Shown, BegunState, Unbegun

LEMMA MessagesStay ==
    ASSUME told' = told, \A t \in told : DecisionMissed(t[1])' <=> DecisionMissed(t[1])
    PROVE  Messages' = Messages
BY DEF Messages

\* A step that shows nothing new and tells nobody.
LEMMA SilentStep ==
    ASSUME Shown' = Shown, verdict' = verdict, Messages' = Messages
    PROVE  [Contract!ContractNext]_(Contract!contractVars)
BY DEF Contract!contractVars, Shown, Messages

\* A step that does not touch the rows, nor fail to.
LEMMA IdleStep ==
    ASSUME UNCHANGED <<status, verdict, told, missed>>
    PROVE  [Contract!ContractNext]_(Contract!contractVars)
<1>1. Shown' = Shown
    BY ShownStays DEF Unbegun
<1>2. Messages' = Messages
    BY MessagesStay DEF DecisionMissed
<1> QED
    BY <1>1, <1>2, SilentStep

LEMMA ContractStep ==
    ASSUME RecordInv, [Next]_vars
    PROVE  [Contract!ContractNext]_(Contract!contractVars)
<1>1. TypeInv /\ Recorded
    BY DEF RecordInv, SpeechInv, DecisionInv, HandlerInv
<1>2. \A w \in Workers : Busy(w) => wjob[w] \in JobIds /\ Noted(w)
    BY <1>1 DEF TypeInv, PcOK, Recorded
<1>3. \A w \in Workers : InHand(w) => \A t \in told : t[1] # wjob[w]
    BY HandUntold DEF RecordInv
<1> USE DEF WorkerGoto, Busy
<1>4. ASSUME NEW r \in Requests, RejectRequest(r) \/ NameJob(r) \/ CreateSpool(r) \/ CopyBody(r) \/ Enqueue(r)
      PROVE  [Contract!ContractNext]_(Contract!contractVars)
    <2>1. UNCHANGED <<status, verdict, told, missed>>
        BY <1>4 DEF RejectRequest, NameJob, CreateSpool, CopyBody, Enqueue, submitFrame, hookVars
    <2> QED BY <2>1, IdleStep
<1>5. ASSUME NEW r \in Requests, InsertScanJob(r)
      PROVE  [Contract!ContractNext]_(Contract!contractVars)
    <2>1. UNCHANGED <<verdict, told, missed>>
        BY <1>5 DEF InsertScanJob, submitFrame, hookVars
    <2>2. CASE UNCHANGED status
        BY <2>1, <2>2, IdleStep
    <2>3. CASE status[rid[r]] = "none" /\ status' = [status EXCEPT ![rid[r]] = "QUEUED"]
        <3>1. PICK j \in JobIds : j = rid[r]
            BY <1>1, <1>5 DEF InsertScanJob, TypeInv, PcOK, Submitting
        <3>2. Unbegun(j) /\ status[j] = "none" /\ status' = [status EXCEPT ![j] = "QUEUED"]
            BY <1>1, <2>3, <3>1 DEF Recorded
        <3>3. Shown[j] = "none" /\ Shown' = [Shown EXCEPT ![j] = "QUEUED"]
            BY <1>1, <2>1, <3>2 DEF Shown, BegunState, Unbegun, TypeInv, TypeOK, RowTypes
        <3>4. Messages' = Messages
            BY <2>1, MessagesStay DEF DecisionMissed
        <3>5. Contract!AcceptJob(j)
            BY <2>1, <3>3, <3>4 DEF Contract!AcceptJob, Shown, Messages
        <3> QED BY <3>5 DEF Contract!ContractNext
    <2> QED BY <1>5, <2>2, <2>3 DEF InsertScanJob, RowExists
<1>6. ASSUME NEW w \in Workers, MarkProcessing(w)
      PROVE  [Contract!ContractNext]_(Contract!contractVars)
    <2>1. PICK j \in JobIds : j = wjob[w]
        BY <1>2, <1>6 DEF MarkProcessing
    <2>2. /\ status[j] = "QUEUED" /\ Unbegun(j) /\ verdict[j] = "none"
          /\ told' = told /\ UpdateScanJobStatus(w, "PROCESSING", "none")
          /\ \A t \in told : t[1] # j
        BY <1>1, <1>2, <1>3, <1>6, <2>1
           DEF MarkProcessing, Noted, Recorded, Terminal, InHand, hookVars
    <2>3. \/ /\ status' = [status EXCEPT ![j] = "PROCESSING"]
             /\ verdict' = [verdict EXCEPT ![j] = "none"] /\ missed' = missed
          \/ /\ UNCHANGED <<status, verdict>> /\ missed' = missed \cup {<<j, "PROCESSING">>}
        BY <2>1, <2>2 DEF UpdateScanJobStatus
    <2>4. verdict' = verdict
        BY <1>1, <2>2, <2>3 DEF TypeInv, TypeOK, RowTypes
    <2>5. Shown[j] = "QUEUED" /\ Shown' = [Shown EXCEPT ![j] = "PROCESSING"]
        BY <1>1, <2>2, <2>3 DEF Shown, BegunState, Unbegun, TypeInv, TypeOK, RowTypes
    <2>6. Messages' = Messages
        BY <2>2, <2>3, MessagesStay DEF DecisionMissed, Terminal
    <2>7. Contract!BeginJob(j)
        BY <2>4, <2>5, <2>6 DEF Contract!BeginJob, Shown, Messages
    <2> QED BY <2>7 DEF Contract!ContractNext
<1>7. ASSUME NEW w \in Workers, RecordOpenFailure(w) \/ RecordScanFailure(w) \/ RecordVerdict(w)
      PROVE  [Contract!ContractNext]_(Contract!contractVars)
    <2>1. PICK j \in JobIds : j = wjob[w]
        BY <1>2, <1>7 DEF RecordOpenFailure, RecordScanFailure, RecordVerdict
    <2>2. /\ Waits(j) /\ (~Unbegun(j) \/ status[j] = "PROCESSING") /\ told' = told
          /\ \A t \in told : t[1] # j
        BY <1>2, <1>3, <1>7, <2>1
           DEF RecordOpenFailure, RecordScanFailure, RecordVerdict, hookVars, Noted, Working,
               Unbegun, InHand
    <2>3. PICK s \in {"COMPLETED", "FAILED"}, v \in {"CLEAN", "INFECTED", "ERROR"} :
            /\ s = "FAILED" <=> v = "ERROR"
            /\ UpdateScanJobStatus(w, s, v)
        <3>1. CASE RecordOpenFailure(w) \/ RecordScanFailure(w)
            BY <3>1 DEF RecordOpenFailure, RecordScanFailure
        <3>2. CASE RecordVerdict(w)
            <4>1. wres[w] \in {"CLEAN", "INFECTED"}
                BY <1>1, <1>2, <3>2 DEF RecordVerdict, Noted, TypeInv, PcOK, Judged, Verdicts
            <4> QED BY <3>2, <4>1 DEF RecordVerdict
        <3> QED BY <1>7, <3>1, <3>2
    <2>4. Shown[j] = "PROCESSING"
        BY <2>2 DEF Shown, BegunState, Unbegun, Waits
    <2>5. CASE /\ status' = [status EXCEPT ![j] = s]
               /\ verdict' = [verdict EXCEPT ![j] = v] /\ missed' = missed
        <3>1. Shown' = [Shown EXCEPT ![j] = s]
            BY <1>1, <2>5 DEF Shown, BegunState, TypeInv, TypeOK, RowTypes
        <3>2. Messages' = Messages
            BY <2>2, <2>5, MessagesStay DEF DecisionMissed
        <3>3. Contract!DecideJob(j, s, v)
            BY <2>3, <2>4, <2>5, <3>1, <3>2 DEF Contract!DecideJob, Shown, Messages
        <3> QED BY <3>3 DEF Contract!ContractNext
    <2>6. CASE UNCHANGED <<status, verdict>> /\ missed' = missed \cup {<<j, s>>}
        <3>1. Shown' = Shown
            BY <2>6, ShownStays DEF Unbegun
        <3>2. Messages' = Messages
            BY <2>2, <2>6, MessagesStay DEF DecisionMissed
        <3> QED BY <2>6, <3>1, <3>2, SilentStep
    <2> QED BY <2>1, <2>3, <2>5, <2>6 DEF UpdateScanJobStatus
<1>8. ASSUME NEW w \in Workers, PostWebhook(w)
      PROVE  [Contract!ContractNext]_(Contract!contractVars)
    <2>1. PICK j \in JobIds : j = wjob[w]
        BY <1>2, <1>8 DEF PostWebhook
    <2>2. DecisionMissed(j) \/ (status[j] \in Terminal /\ verdict[j] = wres[w])
        BY <1>2, <1>8, <2>1 DEF PostWebhook, Noted
    <2>3. UNCHANGED <<status, verdict, missed>>
        BY <1>8 DEF PostWebhook, rowVars
    <2>4. PICK message :
            /\ message[1] = j /\ message[2] = wres[w]
            /\ told' = told \/ told' = told \cup {message}
        <3> PICK message : message = <<j, wres[w], quar[j] # NoFile>>
            OBVIOUS
        <3>1. message[1] = j /\ message[2] = wres[w]
            OBVIOUS
        <3> QED BY <1>8, <2>1, <3>1 DEF PostWebhook
    <2>5. Shown' = Shown /\ \A k : DecisionMissed(k)' <=> DecisionMissed(k)
        BY <2>3, ShownStays DEF Unbegun, DecisionMissed
    <2>6. CASE told' = told
        BY <2>3, <2>6, IdleStep
    <2>7. CASE told' = told \cup {message} /\ DecisionMissed(j)
        <3>1. Messages' = Messages
            BY <2>4, <2>5, <2>7 DEF Messages
        <3> QED BY <2>3, <2>5, <3>1, SilentStep
    <2>8. CASE told' = told \cup {message} /\ ~DecisionMissed(j)
        <3>1. Messages' = Messages \cup {<<j, verdict[j]>>}
            BY <2>2, <2>4, <2>5, <2>8 DEF Messages
        <3>2. Shown[j] \in {"COMPLETED", "FAILED"}
            BY <2>2, <2>8 DEF Shown, BegunState, Terminal
        <3>3. Contract!TellConsumer(j)
            BY <2>3, <2>5, <3>1, <3>2 DEF Contract!TellConsumer, Shown, Messages
        <3> QED BY <3>3 DEF Contract!ContractNext
    <2> QED BY <2>4, <2>6, <2>7, <2>8
<1>9. ASSUME NEW w \in Workers, InsertScanAuditLog(w)
      PROVE  [Contract!ContractNext]_(Contract!contractVars)
    <2>1. /\ UNCHANGED <<status, verdict, told>>
          /\ missed' = missed \/ missed' = missed \cup {<<wjob[w], "audit">>}
        BY <1>9 DEF InsertScanAuditLog, hookVars
    <2>2. /\ \A j : Unbegun(j)' <=> Unbegun(j)
          /\ \A j : DecisionMissed(j)' <=> DecisionMissed(j)
        BY <2>1 DEF Unbegun, DecisionMissed, Terminal
    <2> QED BY <2>1, <2>2, ShownStays, MessagesStay, SilentStep
<1>10. ASSUME NEW w \in Workers,
             \/ Receive(w) \/ WorkerExit(w) \/ OpenSpool(w) \/ QuarantineFile(w) \/ DropSpool(w)
             \/ DispatchThreat(w) \/ Cleanup(w) \/ ScanStream(w)
      PROVE  [Contract!ContractNext]_(Contract!contractVars)
    <2>1. UNCHANGED <<status, verdict, told, missed>>
        BY <1>10 DEF Receive, WorkerExit, OpenSpool, QuarantineFile, DropSpool, DispatchThreat,
            Cleanup, ScanStream, rowVars, hookVars
    <2> QED BY <2>1, IdleStep
<1>11. ASSUME BeginStop \/ StopReturns \/ ProcessEnds \/ Start \/ UNCHANGED vars
      PROVE  [Contract!ContractNext]_(Contract!contractVars)
    <2>1. UNCHANGED <<status, verdict, told, missed>>
        BY <1>11 DEF BeginStop, StopReturns, ProcessEnds, Start, mainFrame, dbVars, hookVars, vars
    <2> QED BY <2>1, IdleStep
<1> QED
    BY <1>4, <1>5, <1>6, <1>7, <1>8, <1>9, <1>10, <1>11
       DEF Next, SubmitJob, WorkerStep, Exit, Crash, Off

\* The queue, with its files, goroutines, channel, crashes, restarts and failing
\* statements, keeps what the API promises of a job: accepted once, begun once,
\* decided once, and a callback of a decided job says nothing but the decision.
THEOREM QueueKeepsContract == Spec => KeepsContract
<1>1. RecordInv /\ [Next]_vars => [Contract!ContractNext]_(Contract!contractVars)
    BY ContractStep
<1> QED
    BY ContractInit, RecordAlways, <1>1, PTL DEF Spec, KeepsContract, Contract!ContractSpec

-----------------------------------------------------------------------------
(* Spool files: a job whose clock reading no other request got has a name,  *)
(* a file and bytes of its own                                              *)

\* Job names are readings of the clock, and nobody else has one that was not
\* repeated.
Names ==
    /\ \A r \in Requests : rid[r] \in JobIds => rid[r] <= clock
    /\ \A r, q \in Requests : rid[r] \in JobIds /\ OwnReading(rid[r]) /\ rid[r] = rid[q] => r = q
    /\ \A r \in Requests : rpc[r] = "idle" => rid[r] = NoJob

\* A spool file is an inode that a request of that name made. When only one has
\* the name, it is that request's inode and holds its body only.
Files ==
    /\ \A j \in JobIds : dir[j] # NoFile => rid[dir[j]] = j
    /\ \A r \in Requests :
        /\ rpc[r] = "copy" => rid[fd[r]] = rid[r]
        /\ OwnReading(rid[r]) => data[r] \subseteq {r}
        /\ OwnReading(rid[r]) /\ rpc[r] \in {"insert", "send"} => data[r] = {r}

\* The owner of a row has written its file and will not touch it again.
Rows ==
    \A j \in JobIds :
        /\ status[j] = "none" => verdict[j] = "none" /\ quar[j] = NoFile
        /\ status[j] # "none" =>
            /\ owner[j] \in Requests /\ rid[owner[j]] = j
            /\ rpc[owner[j]] \notin {"idle", "open", "copy", "insert"}
        /\ OwnReading(j) =>
            /\ status[j] # "none" => data[owner[j]] = {owner[j]}
            /\ status[j] = "COMPLETED" => dir[j] = NoFile
            /\ quar[j] # NoFile => quar[j] = {owner[j]}
            /\ Sound(verdict[j], j)

\* What a worker has in hand is what the owner wrote, and its verdict fits.
Decided == {"quarantine", "remove", "record", "audit", "alert", "webhook"}
Scanned(w) ==
    OwnReading(wjob[w]) =>
        /\ wpc[w] \in WithFile => wfd[w] = owner[wjob[w]]
        /\ wpc[w] \in Decided => Sound(wres[w], wjob[w])
        /\ wpc[w] = "failOpen" => wres[w] = "ERROR"
        /\ wpc[w] = "alert" => wres[w] = "INFECTED"
        /\ wpc[w] = "record" => dir[wjob[w]] = NoFile

\* What the audit log, the alerts and the callbacks say, of jobs with a row.
Echoes ==
    /\ \A j \in JobIds :
        /\ status[j] = "none" => audit[j] = "none" /\ j \notin alerted
        /\ OwnReading(j) => Sound(audit[j], j) /\ (j \in alerted => owner[j] \in Infected)
    /\ \A t \in told : status[t[1]] # "none" /\ (OwnReading(t[1]) => Sound(t[2], t[1]))

Spooled == Names /\ Files /\ Rows /\ \A w \in Workers : Scanned(w)
SpoolInv == HandlerInv /\ Spooled /\ Echoes

LEMMA SpoolInit == Init => SpoolInv
<1> SUFFICES ASSUME Init PROVE Spooled /\ Echoes
    BY HandlerInit DEF SpoolInv
<1> QED
    BY ConstantsAssumption
       DEF ConstantsAssumption, Init, Spooled, Names, Files, Rows, Scanned, Sound, WithFile, JobIds,
           Decided, Echoes

\* The requests that still write their file, or whose row does not exist yet.
Early == {"idle", "open", "copy", "insert"}

\* The steps that name no job, write no file and insert no row: files only
\* disappear, rows only change to what their owner's body warrants.
Settles ==
    /\ UNCHANGED <<owner, data, rid, clock, repeated>>
    /\ \A j \in JobIds : dir'[j] \in {dir[j], NoFile}
    /\ \A r \in Requests :
        /\ rpc'[r] = "idle" => rpc[r] = "idle"
        /\ rpc'[r] = "copy" => rpc[r] = "copy" /\ fd'[r] = fd[r]
        /\ rpc'[r] \in {"insert", "send"} => rpc[r] \in {"insert", "send"}
        /\ rpc[r] \notin Early => rpc'[r] \notin Early
    /\ \A j \in JobIds :
        /\ status'[j] = "none" <=> status[j] = "none"
        /\ status[j] = "none" => verdict'[j] = verdict[j] /\ quar'[j] = quar[j]
        /\ OwnReading(j) =>
            /\ status'[j] = "COMPLETED" => status[j] = "COMPLETED" \/ dir[j] = NoFile
            /\ quar'[j] \in {quar[j], {owner[j]}}
            /\ verdict'[j] = verdict[j] \/ Sound(verdict'[j], j)

LEMMA SettlesKeepsSpool ==
    ASSUME Spooled, Settles, \A w \in Workers : Scanned(w)'
    PROVE  Spooled'
<1>1. Names'
    BY DEF Spooled, Settles, Names, OwnReading
<1>2. Files'
    BY DEF Spooled, Settles, Files, OwnReading
<1>3. ASSUME NEW j \in JobIds
      PROVE  /\ status'[j] = "none" => verdict'[j] = "none" /\ quar'[j] = NoFile
             /\ status'[j] # "none" =>
                /\ owner'[j] \in Requests /\ rid'[owner'[j]] = j
                /\ rpc'[owner'[j]] \notin Early
             /\ OwnReading(j)' =>
                /\ status'[j] # "none" => data'[owner'[j]] = {owner'[j]}
                /\ status'[j] = "COMPLETED" => dir'[j] = NoFile
                /\ quar'[j] # NoFile => quar'[j] = {owner'[j]}
                /\ Sound(verdict[j], j)'
    BY DEF Spooled, Settles, Rows, Early, Sound, OwnReading
<1>4. Rows'
    BY <1>3 DEF Rows, Early
<1> QED
    BY <1>1, <1>2, <1>4 DEF Spooled

\* A worker whose locals stay has the owner's bytes still.
LEMMA ScannedStays ==
    ASSUME Spooled, TypeInv, NEW w \in Workers,
           owner' = owner, repeated \subseteq repeated',
           \A j \in JobIds : dir'[j] \in {dir[j], NoFile}, wpc'[w] = wpc[w], wjob'[w] = wjob[w], wfd'[w] = wfd[w], wres'[w] = wres[w]
    PROVE  Scanned(w)'
BY DEF Spooled, Scanned, Sound, TypeInv, PcOK, Busy, WithFile, Decided, OwnReading

LEMMA SpoolStep ==
    ASSUME SpoolInv, [Next]_vars
    PROVE  Spooled'
<1>1. Spooled /\ TypeInv /\ TypeInv'
    BY TypeStep DEF SpoolInv, HandlerInv
\* The job of a busy worker has a row, so its owner has finished with its file.
<1>2. ASSUME NEW w \in Workers, Busy(w)
      PROVE  /\ wjob[w] \in JobIds /\ status[wjob[w]] # "none"
             /\ owner[wjob[w]] \in Requests /\ rid[owner[wjob[w]]] = wjob[w]
             /\ rpc[owner[wjob[w]]] \notin Early
             /\ OwnReading(wjob[w]) => data[owner[wjob[w]]] = {owner[wjob[w]]}
    <2>1. wjob[w] \in JobIds /\ Held(wjob[w])
        BY <1>1, <1>2 DEF TypeInv, PcOK, Held
    <2>2. status[wjob[w]] # "none"
        BY <2>1 DEF SpoolInv, HandlerInv, FreshRows
    <2> QED BY <1>1, <2>1, <2>2 DEF Spooled, Rows, Early
<1> USE <1>1 DEF TypeInv, TypeOK, PcOK, RowTypes, SpoolTypes, RequestTypes, WorkerTypes,
        Busy, Answered, Submitting, Early, WorkerGoto, RemoveSpool
<1>3. ASSUME NEW r \in Requests, RejectRequest(r) PROVE Spooled'
    <2> USE <1>3 DEF RejectRequest, submitFrame, workerVars, hookVars, dbVars, spoolVars
    <2>1. Settles
        BY DEF Settles
    <2>2. \A w \in Workers : Scanned(w)'
        BY <2>1, ScannedStays DEF Settles
    <2> QED BY <2>1, <2>2, SettlesKeepsSpool
<1>4. ASSUME NEW r \in Requests, NameJob(r) PROVE Spooled'
    <2> USE <1>4 DEF NameJob, JobName, submitFrame, workerVars, hookVars, dbVars, spoolVars
    <2>1. PICK d \in ClockSteps, now \in JobIds :
            /\ now = clock + d /\ clock' = now
            /\ repeated' = IF d = 0 THEN repeated \cup {clock} ELSE repeated
            /\ rid' = [rid EXCEPT ![r] = now]
        OBVIOUS
    <2>2. clock \in Nat /\ now \in Nat /\ clock <= now /\ (clock < now \/ now \in repeated')
        <3>1. clock \in Nat /\ d \in Nat
            BY ConstantsAssumption DEF ConstantsAssumption, ObserverTypes
        <3>2. d = 0 => now \in repeated'
            BY <2>1, <3>1
        <3> HIDE <1>4 DEF NameJob
        <3> QED BY <2>1, <3>1, <3>2
    <2>3. /\ UNCHANGED <<status, verdict, owner, quar, dir, data, fd, wpc, wjob, wfd, wres>>
          /\ repeated \subseteq repeated' /\ (\A j : OwnReading(j)' => OwnReading(j))
        BY <2>1 DEF OwnReading
    <2>4. rid[r] = NoJob /\ NoJob \notin JobIds /\ OwnReading(NoJob)
        BY ConstantsAssumption
           DEF ConstantsAssumption, JobIds, Spooled, Names, OwnReading, ObserverTypes
    <2>5. rpc' = [rpc EXCEPT ![r] = "open"] /\ rpc[r] = "idle"
        OBVIOUS
    <2> HIDE <1>4 DEF NameJob
    <2>6. \A q \in Requests : rid[q] \in JobIds =>
            rid[q] <= now /\ (now \notin repeated' => rid[q] # now)
        <3>1. \A q \in Requests : rid[q] \in JobIds => rid[q] <= clock /\ rid[q] \in Nat
            BY DEF Spooled, Names, JobIds
        <3> QED BY <2>2, <3>1
    <2>7. rid' = [rid EXCEPT ![r] = now] /\ clock' = now
        BY <2>1
    <2>8. Names'
        <3>1. \A q \in Requests : q # r => rid'[q] = rid[q]
            BY <2>7
        <3>2. rid'[r] = now
            BY <2>7
        <3>3. ASSUME NEW q \in Requests, NEW p \in Requests,
                     rid'[q] \in JobIds, rid'[q] \notin repeated', rid'[q] = rid'[p]
              PROVE  q = p
            <4>1. q # r /\ p # r => q = p
                BY <2>3, <3>1, <3>3 DEF Spooled, Names, OwnReading
            <4>2. q = r => p = r
                BY <2>6, <3>1, <3>2, <3>3
            <4>3. p = r => q = r
                BY <2>6, <3>1, <3>2, <3>3
            <4> QED BY <4>1, <4>2, <4>3
        <3>4. \A q \in Requests : rid'[q] \in JobIds => rid'[q] <= clock'
            BY <2>2, <2>6, <2>7, <3>1, <3>2
        <3>5. \A q \in Requests : rpc'[q] = "idle" => rid'[q] = NoJob
            BY <2>5, <3>1 DEF Spooled, Names
        <3> QED BY <3>3, <3>4, <3>5 DEF Names, OwnReading
    <2>9. Files'
        <3>1. \A q \in Requests : q # r => rid'[q] = rid[q] /\ rpc'[q] = rpc[q]
            BY <2>5, <2>7
        <3>2. rpc'[r] = "open"
            BY <2>5
        <3>3. \A j \in JobIds : dir[j] # NoFile => dir[j] \in Requests /\ dir[j] # r
            BY <2>4 DEF Spooled, Files
        <3>4. \A q \in Requests : rpc[q] = "copy" => fd[q] \in Requests /\ fd[q] # r
            BY <2>4 DEF Spooled, Files
        <3>5. data[r] \subseteq {r}
            BY <2>4 DEF Spooled, Files
        <3> QED BY <2>3, <3>1, <3>2, <3>3, <3>4, <3>5 DEF Spooled, Files
    <2>10. Rows'
        <3>1. \A j \in JobIds : status[j] # "none" => owner[j] # r /\ owner[j] \in Requests
            BY <2>5 DEF Spooled, Rows
        <3>2. \A q \in Requests : q # r => rid'[q] = rid[q] /\ rpc'[q] = rpc[q]
            BY <2>5, <2>7
        <3> QED BY <2>3, <3>1, <3>2 DEF Spooled, Rows, Sound
    <2>11. \A w \in Workers : Scanned(w)'
        BY <2>3, ScannedStays
    <2> QED BY <2>8, <2>9, <2>10, <2>11 DEF Spooled
<1>5. ASSUME NEW r \in Requests, CreateSpool(r) PROVE Spooled'
    <2> USE <1>5 DEF CreateSpool, submitFrame, workerVars, hookVars, dbVars, spoolVars
    <2>1. CASE UNCHANGED <<dir, data, fd>> /\ rpc' = [rpc EXCEPT ![r] = "rejected"]
        <3>1. Settles
            BY <2>1 DEF Settles
        <3>2. \A w \in Workers : Scanned(w)'
            BY <3>1, ScannedStays DEF Settles
        <3> QED BY <3>1, <3>2, SettlesKeepsSpool
    <2>2. CASE rpc' = [rpc EXCEPT ![r] = "copy"]
        <3>1. rid[r] \in JobIds /\ rpc[r] = "open"
            OBVIOUS
        <3>2. PICK i \in Requests : /\ dir' = [dir EXCEPT ![rid[r]] = i]
                                    /\ data' = [data EXCEPT ![i] = {}]
                                    /\ fd' = [fd EXCEPT ![r] = i]
                                    /\ rid[i] = rid[r]
            <4> DEFINE inode == IF dir[rid[r]] = NoFile THEN r ELSE dir[rid[r]]
            <4>1. inode \in Requests /\ rid[inode] = rid[r]
                BY <3>1 DEF Spooled, Files
            <4>2. /\ dir' = [dir EXCEPT ![rid[r]] = inode]
                  /\ data' = [data EXCEPT ![inode] = {}]
                  /\ fd' = [fd EXCEPT ![r] = inode]
                BY <2>2
            <4> QED BY <4>1, <4>2
        <3>3. UNCHANGED <<status, verdict, owner, quar, rid, clock, repeated, wpc, wjob, wfd, wres>>
            OBVIOUS
        <3> HIDE <1>5 DEF CreateSpool
        <3>4. \A q \in Requests : OwnReading(rid[r]) /\ rid[q] = rid[r] => q = r
            BY <3>1 DEF Spooled, Names
        <3>5. OwnReading(rid[r]) => status[rid[r]] = "none"
            BY <3>1, <3>4 DEF Spooled, Rows
        <3>6. Names'
            BY <2>2, <3>1, <3>3 DEF Spooled, Names, OwnReading
        <3>7. Files'
            <4>1. \A q \in Requests : OwnReading(rid[q]) /\ q # r => q # i
                BY <3>2, <3>4
            <4>2. \A j \in JobIds : dir'[j] # NoFile => rid'[dir'[j]] = j
                BY <3>1, <3>2, <3>3 DEF Spooled, Files
            <4>3. \A q \in Requests : rpc'[q] = "copy" => rid'[fd'[q]] = rid'[q]
                BY <2>2, <3>2, <3>3 DEF Spooled, Files
            <4>4. ASSUME NEW q \in Requests, OwnReading(rid[q])
                  PROVE  /\ data'[q] \subseteq {q}
                         /\ rpc'[q] \in {"insert", "send"} => data'[q] = {q}
                BY <2>2, <3>2, <4>1, <4>4 DEF Spooled, Files
            <4> QED BY <3>3, <4>2, <4>3, <4>4 DEF Files, OwnReading
        <3>8. Rows'
            <4>1. \A q \in Requests : q # r => rpc'[q] = rpc[q]
                BY <2>2
            <4>2. \A j \in JobIds : status[j] # "none" =>
                    owner[j] \in Requests /\ owner[j] # r /\ (OwnReading(j) => owner[j] # i /\ j # rid[r])
                BY <3>1, <3>2, <3>5 DEF Spooled, Rows
            <4>3. \A j \in JobIds : j # rid[r] => dir'[j] = dir[j]
                BY <3>2
            <4>4. \A q \in Requests : q # i => data'[q] = data[q]
                BY <3>2
            <4> QED BY <3>3, <4>1, <4>2, <4>3, <4>4 DEF Spooled, Rows, Sound, OwnReading
        <3>9. ASSUME NEW w \in Workers PROVE Scanned(w)'
            <4>1. Busy(w) /\ OwnReading(wjob[w]) => wjob[w] # rid[r] /\ wjob[w] \in JobIds
                BY <1>2, <3>5
            <4>2. \A j \in JobIds : j # rid[r] => dir'[j] = dir[j]
                BY <3>2
            <4> QED BY <3>3, <4>1, <4>2 DEF Spooled, Scanned, Sound, WithFile, Decided, OwnReading
        <3> QED BY <3>6, <3>7, <3>8, <3>9 DEF Spooled
    <2> QED BY <2>1, <2>2
<1>6. ASSUME NEW r \in Requests, CopyBody(r) PROVE Spooled'
    <2> USE <1>6 DEF CopyBody, submitFrame, workerVars, hookVars, dbVars, spoolVars
    <2>1. /\ rid[r] \in JobIds /\ rpc[r] = "copy"
          /\ fd[r] \in Requests /\ rid[fd[r]] = rid[r]
        BY DEF Spooled, Files
    <2>2. PICK i \in Requests : i = fd[r]
        BY <2>1
    <2>3. data' = [data EXCEPT ![i] = data[i] \cup {r}]
        BY <2>2
    <2>4. UNCHANGED <<status, verdict, owner, quar, rid, clock, repeated, wpc, wjob, wfd, wres>>
        OBVIOUS
    <2>5. /\ rpc' \in {[rpc EXCEPT ![r] = "insert"], [rpc EXCEPT ![r] = "rejected"]}
          /\ \A j \in JobIds : dir'[j] \in {dir[j], NoFile}
          /\ fd' = [fd EXCEPT ![r] = NoFile]
        BY <2>1
    <2> HIDE <1>6 DEF CopyBody
    <2>6. \A q \in Requests : OwnReading(rid[r]) /\ rid[q] = rid[r] => q = r
        BY <2>1 DEF Spooled, Names
    <2>7. Names'
        BY <2>1, <2>4, <2>5 DEF Spooled, Names, OwnReading
    <2>8. Files'
        <3>1. \A q \in Requests : OwnReading(rid[q]) /\ q # r => q # i
            BY <2>1, <2>2, <2>6
        <3>2. OwnReading(rid[r]) => i = r /\ data'[r] = {r}
            <4>1. OwnReading(rid[r]) => i = r /\ data[r] \subseteq {r}
                BY <2>1, <2>2, <2>6 DEF Spooled, Files
            <4> QED BY <2>3, <4>1
        <3>3. \A q \in Requests : q # r => rpc'[q] = rpc[q] /\ fd'[q] = fd[q]
            BY <2>5
        <3>4. rpc'[r] # "copy"
            BY <2>5
        <3>5. ASSUME NEW q \in Requests, OwnReading(rid[q])
              PROVE  /\ data'[q] \subseteq {q}
                     /\ rpc'[q] \in {"insert", "send"} => data'[q] = {q}
            BY <2>3, <3>1, <3>2, <3>3, <3>5 DEF Spooled, Files
        <3> QED BY <2>4, <2>5, <3>3, <3>4, <3>5 DEF Spooled, Files, OwnReading
    <2>9. Rows'
        <3>1. \A q \in Requests : q # r => rpc'[q] = rpc[q]
            BY <2>5
        <3>2. \A j \in JobIds : status[j] # "none" =>
                owner[j] \in Requests /\ owner[j] # r /\ (OwnReading(j) => owner[j] # i)
            BY <2>1, <2>2, <2>6 DEF Spooled, Rows
        <3>3. \A q \in Requests : q # i => data'[q] = data[q]
            BY <2>3
        <3> QED BY SMTT(30), <2>4, <2>5, <3>1, <3>2, <3>3 DEF Spooled, Rows, Sound, OwnReading
    <2>10. \A w \in Workers : Scanned(w)'
        BY <2>4, <2>5, ScannedStays
    <2> QED BY <2>7, <2>8, <2>9, <2>10 DEF Spooled
<1>7. ASSUME NEW r \in Requests, InsertScanJob(r) PROVE Spooled'
    <2> USE <1>7 DEF InsertScanJob, RowExists, submitFrame, workerVars, hookVars, dbVars, spoolVars
    <2>1. rid[r] \in JobIds
        OBVIOUS
    <2>2. CASE UNCHANGED <<status, owner>> /\ rpc' = [rpc EXCEPT ![r] = "rejected"]
        <3>1. \A j \in JobIds : dir'[j] \in {dir[j], NoFile}
            BY <2>1, <2>2
        <3>2. Settles
            BY <2>2, <3>1 DEF Settles
        <3>3. \A w \in Workers : Scanned(w)'
            BY <3>2, ScannedStays DEF Settles
        <3> QED BY <3>2, <3>3, SettlesKeepsSpool
    <2>3. CASE /\ status[rid[r]] = "none" /\ status' = [status EXCEPT ![rid[r]] = "QUEUED"]
               /\ owner' = [owner EXCEPT ![rid[r]] = r]
               /\ rpc' = [rpc EXCEPT ![r] = "send"] /\ dir' = dir
        <3>1. UNCHANGED <<verdict, quar, data, rid, fd, clock, repeated, wpc, wjob, wfd, wres>>
            OBVIOUS
        <3>2. Names'
            BY <2>3, <3>1 DEF Spooled, Names, OwnReading
        <3>3. Files'
            BY <2>3, <3>1 DEF Spooled, Files, OwnReading
        <3>4. (OwnReading(rid[r]) => data[r] = {r}) /\ verdict[rid[r]] = "none" /\ quar[rid[r]] = NoFile
            BY <2>1, <2>3 DEF Spooled, Files, Rows
        <3>5. Rows'
            BY <2>1, <2>3, <3>1, <3>4 DEF Spooled, Rows, Sound, OwnReading
        <3>6. ASSUME NEW w \in Workers PROVE Scanned(w)'
            <4>1. Busy(w) => wjob[w] # rid[r] /\ wjob[w] \in JobIds
                BY <1>2, <2>3
            <4> QED BY <2>3, <3>1, <4>1 DEF Spooled, Scanned, Sound, WithFile, Decided, OwnReading
        <3> QED BY <3>2, <3>3, <3>5, <3>6 DEF Spooled
    <2> QED BY <2>2, <2>3
<1>8. ASSUME NEW r \in Requests, Enqueue(r) PROVE Spooled'
    <2> USE <1>8 DEF Enqueue, DropJob, submitFrame, workerVars, hookVars, dbVars, spoolVars
    <2>1. Settles
        BY DEF Settles
    <2>2. \A w \in Workers : Scanned(w)'
        BY <2>1, ScannedStays DEF Settles
    <2> QED BY <2>1, <2>2, SettlesKeepsSpool
<1>9. ASSUME NEW w \in Workers, Receive(w) PROVE Spooled'
    <2> USE <1>9 DEF Receive, workerFrame, submitVars, rowVars, locals, hookVars
    <2>1. Settles
        BY <1>2 DEF Settles, Sound
    <2>2. Scanned(w)'
        BY DEF Scanned, WithFile, Decided
    <2>3. \A x \in Workers : x # w => Scanned(x)'
        BY <2>1, ScannedStays DEF Settles
    <2> QED BY <2>1, <2>2, <2>3, SettlesKeepsSpool
<1>10. ASSUME NEW w \in Workers, WorkerExit(w) PROVE Spooled'
    <2> USE <1>10 DEF WorkerExit, workerFrame, submitVars, rowVars, locals, hookVars
    <2>1. Settles
        BY <1>2 DEF Settles, Sound
    <2>2. Scanned(w)'
        BY DEF Scanned, WithFile, Decided
    <2>3. \A x \in Workers : x # w => Scanned(x)'
        BY <2>1, ScannedStays DEF Settles
    <2> QED BY <2>1, <2>2, <2>3, SettlesKeepsSpool
<1>11. ASSUME NEW w \in Workers, MarkProcessing(w) PROVE Spooled'
    <2> USE <1>11 DEF MarkProcessing, UpdateScanJobStatus, workerFrame, submitVars, rowVars, locals, hookVars
    <2>1. Settles
        BY <1>2 DEF Settles, Sound
    <2>2. Scanned(w)'
        BY DEF Scanned, WithFile, Decided
    <2>3. \A x \in Workers : x # w => Scanned(x)'
        BY <2>1, ScannedStays DEF Settles
    <2> QED BY <2>1, <2>2, <2>3, SettlesKeepsSpool
<1>12. ASSUME NEW w \in Workers, OpenSpool(w) PROVE Spooled'
    <2> USE <1>12 DEF OpenSpool, workerFrame, submitVars, rowVars, locals, hookVars
    <2>1. Settles
        BY <1>2 DEF Settles, Sound
    <2>2. Scanned(w)'
        <3>1. CASE dir[wjob[w]] = NoFile
            BY <3>1 DEF Scanned, WithFile, Decided
        <3>2. CASE dir[wjob[w]] # NoFile
            <4>1. OwnReading(wjob[w]) => dir[wjob[w]] = owner[wjob[w]]
                BY <1>2, <3>2 DEF Spooled, Names, Files
            <4> QED BY <3>2, <4>1 DEF Scanned, WithFile, Decided, OwnReading
        <3> QED BY <3>1, <3>2
    <2>3. \A x \in Workers : x # w => Scanned(x)'
        BY <2>1, ScannedStays DEF Settles
    <2> QED BY <2>1, <2>2, <2>3, SettlesKeepsSpool
<1>13. ASSUME NEW w \in Workers, RecordOpenFailure(w) PROVE Spooled'
    <2> USE <1>13 DEF RecordOpenFailure, UpdateScanJobStatus, workerFrame, submitVars, rowVars, locals, hookVars
    <2>1. Settles
        BY <1>2 DEF Settles, Sound
    <2>2. Scanned(w)'
        BY <1>2 DEF Spooled, Scanned, Sound, WithFile, Decided, OwnReading
    <2>3. \A x \in Workers : x # w => Scanned(x)'
        BY <2>1, ScannedStays DEF Settles
    <2> QED BY <2>1, <2>2, <2>3, SettlesKeepsSpool
<1>14. ASSUME NEW w \in Workers, RecordScanFailure(w) PROVE Spooled'
    <2> USE <1>14 DEF RecordScanFailure, UpdateScanJobStatus, workerFrame, submitVars, rowVars, locals, hookVars
    <2>1. Settles
        BY <1>2 DEF Settles, Sound
    <2>2. Scanned(w)'
        BY DEF Scanned, WithFile, Decided
    <2>3. \A x \in Workers : x # w => Scanned(x)'
        BY <2>1, ScannedStays DEF Settles
    <2> QED BY <2>1, <2>2, <2>3, SettlesKeepsSpool
<1>15. ASSUME NEW w \in Workers, QuarantineFile(w) PROVE Spooled'
    <2> USE <1>15 DEF QuarantineFile, workerFrame, submitVars, rowVars, locals, hookVars
    <2>1. Settles
        <3>1. OwnReading(wjob[w]) => data[wfd[w]] = {owner[wjob[w]]}
            BY <1>2 DEF Spooled, Scanned, WithFile
        <3> QED BY <1>2, <3>1 DEF Settles
    <2>2. Scanned(w)'
        BY DEF Spooled, Scanned, Sound, WithFile, Decided, OwnReading
    <2>3. \A x \in Workers : x # w => Scanned(x)'
        BY <2>1, ScannedStays DEF Settles
    <2> QED BY <2>1, <2>2, <2>3, SettlesKeepsSpool
<1>16. ASSUME NEW w \in Workers, DropSpool(w) PROVE Spooled'
    <2> USE <1>16 DEF DropSpool, workerFrame, submitVars, rowVars, locals, hookVars
    <2>1. Settles
        BY <1>2 DEF Settles, Sound
    <2>2. Scanned(w)'
        BY <1>2 DEF Spooled, Scanned, Sound, WithFile, Decided, OwnReading
    <2>3. \A x \in Workers : x # w => Scanned(x)'
        BY <2>1, ScannedStays DEF Settles
    <2> QED BY <2>1, <2>2, <2>3, SettlesKeepsSpool
<1>17. ASSUME NEW w \in Workers, RecordVerdict(w) PROVE Spooled'
    <2> USE <1>17 DEF RecordVerdict, UpdateScanJobStatus, workerFrame, submitVars, rowVars, locals, hookVars
    <2>1. Settles
        <3>1. OwnReading(wjob[w]) => dir[wjob[w]] = NoFile /\ Sound(wres[w], wjob[w])
            BY DEF Spooled, Scanned, Decided
        <3> QED BY <1>2, <3>1 DEF Settles
    <2>2. Scanned(w)'
        BY <1>2 DEF Spooled, Scanned, Sound, WithFile, Decided, OwnReading
    <2>3. \A x \in Workers : x # w => Scanned(x)'
        BY <2>1, ScannedStays DEF Settles
    <2> QED BY <2>1, <2>2, <2>3, SettlesKeepsSpool
<1>18. ASSUME NEW w \in Workers, InsertScanAuditLog(w) PROVE Spooled'
    <2> USE <1>18 DEF InsertScanAuditLog, AfterAudit, workerFrame, submitVars, rowVars, locals, hookVars
    <2>1. Settles
        BY <1>2 DEF Settles, Sound
    <2>2. Scanned(w)'
        BY <1>2 DEF Spooled, Scanned, Sound, WithFile, Decided, OwnReading
    <2>3. \A x \in Workers : x # w => Scanned(x)'
        BY <2>1, ScannedStays DEF Settles
    <2> QED BY <2>1, <2>2, <2>3, SettlesKeepsSpool
<1>19. ASSUME NEW w \in Workers, DispatchThreat(w) PROVE Spooled'
    <2> USE <1>19 DEF DispatchThreat, workerFrame, submitVars, rowVars, locals, hookVars
    <2>1. Settles
        BY <1>2 DEF Settles, Sound
    <2>2. Scanned(w)'
        BY <1>2 DEF Spooled, Scanned, Sound, WithFile, Decided, OwnReading
    <2>3. \A x \in Workers : x # w => Scanned(x)'
        BY <2>1, ScannedStays DEF Settles
    <2> QED BY <2>1, <2>2, <2>3, SettlesKeepsSpool
<1>20. ASSUME NEW w \in Workers, PostWebhook(w) PROVE Spooled'
    <2> USE <1>20 DEF PostWebhook, StopsRetrying, workerFrame, submitVars, rowVars, locals, hookVars
    <2>1. Settles
        BY <1>2 DEF Settles, Sound
    <2>2. Scanned(w)'
        BY <1>2 DEF Spooled, Scanned, Sound, WithFile, Decided, OwnReading
    <2>3. \A x \in Workers : x # w => Scanned(x)'
        BY <2>1, ScannedStays DEF Settles
    <2> QED BY <2>1, <2>2, <2>3, SettlesKeepsSpool
<1>21. ASSUME NEW w \in Workers, Cleanup(w) PROVE Spooled'
    <2> USE <1>21 DEF Cleanup, workerFrame, submitVars, rowVars, locals, hookVars
    <2>1. Settles
        BY <1>2 DEF Settles, Sound
    <2>2. Scanned(w)'
        BY DEF Scanned, WithFile, Decided
    <2>3. \A x \in Workers : x # w => Scanned(x)'
        BY <2>1, ScannedStays DEF Settles
    <2> QED BY <2>1, <2>2, <2>3, SettlesKeepsSpool
<1>22. ASSUME NEW w \in Workers, ScanStream(w) PROVE Spooled'
    <2> USE <1>22 DEF ScanStream, workerFrame, submitVars, rowVars, locals, hookVars
    <2>1. Settles
        BY <1>2 DEF Settles, Sound
    <2>2. Scanned(w)'
        <3>1. OwnReading(wjob[w]) =>
                data[wfd[w]] = {owner[wjob[w]]} /\ wfd[w] = owner[wjob[w]]
            BY <1>2 DEF Spooled, Scanned, WithFile
        <3>2. Cardinality({owner[wjob[w]]}) = 1
            BY FS_Singleton
        <3>3. ASSUME NEW v \in ScanVerdicts(data[wfd[w]]), OwnReading(wjob[w])
              PROVE  Sound(v, wjob[w])
            <4>1. v \in ScanVerdicts({owner[wjob[w]]})
                BY <3>1, <3>3
            <4> HIDE <1>22 DEF ScanStream
            <4> QED BY <3>2, <4>1 DEF ScanVerdicts, Sound
        <3>4. PICK v \in Verdicts, pc \in {"failScan", "remove", "quarantine"} :
                /\ wres' = [wres EXCEPT ![w] = v]
                /\ wpc' = [wpc EXCEPT ![w] = pc]
                /\ pc # "failScan" /\ OwnReading(wjob[w]) => Sound(v, wjob[w])
            BY <3>3 DEF AfterScan, ScanVerdicts, Verdicts
        <3>5. UNCHANGED <<owner, wjob, wfd, repeated>>
            OBVIOUS
        <3> QED BY <3>1, <3>4, <3>5 DEF Scanned, Sound, WithFile, Decided, OwnReading
    <2>3. \A x \in Workers : x # w => Scanned(x)'
        BY <2>1, ScannedStays DEF Settles
    <2> QED BY <2>1, <2>2, <2>3, SettlesKeepsSpool
<1>23. ASSUME BeginStop PROVE Spooled'
    <2> USE <1>23 DEF BeginStop, mainFrame, dbVars, spoolVars, submitVars, workerVars, hookVars, locals
    <2>1. Settles
        BY DEF Settles
    <2>2. \A w \in Workers : Scanned(w)'
        BY <2>1, ScannedStays DEF Settles
    <2> QED BY <2>1, <2>2, SettlesKeepsSpool
<1>24. ASSUME StopReturns PROVE Spooled'
    <2> USE <1>24 DEF StopReturns, mainFrame, dbVars, spoolVars, submitVars, workerVars, hookVars, locals
    <2>1. Settles
        BY DEF Settles
    <2>2. \A w \in Workers : Scanned(w)'
        BY <2>1, ScannedStays DEF Settles
    <2> QED BY <2>1, <2>2, SettlesKeepsSpool
<1>25. ASSUME ProcessEnds PROVE Spooled'
    <2> USE <1>25 DEF ProcessEnds, mainFrame, dbVars, spoolVars, submitVars, workerVars, hookVars, locals
    <2>1. Settles
        BY DEF Settles
    <2>2. \A w \in Workers : Scanned(w)'
        BY DEF Scanned, WithFile, Decided
    <2> QED BY <2>1, <2>2, SettlesKeepsSpool
<1>26. ASSUME Start PROVE Spooled'
    <2> USE <1>26 DEF Start, mainFrame, dbVars, spoolVars, submitVars, workerVars, hookVars, locals
    <2>1. Settles
        BY DEF Settles
    <2>2. \A w \in Workers : Scanned(w)'
        BY DEF Scanned, WithFile, Decided
    <2> QED BY <2>1, <2>2, SettlesKeepsSpool
<1>27. ASSUME UNCHANGED vars PROVE Spooled'
    <2>1. Settles
        BY <1>27 DEF Settles, vars
    <2>2. \A w \in Workers : Scanned(w)'
        BY <1>27, <2>1, ScannedStays DEF Settles, vars
    <2> QED BY <2>1, <2>2, SettlesKeepsSpool
<1> QED
    BY <1>3, <1>4, <1>5, <1>6, <1>7, <1>8, <1>9, <1>10, <1>11, <1>12, <1>13, <1>14, <1>15, <1>16, <1>17, <1>18, <1>19, <1>20, <1>21, <1>22, <1>23, <1>24, <1>25, <1>26, <1>27
    DEF Next, SubmitJob, WorkerStep, Exit, Crash, Off

\* The steps that tell nobody anything, and insert no row.
Mute ==
    /\ UNCHANGED <<audit, alerted, told, owner>>
    /\ repeated \subseteq repeated'
    /\ \A j \in JobIds : status'[j] = "none" <=> status[j] = "none"

LEMMA MuteKeepsEchoes ==
    ASSUME Echoes, TypeInv, Mute
    PROVE  Echoes'
<1>1. \A t \in told : t[1] \in JobIds
    BY DEF TypeInv, TypeOK, ObserverTypes
<1> QED
    BY <1>1 DEF Echoes, Mute, Sound, OwnReading

LEMMA EchoStep == SpoolInv /\ [Next]_vars => Echoes'
<1> SUFFICES ASSUME SpoolInv, [Next]_vars PROVE Echoes'
    OBVIOUS
<1>1. Spooled /\ TypeInv /\ Echoes
    BY DEF SpoolInv, HandlerInv
<1>2. \A t \in told : t[1] \in JobIds
    BY <1>1 DEF TypeInv, TypeOK, ObserverTypes
<1>3. ASSUME NEW w \in Workers, Busy(w)
      PROVE  wjob[w] \in JobIds /\ status[wjob[w]] # "none"
    <2>1. wjob[w] \in JobIds /\ Held(wjob[w])
        BY <1>1, <1>3 DEF TypeInv, PcOK, Held
    <2> QED BY <2>1 DEF SpoolInv, HandlerInv, FreshRows
<1>4. \A w \in Workers :
        wpc[w] \in Decided /\ OwnReading(wjob[w]) => Sound(wres[w], wjob[w])
    BY <1>1 DEF Spooled, Scanned
<1> USE <1>1
<1>5. ASSUME NEW r \in Requests, InsertScanJob(r) PROVE Echoes'
    <2>1. rid[r] \in JobIds /\ UNCHANGED <<audit, alerted, told, repeated>>
        BY <1>5 DEF InsertScanJob, TypeInv, PcOK, Submitting, submitFrame, hookVars
    <2>2. CASE UNCHANGED <<status, owner>>
        BY <2>1, <2>2, MuteKeepsEchoes DEF Mute
    <2>3. CASE /\ status[rid[r]] = "none" /\ status' = [status EXCEPT ![rid[r]] = "QUEUED"]
               /\ owner' = [owner EXCEPT ![rid[r]] = r]
        <3>1. /\ \A j \in JobIds : j # rid[r] => status'[j] = status[j] /\ owner'[j] = owner[j]
              /\ status'[rid[r]] # "none" /\ audit[rid[r]] = "none" /\ rid[r] \notin alerted
              /\ \A t \in told : t[1] # rid[r]
            BY <2>1, <2>3 DEF Echoes, TypeInv, TypeOK, RowTypes
        <3> QED BY <1>2, <2>1, <3>1 DEF Echoes, Sound, OwnReading
    <2> QED BY <1>5, <2>2, <2>3 DEF InsertScanJob, RowExists
<1>6. ASSUME NEW w \in Workers, InsertScanAuditLog(w) PROVE Echoes'
    <2>1. /\ wjob[w] \in JobIds /\ status[wjob[w]] # "none"
          /\ OwnReading(wjob[w]) => Sound(wres[w], wjob[w])
          /\ UNCHANGED <<status, owner, alerted, told, repeated>>
          /\ audit' \in {audit, [audit EXCEPT ![wjob[w]] = wres[w]]}
        BY <1>3, <1>4, <1>6
           DEF InsertScanAuditLog, Busy, Decided, workerFrame, rowVars, hookVars
    <2>2. \A j \in JobIds : audit'[j] = audit[j] \/ (j = wjob[w] /\ audit'[j] = wres[w])
        BY <2>1 DEF TypeInv, TypeOK, RowTypes
    <2> QED BY <1>2, <2>1, <2>2 DEF Echoes, Sound, OwnReading
<1>7. ASSUME NEW w \in Workers, DispatchThreat(w) PROVE Echoes'
    <2>1. /\ wjob[w] \in JobIds /\ status[wjob[w]] # "none"
          /\ OwnReading(wjob[w]) => Sound("INFECTED", wjob[w])
          /\ UNCHANGED <<status, owner, audit, told, repeated>> /\ alerted' = alerted \cup {wjob[w]}
        BY <1>3, <1>4, <1>7
           DEF DispatchThreat, Busy, Decided, Spooled, Scanned, workerFrame, rowVars
    <2> QED BY <1>2, <2>1 DEF Echoes, Sound, OwnReading
<1>8. ASSUME NEW w \in Workers, PostWebhook(w) PROVE Echoes'
    <2>1. /\ wjob[w] \in JobIds /\ status[wjob[w]] # "none"
          /\ OwnReading(wjob[w]) => Sound(wres[w], wjob[w])
          /\ UNCHANGED <<status, owner, audit, alerted, repeated>>
          /\ told' \subseteq told \cup {<<wjob[w], wres[w], quar[wjob[w]] # NoFile>>}
        BY <1>3, <1>4, <1>8 DEF PostWebhook, Busy, Decided, workerFrame, rowVars
    <2>2. ASSUME NEW t \in told' PROVE t \in told \/ (t[1] = wjob[w] /\ t[2] = wres[w])
        BY <2>1
    <2> QED BY <1>2, <2>1, <2>2 DEF Echoes, Sound, OwnReading
<1>9. ASSUME NEW w \in Workers,
             MarkProcessing(w) \/ RecordOpenFailure(w) \/ RecordScanFailure(w) \/ RecordVerdict(w)
      PROVE  Echoes'
    <2>1. /\ wjob[w] \in JobIds /\ status[wjob[w]] # "none"
          /\ UNCHANGED <<audit, alerted, told, owner, repeated>>
          /\ \E st \in {"PROCESSING", "FAILED", "COMPLETED"} : \E v : UpdateScanJobStatus(w, st, v)
        BY <1>3, <1>9
           DEF MarkProcessing, RecordOpenFailure, RecordScanFailure, RecordVerdict, Busy,
               UpdateScanJobStatus, workerFrame, hookVars
    <2>2. Mute
        BY <2>1 DEF Mute, UpdateScanJobStatus, TypeInv, TypeOK, RowTypes
    <2> QED BY <2>2, MuteKeepsEchoes
<1>10. ASSUME NEW w \in Workers,
              \/ Receive(w) \/ WorkerExit(w) \/ OpenSpool(w) \/ QuarantineFile(w)
              \/ DropSpool(w) \/ Cleanup(w) \/ ScanStream(w)
       PROVE  Echoes'
    <2>1. Mute
        BY <1>10 DEF Receive, WorkerExit, OpenSpool, QuarantineFile, DropSpool, Cleanup,
            ScanStream, workerFrame, rowVars, hookVars, Mute
    <2> QED BY <2>1, MuteKeepsEchoes
<1>11. ASSUME NEW r \in Requests,
              \/ RejectRequest(r) \/ NameJob(r) \/ CreateSpool(r) \/ CopyBody(r) \/ Enqueue(r)
       PROVE  Echoes'
    <2>1. Mute
        BY <1>11 DEF RejectRequest, NameJob, CreateSpool, CopyBody, Enqueue, DropJob,
            submitFrame, dbVars, rowVars, hookVars, Mute
    <2> QED BY <2>1, MuteKeepsEchoes
<1>12. ASSUME BeginStop \/ StopReturns \/ ProcessEnds \/ Start \/ UNCHANGED vars PROVE Echoes'
    <2>1. Mute
        BY <1>12 DEF BeginStop, StopReturns, ProcessEnds, Start, mainFrame, dbVars, rowVars,
            hookVars, vars, Mute
    <2> QED BY <2>1, MuteKeepsEchoes
<1> QED
    BY <1>5, <1>6, <1>7, <1>8, <1>9, <1>10, <1>11, <1>12
       DEF Next, SubmitJob, WorkerStep, Exit, Crash, Off

LEMMA SpoolAlways == Spec => []SpoolInv
<1>1. SpoolInv /\ [Next]_vars => SpoolInv'
    BY SpoolStep, EchoStep, HandlerStep DEF SpoolInv
<1> QED
    BY SpoolInit, <1>1, PTL DEF Spec

\* No bytes of a finished scan are left in the spool directory, across crashes,
\* failing statements and restarts: processJob removes the file first.
THEOREM CompletedLeavesNoSpoolAlways == Spec => []CompletedLeavesNoSpool
<1>1. SpoolInv => CompletedLeavesNoSpool
    BY DEF SpoolInv, Spooled, Rows, CompletedLeavesNoSpool
<1> QED
    BY SpoolAlways, <1>1, PTL

\* What is said of a job and what is quarantined for it fits the body that the
\* row's own request sent, for every interleaving of SubmitJob, processJob,
\* crashes and restarts; a reading the clock repeats spoils its own jobs only.
THEOREM VerdictOfOwnBytesAlways == Spec => []VerdictOfOwnBytes
<1>1. SpoolInv => VerdictOfOwnBytes
    <2>1. SpoolInv => \A t \in told : t[1] \in JobIds
        BY DEF SpoolInv, HandlerInv, TypeInv, TypeOK, ObserverTypes
    <2> QED BY <2>1 DEF SpoolInv, Spooled, Rows, Echoes, VerdictOfOwnBytes
<1> QED
    BY SpoolAlways, <1>1, PTL
=============================================================================
