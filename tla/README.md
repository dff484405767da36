# Specifications of the ClamAV service

TLA+ models of this repository's service, TLC configurations that check them on small
instances, and TLAPS proofs of their main safety properties for every instance. The
code is one Go binary that runs as PID 1 of a container, supervises `clamd` and
`freshclam`, and offers scanning over HTTP and gRPC, a quarantine vault, asynchronous
scan jobs with webhooks, custom YARA rules and alerts. All durable state is in `/data`
(SQLite database, vault directory, spool directory), in the rules directory and in the
`.env` file that holds the master key.

    tlc -workers 2 -config Yara.cfg MCYaraManager.tla     # a run
    tlapm YaraManagerProofs.tla                           # the proofs of a module

## 1. Inventory

| Component | State it keeps | Operations | Hard behaviour | Correct when |
|---|---|---|---|---|
| Async queue, `internal/asyncscan/queue.go` | `scan_jobs` rows, spool files, buffered channel, worker goroutines | `Start`, `SubmitJob`, `processJob`, `dispatchWebhook`, `Stop` | requests, workers and shutdown interleave; full or closed channel; kill between any two statements; IDs from the clock; POST retries | one goroutine per job; a decision is final; what a consumer is told is recorded; no accepted job is silently lost |
| Quarantine vault, `internal/quarantine/vault.go` | `*.quarantine` files, `quarantine_records`, whitelist, master key | `QuarantineFile`, `RestoreFile`, `DownloadFile`, `DeleteFile`, `PurgeExpired` | file and row are written separately; restore, delete, download and purge overlap; key changes | a row has complete bytes; what comes out is what went in; a deleted entry stays deleted |
| YARA manager, `internal/yara/manager.go` | rules directory, `yara_rules`, clamd's loaded rules, a mutex | `AddRule`, `DeleteRule` | three stores, every step can fail; lost RELOAD answers; clamd ends; kill | a created rule stays and is loaded; a refused one leaves nothing |
| YARA validator, `internal/yara/validator.go` | none | `ValidateRule`, `countBraces` | context-sensitive text | braces counted outside strings and comments |
| SQLite storage, `internal/storage/sqlite.go` | seven tables, one connection | statements | multi-statement operations without a transaction | each statement atomic, errors reported |
| HTTP API, `internal/api/server.go` | none of its own but the dashboard password hash | scan, quarantine, YARA, async, audit, password handlers | every handler concurrent with all others | answers agree with what was stored |
| gRPC, `internal/grpcserver/server.go` | none | `ScanStream` | same as a file scan, in chunks | same as a file scan |
| clamd client, `internal/clamd/client.go` | a connection per call | `ScanStream`, `Reload`, `Ping`, `Version` | no deadline on the socket; a closed connection reads as an empty answer | the verdict is clamd's verdict |
| Supervisor, `internal/supervisor/process.go` | two child processes, `stopChan` | `Start`, `runClamd`, `runFreshclam`, `Stop` | unlocked fields shared by three goroutines | children restarted while up, none left after `Stop` |
| Start and shutdown, `cmd/server/main.go` | the order of everything | `main`, cleaner ticker | `sup.Stop`, `GracefulStop`, queue `Stop`, HTTP `Shutdown`, in this order | work accepted is finished or refused |
| Rate limiter, `internal/ratelimit/limiter.go` | tokens and window start per address | `Allow`, `AllowGlobal` (no caller) | window edges | at most the limit per minute |
| Alert notifier, `internal/alert/notifier.go` | times of recent alerts | `DispatchThreat` | flood throttle | a flood is cut, single alerts get through |
| Safe fetcher, `internal/fetcher/client.go` | none | `Fetch`, `ValidateTargetIP`, `boundedReadCloser` | redirects, size limit | no body above the limit is delivered, no blocked address is dialled |
| Crypto, `internal/crypto` | `.env` | `EnsureMasterKey`, AES-GCM, password hash | reader and writer of `.env` differ | the same key at every start |
| Archive inspector, `internal/scanner/archive.go` | none | `InspectZip` (no caller) | 64-bit sums | a bomb is recognised |
| Web UI, protobuf stubs, configuration | none | | | out of scope |

How they interact. A handler of the API calls the vault, the storage, the queue, the
YARA manager and the clamd client on its own goroutine. The queue hands jobs to its
workers over a channel; workers call clamd, vault, storage, notifier and the fetcher's
HTTP client. The cleaner goroutine calls storage and vault every hour. The supervisor
restarts clamd under everybody's feet. They share nothing in memory but the channel,
the mutexes of the YARA manager, limiter and notifier, and the supervisor's two
unlocked fields; everything else meets in the database and in directories. That is why
the models are about the order of single statements on rows and files.

The hazards, each at its line, are listed in `PROJECT.json`, with the properties that catch
them and, where no property does or only in part, why.

## 2. Modules

| Module | Role |
|---|---|
| `ScanJobContract` | What the asynchronous API promises: accepted once, worked on once, decided once, told only the decision |
| `AsyncQueue` | The queue, one action per statement that changes state; implements `ScanJobContract` |
| `Vault` | Scans, administrators, cleaner, process and key over the vault |
| `YaraManager` | Rule additions and deletions over directory, table and clamd |
| `ScanPath` | One synchronous scan from its first byte to its answer: fetcher, upload or stream, checksum and whitelist, clamd's protocol, records |
| `Supervisor` | The two runner goroutines and `Stop` over the unlocked command fields |
| `Lifecycle` | `main` over `Supervisor` (EXTENDS) and the work in hand: streams, jobs, HTTP scans |
| `Clock`, `Limiter`, `Notifier` | The rate limiter's window and the notifier's window over one clock |
| `Gates` | Composes `Limiter` and `Notifier`: what stands before and behind a handler |
| `RuleText` | `countBraces`, against texts put together from lexemes |
| `MasterKey` | `EnsureMasterKey` over the lines of `.env`, start after start |
| `MCAsyncQueue`, `MCVault`, `MCYaraManager`, `MCGates` | Values and symmetry for TLC; `MCGates` also puts `RuleText` and `MasterKey` beside `Gates` |
| `AsyncQueueProofs`, `VaultProofs`, `YaraManagerProofs`, `ScanPathProofs`, `LifecycleProofs`, `GatesProofs`, `TextProofs` | Inductive invariants and theorems |
| `AsyncQueueRecordProofs` | On top of `AsyncQueueProofs`: rows, callbacks, spool files, and the refinement of `ScanJobContract` |

### AsyncQueue

A request goes `NameJob`, `CreateSpool`, `CopyBody`, `InsertScanJob`, `Enqueue`, the
statements of `SubmitJob` in their order; `rpc` is its place, `rid` and `fd` its locals.
A worker goes `Receive`, `MarkProcessing`, `OpenSpool`, `ScanStream`, `QuarantineFile`,
`DropSpool`, `RecordVerdict`, `InsertScanAuditLog`, `DispatchThreat`, `PostWebhook` (once
per attempt), `Cleanup`, with the two error branches. `main` is `phase`: `BeginStop`
closes the channel, `StopReturns` is the end of `wg.Wait`, `Exit` the end of `main`,
`Crash` a kill at any point, `Start` the next boot, which looks at nothing left behind.

A spool file is an inode in `data` reached by a name in `dir`, because
`O_CREATE|O_TRUNC` on an existing name empties the inode another handler may hold, and
an unlinked file stays readable to who has it open. Bodies are the requests they came
with; an inode holding two bodies may be judged either way. `lost` collects the jobs
the code lets go of (full channel, closed channel, end of process), so that
`NoSilentLoss` can say that there is no other way to lose one. Two more variables are
history that no action reads: `missed`, the statements of workers that failed (job, and
the status or the audit row that was not written), and `repeated`, the clock readings
that two requests got. With them the properties are stated for all behaviours and not
only for those in which every statement succeeds and the clock advances:
`DecisionMissed(j)` excuses exactly the job whose deciding UPDATE failed, `OwnReading(j)`
exactly the jobs named after a reading that was repeated. Towards `ScanJobContract`,
`BegunState` makes a job begun when a worker has tried to write so, and a job whose
decision could not be written stays undecided.

Taken as one step each: `io.Copy` with its `Close`, and vault quarantine as a worker
sees it (the module `Vault` has its statements). `Infected` are here the requests for which
`Client.ScanStream` returns INFECTED: a body whose signature name contains "OK" gets the
verdict CLEAN from `parseScanResponse` and is none of them. How clamd's words become a
verdict is the subject of `ScanPath`.

### Vault

An entry is named after the scan that makes it, since its ID has 64 random bits.
`file[q]` is `NoFile`, `Torn` (what a failed or interrupted write leaves) or the key the
bytes are sealed with; decryption yields the original under that key, fails under
another, and passes a torn file without its header through the legacy branch as garbage.
A scan is `CheckWhitelist` or `TakeJob` (the async path, which does not look at the
whitelist), `ScanBody`, `SealPayload`, `InsertQuarantineRecord`, `Report`. `ScanBody` lets
clamd find the signature under any name, and `misheard` collects the scans whose name
contains "OK": `Detected` is what `parseScanResponse` leaves of a finding. An
administrator's request is one of four operations, statement by statement: "restore" is
the HTTP handler, which goes straight to `RestoreQuarantineRecord`; "release" is
`Vault.RestoreFile`, which no handler calls today but which the package exports and
tests; "download" and "delete". `PurgeExpired` takes one file. `ProcessEnds`,
`Recreate` and `Boot` are the process, the container without its `.env`, and
`EnsureMasterKey`.

### YaraManager

`mu` is the mutex; a request blocks only at its first step. `BeginAdd` is lock,
validation and `Stat`; then `WriteFile`, `InsertYARARule`, `ReloadForAdd`, and on
failures `RemoveOwnFile` and `RemoveOwnRow`. A deletion is `BeginDelete`, `UnlinkRule`,
`DeleteYARARule`, `ReloadForDelete`. `AskReload` has the outcomes of `clamd.Reload`:
success; success because clamd died with the connection open (an empty answer holds no
`ERROR`); failure with the RELOAD taken; failure with nothing delivered. clamd loads the
directory later (`ClamdLoads`), on its own accord when freshclam notifies it or when it
is started again. `cut` collects the rules that a kill or an ignored error left half
done. Requests carry rules that pass `ValidateRule`; a refused one changes nothing.

### ScanPath

The handler of one request; handlers share nothing that this path changes, so one is
enough. `pc` is its place. A URL goes `ResolveTarget` (`ValidateURL` and the first
lookup), `Dial` (the transport's own lookup in `DialContext`), `Respond`, `CheckRedirect`
as often as the server redirects, then `ReadBody`; every lookup may give another answer. A
multipart form is one step, `ParseMultipart`, which answers every form it cannot read
FILE_TOO_LARGE, whatever its size; a gRPC stream is `ReceiveChunk` per message. `broken`
remembers that a body broke off or a form was unreadable. All three meet in `CheckHash`
(checksum, whitelist), and go on to `Connect`, `SendChunk` per turn of
`Client.ScanStream`'s loop, `ReadAnswer`, `QuarantineFile`, `InsertScanAuditLog`,
`DispatchThreat`. clamd answers or dies on its own (`ClamdAnswers`, `ClamdDies`).

A body is a number of bytes, with what clamd would find in the last: so every cut of an
infected body is clean, which is what a reader that drops a byte would show. `BodyRead`
says what one `Read` of an HTTP body may return, by the three ways its end is marked,
since that is what `boundedReadCloser` depends on. An answer of clamd is a set of words,
in which a rule name may itself contain "OK", since `parseScanResponse` searches for
substrings.

### Supervisor and Lifecycle

`runClamd` and `runFreshclam` are one `Runner(r)` each: `CheckStop`, `AssignCmd`,
`StartFails` or `StartChild`, `Reap`, `Wake`. `field[r]` is what the goroutines share
without a lock: nil, a command whose `Process` is nil, a started one. `Stop` reads it once
in the condition (`LookAt`) and again in the call (`SignalChild`), so that a command
assigned between the two is a nil dereference (`panicked`). The race is modelled as the
interleavings of single reads and writes; torn values do not occur for a pointer.

`Lifecycle` is `main`: `Start`, `BeginStop` on SIGTERM, `StopChild`, `SupervisorStopped`,
`GracefulStopReturns`, `QueueStopReturns`, `HttpShutdownReturns`. A piece of work is
"open", "scanning" while clamd has it, "lost" when clamd went under it, and "done" when it
was answered, with a verdict or with an error. Work keeps coming until its own listener is
closed, which is after clamd was told to end. What a submission meets that comes while
the queue's channel is being closed is the subject of `AsyncQueue`, and not repeated here.

### Gates: Limiter and Notifier

`Request(k)` is the middleware's `Allow` (`Grant` or `Deny`), under the limiter's mutex and
therefore one step. `Threat(a)` is `DispatchThreat` up to the decision to send. `granted`,
`denied`, `at` and `sent` are history: what was decided when. `granted[k]` is the sequence
of the times of the grants, several of which may be equal, so that the grants of a minute
are a set of indices. Time is a number of ticks; `Minute` ticks are a minute.

### RuleText and MasterKey

`RuleText` writes a text lexeme by lexeme (strings, comments, braces, other text), keeping
the sum of the braces these contribute, and compares `countBraces` over the characters
with it. `Scan` is the loop, as a function of the number of its turns; `Turn` is one of
them, and `i++` the flag `skip`. What may stand in strings and comments are constants,
with the assumption that it does not end them (`RuleConstants`). `MasterKey` starts the
process several times over any small `.env` file: `ExistingKey`, `FreshKey`, or `WriteCut`
where the write fails or is killed. Reader and writer of the file are two operators, as
they are two functions; both look for the `FirstLine` of a form, but not of the same
forms. Values are numbers, the key of the n-th start one that no other start and no file
found at first has.

## 3. Runs

| Run | Question | Properties |
|---|---|---|
| `async_crash` | Do jobs and `Stop` finish, also after a kill and a restart, and does `SubmitJob` never wait? | `TypeOK`, `SubmitNeverWaits`, `AcceptedIsDecidedOrLost`, `StopCompletes` |
| `async_faults` | Do queue, database, spool directory and consumers agree under kills, restarts, failing statements and equal clock readings? | `OneHandler`, `CompletedLeavesNoSpool`, `VerdictOfOwnBytes`, `ToldIsRecorded`, `NoSilentLoss`, `StopWaits`, `DecidedIsFinal`, `KeepsContract` (refinement) |
| `async_full` | Is every accepted job decided? **No**: a full channel | `AcceptedIsDecided` |
| `async_silent_error` | Does every final verdict reach the callback? **No**: a scan error | `FinalVerdictIsPosted` |
| `vault_safety` | Two scans of one content against two administrators, purge, restart, new key | `TypeOK`, `ReleasedIsOriginal`, `CleanOnlyOnRequest`, `DestroyedStaysDestroyed` |
| `vault_faults` | One entry with failing writes and statements | `RowHasBytes`, `IdNamesRow`, `RestoredIsRecorded`, `AgedIsRemoved` |
| `vault_whitelist` | Is whitelisted content answered without a scan? **No**: async jobs | `NoRequarantine` |
| `yara` | Two additions and two deletions of one name under every failure; do requests end if clamd ends every RELOAD? | `TypeOK`, `CreatedStays`, `FailedAddLeavesNothing`, `FilesAreListed`, `RequestsEnd`, `CreatedIsLoaded`, `DeletedIsUnloaded` |
| `scan_path` | Is an answer about the whole body, and clamd's; is the limit applied on each way in; does the fetcher keep to allowed addresses? | `VerdictOnWholeBody`, `VerdictIsClamds`, `LimitIsApplied`, `DialsOnlyAllowed`, `ScanEnds` |
| `lifecycle` | Do children come back, does `Stop` leave none, and does shutdown complete without cutting work? | `StopIsFinal`, `ExitLeavesNothingOpen`, `ChildrenComeBack`, `ShutdownCompletes` |
| `gates` | Three independent parts: limiter and notifier on one clock; brace counting; the master key over restarts | `RateIsBounded`, `FloodIsCut`, `BracesAreCounted`, `KeyIsStable` |
| `yara_rollback` | Is a failed addition rolled back in clamd too? **No**: lost RELOAD answer | `FailedAddIsUnloaded` |

The four answered "no" each show the code against a sentence of the documentation; the
sentence, with its place, is in `PROJECT.json` under `findings`.

Several properties state exceptions, and these are as much a result as the rest:

- `VerdictIsClamds`, `CleanOnlyOnRequest`: a body whose signature name contains "OK" is
  reported clean and not quarantined, because the answer is searched for OK before FOUND
  (client.go:186).
- `VerdictOnWholeBody`: a response that ends with its connection and has no checksum may
  be cut unnoticed.
- `LimitIsApplied`: a URL body of exactly the limit is refused unless its end came with its
  last bytes. The code could tell: the probe after the last byte (client.go:350-361) has seen
  the end, but the next `Read` refuses because the quota is used up (client.go:331). Also
  FILE_TOO_LARGE is answered to every multipart form that cannot be read (server.go:225-228),
  and a verdict on the part before a cut that nobody can see (`VerdictOnWholeBody`) may be
  about a body that would have been above the limit.
- `RestoredIsRecorded`: the bytes of an entry answered RESTORED may be gone, by a purge or a
  delete; the restore endpoint does not open the file.
- `FilesAreListed`, `CreatedStays`, `DeletedIsUnloaded`: a rule in `cut`, whose addition was
  killed between file and row or whose `os.Remove` failed, is exempt, and is not repaired.
- `StopIsFinal`: a runner past its check when `stopChan` closes starts one child that
  `Stop` misses, against the comment "Stop terminates clamd and freshclam child
  processes" (process.go:135); and `ShutdownCompletes` allows the panic of `SignalChild`.
- `ToldIsRecorded`, `NoSilentLoss`, `StopWaits`: `processJob` drops the error of its
  UPDATEs and of the audit INSERT (queue.go:229, 254, 306), so that a consumer can be told
  what no row holds, and a row can stay PROCESSING for ever. It is never told anything
  other than what a row holds.
- `VerdictOfOwnBytes`, `CompletedLeavesNoSpool`: two requests of one clock reading share a
  spool file (queue.go:157).
- `RateIsBounded`: twice the limit within a minute, around the edge of a window.
- `KeyIsStable`: a first key line `ENCRYPTION_KEY =` with blanks and no usable value gives
  another key at every start (keygen.go:131).

### Bounds, and why they are enough

- Async runs: two requests, one infected, two workers, capacity 1. Two of each is the
  least for every race (two submissions with one ID, two workers on one job, one job in
  the buffer while another is sent). With capacity 1 two submissions fill the channel.
  `MaxClock = 2` gives each request a name. `async_faults` has everything that can go
  wrong: `ClockSteps` is {0, 1}, so two requests may share a reading, statements fail, and
  the process is killed; 1.5 million states. `async_crash` is about what must happen,
  where a failing statement or a shared name only takes away what has to be decided:
  statements succeed and the clock advances. `MaxBoots = 2` is one restart with work left
  behind. The attempts of a webhook are the code's three.
- Vault runs: all scans submit one infected content, under a signature name that contains
  "OK" or not, which is the case in which scans, whitelist and purge meet; several
  contents only add independent copies. The calendar jumps by eight days, past the purge
  age, once. `MaxBoots = 2` is one change of the key. `vault_safety` has two entries and
  no failing statements, `vault_faults` one entry and all of them: together they would not
  finish in minutes, and the theorems have neither bound.
- YARA runs: one name for all rules, since rules of different names meet only in the
  mutex. Two additions and two deletions give loser and winner of each race. One kill, one
  restart; RELOADs, freshclam and clamd's ends are unlimited.

- `scan_path`: the limit is 3, so that 4 is the least body above it and 2 the greatest
  that fits into a form with its overhead of 1; a chunk of 2 makes bodies of one and of
  two chunks, whole and partial. Two allowed addresses and one blocked one; redirects as
  configured in the code, 3.
- `lifecycle`: one stream, one job, one scan, since pieces of work do not affect each
  other; the two children of the code. Restarts of children are unlimited; `late` counts
  to two because one is allowed.
- `gates`: a minute of 3 ticks and a clock to 6, two windows and an edge between them that
  is not at the ends; limit 2; one address, since each has its own bucket; four alerts
  against a maximum of 2. Texts of up to three lexemes: one whose context could leak, one
  it would leak into, one after it; in strings and comments the pieces that could end or
  open one (`SomeInsides`, `SomeLineRemarks`, `SomeBlockRemarks` in `MCGates`). Files of
  four lines over seven kinds of line, three starts. The three parts share no variable;
  `part` chooses one per behaviour, so the states add up and do not multiply.

Symmetry is used over workers, administrators and alerts, and only in runs without
liveness (`async_crash` has liveness and therefore none).
Deadlock is checked in every run: a system at rest takes an explicit stuttering step
(`Off`, `Rest`, `Answered`, `Gone`), so a deadlock would be a state in which something is
stuck. A request's arrival is never forced, a queue that is up may stay up without any.

### Fairness, and why the code justifies it

- `AsyncQueue.FairSpec`: a handler inside `SubmitJob` is scheduled, a worker outside
  clamd is scheduled, and `main` waits in `Stop`. Each POST has a timeout of 10 s. The
  wait for clamd is *not* fair: the socket has no deadline. That clamd answers is the
  explicit hypothesis `ClamdResponds` of the liveness properties that need it.
- `Vault.FairSpec`: the cleaner's ticker passes over each file while the process runs.
- `YaraManager.FairSpec`: a request that holds the mutex runs but for the wait for clamd,
  clamd carries out a load it owes, and the container is started again. `Reload` has no
  deadline either: that clamd ends every RELOAD is the hypothesis `ReloadEnds` of
  `RequestsEnd`, which is false without it, since a silent clamd holds the mutex for ever.

- `ScanPath.FairSpec`: a handler runs, with the 30 s of the fetcher and the server's 60 s
  for an upload. Nothing bounds a gRPC client (`ReceiveChunk` is not fair) nor clamd
  (`ClamdResponds` is a hypothesis of `ScanEnds`).
- `Lifecycle.FairSpec`: `main`, the runners, workers and HTTP handlers are scheduled.
  Hypotheses on others: `ClientsFinish` (`GracefulStop` has no limit), `ClamdResponds`,
  and, for the return of a child, `ProgramsStart`: a start that can succeed does in the
  end (strong, since each failure takes it back to the pause).

## 4. Theorems

All are about the specification of their module, for arbitrary finite or infinite sets of
requests, workers, scans, contents, administrators and names, with failing statements and
kills allowed, from the named assumption on the constants alone (`ConstantsAssumption`,
`WorkersExist`, `VaultConstants`, `YaraConstants`, `ScanConstants`, `WorkIsDistinct`,
`ClockConstants`, `NotifierConstants`, `LimiterConstants`, `KeyConstants`,
`RuleConstants`). Every safety property and action property of the passing runs has its
theorem, but for the one at the end of this section.

**AsyncQueueProofs.** `TypeCorrect` and `OneHandlerAlways`, and the invariant
`DecisionInv`. The types are not inductive without `PcOK`: a worker that has a verdict
to record has one, and its attempt counter is below three until it cleans up.
`OneHandler` needs `FreshRows`: a job without a row is neither in the channel nor with a
worker nor about to be sent, which is where the primary key of `scan_jobs` stops the
second request of an equal clock reading. `DecidedIsFinal`, an action property, needs
`Pending` for the rows: what waits is not decided and not posted, and a worker's counter
is the number of POSTs of its job. Steps that only take jobs away (`Shrinks`) or write
nothing (`Quiet`) are dealt with by one lemma each.

**AsyncQueueRecordProofs.** Three inductive invariants, all on top of the one for
`OneHandler`, since each step of a worker must be known to be about a job that nobody
else has.

`DecidedIsFinalAlways` adds `Spoken` to `DecisionInv`: what was posted of a job is what
its worker is posting, and of a job in hand nothing was. So a consumer never gets two
different messages of one job, neither from another worker nor after a restart.

`ToldIsRecordedAlways`, `NoSilentLossAlways`, `StopWaitsAlways`, `StopDrainsAlways` and
the refinement `QueueKeepsContract` follow from `RecordInv`. `Noted(w)` says what is
written about a worker's job at each of its places but for the statements that failed,
which is what makes a message true when it is posted; `Told` that it stays true; the last
part of `Recorded`, that a waiting row has somebody (`Kept`) unless it is in `lost` or its
decision was missed; and `Drained`, that a worker leaves only a closed, empty channel.
`NotedStays` and `ToldStays` are why they survive the steps of others: `missed` only
grows, and nobody else writes about the job. `Unbegun`, that no attempt to mark a queued
job PROCESSING has failed, is what the refinement needs of a row that still says QUEUED.
`StopDrains` and `StopWaits` need a worker to exist: `WorkersExist` is an assumption
because `NewQueue` replaces a count that is not positive by 2. The refinement maps the
rows, the verdicts and the messages to those of `ScanJobContract`; `ContractStep` shows
each action to be a step of the contract or a stutter.

`CompletedLeavesNoSpoolAlways` and `VerdictOfOwnBytesAlways` follow from `SpoolInv`:
`Names` (a job's name is a reading of the clock, and no other request has it unless it is
in `repeated`), `Files` (the inode under a name was made by a request of that name, and
holds only that request's body if it is the only one), `Rows` (the owner of a row has
finished its file), `Scanned` (what a worker holds open is what the owner wrote, and its
verdict fits it) and `Echoes` (so do audit row, alert and message, also those whose
UPDATE failed). The excuse for repeated readings is needed: names come from
`time.Now().UnixNano()`, and two requests of one reading share a spool file and truncate
each other's. That the harm stays with them is what the guard `OwnReading` in every part
of the invariant says, and why `Files` speaks of names and not of requests.

All of these hold for every choice of `DbFaults`, `Crashes` and `ClockSteps`; none has a
hypothesis beyond the assumptions on the constants.

**VaultProofs.** `VaultTypes`, `RowHasBytesAlways`, `IdNamesRowAlways`,
`DestroyedStaysDestroyedAlways`, `RestoredIsRecordedAlways`, `ReleasedIsOriginalAlways`,
`CleanOnlyOnRequestAlways`. They are one inductive invariant, `VaultInv`: `Stages` says
what a scan has and has not written at each place (before the seal nobody can have
touched its entry), `Requests` says that the entry a request works on was in the table
when it came and was deleted if it is not there now. Without the latter a restore that
read the row before a delete could not be shown harmless.

**YaraManagerProofs.** `YaraTypes`, `CreatedStaysAlways`,
`FailedAddLeavesNothingAlways`, `FilesAreListedAlways`, from `YaraInv`: `Mutex` ties the
holder to the one request in progress, `Adding` and `Deleting` say how far it has come
in directory and table, `OneRow` is the UNIQUE index, and `Listed` extends
`FilesAreListed` to the inside of a request.

**ScanPathProofs.** `VerdictOnWholeBodyAlways`, `VerdictIsClamdsAlways`,
`LimitIsAppliedAlways`, `DialsOnlyAllowedAlways`, for every limit, chunk size and body,
from `ScanInv`: `Held` says how many bytes the handler holds at each place and what made
it go on, `Heard` what clamd's words can be given the bytes it was sent, `Recorded` that
rows and alerts are about the verdict at hand. `Heard` is where the prefixes matter: the
word FOUND implies the whole body was sent. The one leaf with many cases, reading the
answer, is the lemma `ReadOutcome`.

**LifecycleProofs.** `StopIsFinalAlways`, `ExitLeavesNothingOpenAlways`, for any numbers
of streams, jobs and scans, from `LifeInv`: `Waited` (a child that runs is waited for
and is the one its field names), `Raced` (a runner past its check after the close was in
`racing`, and spends that with its one late start), `Signalled` (what still runs where
`Stop` has been has its signal) and `Phases` (which work is finished once `main` has
passed its wait, and where `Stop` is then).

**GatesProofs.** `FloodIsCutAlways`, for every maximum, minute and set of alerts, and
`RateIsBoundedAlways`, for every limit, minute and set of addresses, both over the whole
of `Gates`. For the notifier, `Kept` is the step that is not obvious: a time that is
dropped is too old for every minute to come, so that the count over the times kept is
the count over all. For the limiter, `Bucket(k)` reads the past off the bucket: the
tokens that are gone are the last grants, made in the open window, and what lies more
than a full bucket before those is at least a minute older than the window. So the
grants of any minute that holds the newest one are among the last `2 * Limit` of the
sequence. That is an interval of indices, whose cardinality the library gives: no
induction is needed.

**TextProofs.** `KeyIsStableAlways`, for a file of any number of lines and any
number of starts. `KeyInv` says that a file which can be read stays so, and that once a
start has served, the first key line of the file holds the key of all of them. What
makes it inductive is `KeyIsWritten`: where the reader finds no key, the line the writer
puts in is the first key line, because everything before it is neither spaced nor tight.
That fails for the files of the exception, `Misread`. `FirstLineFinds` is the lemma on
the search; it rests on `LeastNatural`, shown from the well-foundedness of strict
inclusion among finite sets since the induction theorems cannot be instantiated.

`BracesAreCountedAlways`, for texts of any number of lexemes and anything in strings and
comments that does not end them. No induction over the characters is needed, because the
text grows by lexemes and the invariant carries the loop along: `Counts(s, b)` says that
some function satisfies the equations of the loop over `s` (`IsScan`) and ends in code
with the counts `b`, and that its last turn does not depend on the character after it
(`Settled`), which is what makes lookahead harmless where two lexemes meet. `ReadOn`
glues the function of a text and that of the next lexeme; `LexemeRead` gives the latter,
with one lemma per kind of lexeme. That the function is the loop's is `ScanIsOne`: two
solutions of the equations would have a least turn at which they differ.

Only model-checked: liveness under fairness, and `SubmitNeverWaits`, which is about
`ENABLED`. Both are out of the prover's reach.

## 5. Not modelled, and why

- Loss of the disk's cache: a kill loses the process, not what it has written. SQLite
  runs with `synchronous=NORMAL`, so a power cut may take back committed statements; the
  code has no answer to it and neither has the model.
- Content: hashes, ciphers, signatures, addresses, messages. A content is a value, a
  hash the content itself, authenticated encryption all or nothing.
- Code without a caller in the service: `AllowGlobal`, `InspectZip`, the SMTP settings.
- The web dashboard and the check and change of its password, the audit log's export and
  purge, the comparison of credentials, `Ping` and `Version`, the protobuf stubs, the
  reading of the configuration.
- The delivery of an alert to its channels: the error is logged, nothing depends on it.
- Trusted proxies: a key of the limiter is what the client says in `X-Forwarded-For`.
- Queries that only read: listings, statistics, exports, health, metrics.
- A rule that passes `ValidateRule` and that clamd then rejects: clamd answers RELOADING
  before it reads the directory, so no outcome of `AddRule` depends on it. Whether clamd
  descends into `/var/lib/clamav/rules` at all is a matter of clamd and not of this code.
- `ConcurrentDatabaseReload no`: scans wait during a load; no verdict depends on it here.

Read in the code while modelling, next to what the runs show, and left to the plan:

- `PurgeExpired` removes files after seven days whatever `QUARANTINE_RETENTION_DAYS`
  says (API-SPEC-03:158; stated as `RetentionHonoured` in `Vault`), and marks no row
  `DELETED` (L-002 section 4).
- The restore endpoint never opens the file: it answers RESTORED for an entry whose file
  is purged, and a second time for one that is restored already. API-SPEC-04 has it open the
  file ("Buka file teracak di /data/quarantine/", :44) and promises for a purged one: "Jika
  file fisik karantina sudah terhapus oleh retention cleaner, mengembalikan error
  `NOT_FOUND`" (:178).
- `RestoreQuarantineRecord` updates the row and whitelists the hash in two statements without
  a transaction, where API-SPEC-04:190 speaks of one: the row may be RESTORED although the
  request was answered with an error.
- `processJob` drops the error of `QuarantineFile` (queue.go:297) and removes the spool file:
  the callback then says QUARANTINED with an empty ID, and the only copy is gone.
- `Stop`'s comment has it wait for pending jobs (queue.go:126); a handler that is still
  in `SubmitJob` when the channel is closed panics and leaves its row QUEUED
  (`StopFinishesPending` in `AsyncQueue`).
- After a kill nothing repairs: rows stay QUEUED or PROCESSING, spool files stay, and a
  rule file without a row can be neither added again nor deleted through the API.

- `CheckRedirect` compares the number of requests made so far, so two redirects are
  followed and the third is refused, where `MaxRedirects` is 3
  (plan/component/SCD-Remote-Scanner.md:61: at most 3).
- The order of shutdown is scanner, gRPC, queue, HTTP (main.go:201-208), where L-006
  section 4 stops the sources of work first: jobs drained after `sup.Stop` meet no clamd.
- The limiter stands before every path, health included, where API-SPEC-09:97 exempts
  health; the gRPC server is given a limiter and never asks it.
- L-004 describes a digest and buffered alerts in a flood; the notifier only drops.

## 6. Plan

Done: the queue, the vault and the rule manager, where several actors meet in durable
state; the synchronous scan from its body to its answer; the supervisor and shutdown; the
limiter, the notifier, brace counting and the master key.

All safety properties of the runs are proved, but for the one of section 4.

1. Proofs: for `YaraManager` mutual exclusion as a theorem of its own.
2. Composition: `AsyncQueue` with the real steps of `Vault` for its quarantine step, so
   that "QUARANTINED" in a callback can be compared with the vault.
3. `AuditLog`: inserts with clock-made IDs, `PurgeAuditLogs`, the export while both run.
