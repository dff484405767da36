------------------------------- MODULE Vault -------------------------------
(***************************************************************************)
(* The quarantine vault (internal/quarantine/vault.go), the table           *)
(* quarantine_records and the whitelist (internal/storage/sqlite.go), with  *)
(* everybody who uses them at the same time: scans that quarantine what is  *)
(* infected, administrators who restore, download and delete, and the       *)
(* cleaner that purges old files.                                           *)
(*                                                                         *)
(* An entry of the vault is named after the scan that creates it: its ID    *)
(* carries 64 random bits.                                                  *)
(***************************************************************************)
EXTENDS Naturals, FiniteSets

CONSTANTS
    Scans,          \* scans of one body each, and the vault entries they create
    AsyncScans,     \* those that run in asyncscan.processJob
    Bodies,         \* contents; a SHA-256 hash stands for its content
    BodyOf,         \* the content each scan submits
    Infected,       \* the contents clamd has a signature for
    Admins,         \* requests to the quarantine API, one operation each
    QuarRetention,  \* QUARANTINE_RETENTION_DAYS, in days
    DaySteps,       \* by how many days the clock may advance at once
    MaxDay,         \* bound: the last day
    MaxBoots,       \* bound: how often the service is started
    DbFaults,       \* whether a statement on the database can fail
    Redeploys,      \* whether the container can be re-created, without its .env
    NoFile, Torn, NoKey, NoEntry

ASSUME VaultConstants ==
    /\ AsyncScans \subseteq Scans
    /\ BodyOf \in [Scans -> Bodies] /\ Infected \subseteq Bodies
    /\ QuarRetention \in Nat \ {0}      \* QuarantineFile replaces <= 0 by 7
    /\ DaySteps \subseteq Nat \ {0} /\ MaxDay \in Nat /\ MaxBoots \in Nat \ {0}
    /\ DbFaults \in BOOLEAN /\ Redeploys \in BOOLEAN
    /\ NoFile \notin Nat /\ Torn \notin Nat /\ NoKey \notin Nat /\ NoFile # Torn
    /\ NoEntry \notin Scans

VARIABLES
    \* /data and the container's file system
    row,        \* quarantine_records.status of each entry, "none" without a row
    file,       \* <entry>.quarantine: NoFile, Torn, or the key its bytes are sealed with
    born,       \* the day of created_at and of the file's mtime
    white,      \* whitelist_signatures
    audit,      \* verdict of the scan's row in scan_audit_logs, or "none"
    env,        \* ENCRYPTION_KEY in the .env file, or NoKey
    \* the process
    up,         \* whether it runs
    key,        \* Vault.masterKey
    spc,        \* where each scan is
    quarID,     \* whether QuarantineFile returned it a record
    misheard,   \* scans for which clamd found a signature with "OK" in its name
    answer,     \* the verdict each scan answered
    apc,        \* where each administrator's request is
    op,         \* its operation
    target,     \* the entry it names
    auto,       \* its auto_whitelist flag
    plain,      \* the bytes RestoreFile has decrypted for it
    reply,      \* what it was answered
    \* the environment and what an observer has seen
    day, boots,
    unlinked,   \* entries whose file DeleteFile removed
    purged,     \* entries whose file PurgeExpired removed
    destroyed,  \* entries answered DELETED
    released,   \* <<entry, bytes>> handed out
    asked       \* contents an administrator asked to whitelist

disk      == <<row, file, born, white, audit>>
scanVars  == <<spc, misheard, quarID, answer>>
adminVars == <<apc, op, target, auto, plain, reply>>
seen      == <<unlinked, purged, destroyed, released, asked>>
process   == <<env, up, key, boots>>
vars == <<disk, scanVars, adminVars, process, day, seen>>

Keys == 1..MaxBoots
Ops  == {"restore", "release", "download", "delete"}
DbOutcomes == IF DbFaults THEN BOOLEAN ELSE {TRUE}

Init ==
    /\ row = [q \in Scans |-> "none"]
    /\ file = [q \in Scans |-> NoFile]
    /\ born = [q \in Scans |-> 0]
    /\ white = {}
    /\ audit = [s \in Scans |-> "none"]
    /\ env = 1 /\ key = 1 /\ up = TRUE /\ boots = 1 /\ day = 0
    /\ spc = [s \in Scans |-> "idle"]
    /\ quarID = [s \in Scans |-> FALSE] /\ misheard = {}
    /\ answer = [s \in Scans |-> "none"]
    /\ apc = [a \in Admins |-> "idle"]
    /\ op = [a \in Admins |-> "none"]
    /\ target = [a \in Admins |-> NoEntry]
    /\ auto = [a \in Admins |-> FALSE]
    /\ plain = [a \in Admins |-> "none"]
    /\ reply = [a \in Admins |-> "none"]
    /\ unlinked = {} /\ purged = {} /\ destroyed = {} /\ released = {} /\ asked = {}

-----------------------------------------------------------------------------
(* A scan: handleScanFile, handleScanURL, gRPC ScanStream; processJob *)

ScanGoto(s, pc) == spc' = [spc EXCEPT ![s] = pc]
Respond(s, v) == ScanGoto(s, "done") /\ answer' = [answer EXCEPT ![s] = v]
scanFrame == <<adminVars, process, day, seen, white>>

\* IsWhitelisted answers at once for a known hash; a failed query counts as
\* "not whitelisted".
CheckWhitelist(s) ==
    /\ up /\ spc[s] = "idle" /\ s \notin AsyncScans
    /\ \/ BodyOf[s] \in white /\ Respond(s, "WHITELISTED")
       \/ /\ BodyOf[s] \notin white \/ DbFaults
          /\ ScanGoto(s, "scan") /\ UNCHANGED answer
    /\ UNCHANGED <<scanFrame, row, file, born, audit, misheard, quarID>>

\* A worker takes a job; processJob does not ask for the whitelist.
TakeJob(s) ==
    /\ up /\ spc[s] = "idle" /\ s \in AsyncScans
    /\ ScanGoto(s, "scan")
    /\ UNCHANGED <<scanFrame, row, file, born, audit, misheard, quarID, answer>>

\* What parseScanResponse makes of a signature: it looks for OK before FOUND, so
\* a name that contains OK passes for a clean body. The name is clamd's, and may
\* change with its signatures.
Detected(s) == BodyOf[s] \in Infected /\ s \notin misheard

\* clamd is unreachable, finds nothing, or finds a signature of some name.
ScanBody(s) ==
    /\ up /\ spc[s] = "scan"
    /\ \/ Respond(s, "ERROR") /\ UNCHANGED misheard
       \/ /\ \/ UNCHANGED misheard
             \/ BodyOf[s] \in Infected /\ misheard' = misheard \cup {s}
          /\ ScanGoto(s, IF Detected(s)' THEN "seal" ELSE "report")
          /\ UNCHANGED answer
    /\ UNCHANGED <<scanFrame, row, file, born, audit, quarID>>

\* What QuarantineFile does when the bytes are not completely on disk.
InsertAnyway == "insert"
SealFailed == "report"

\* QuarantineFile up to os.WriteFile: the payload may be too large or not be
\* readable, the write may fail and leave a part of the file behind.
SealPayload(s) ==
    /\ up /\ spc[s] = "seal"
    /\ born' = [born EXCEPT ![s] = day]
    /\ \/ file' = [file EXCEPT ![s] = key] /\ ScanGoto(s, "insert")
       \/ \E left \in {NoFile, Torn} :
            file' = [file EXCEPT ![s] = left] /\ ScanGoto(s, SealFailed)
    /\ UNCHANGED <<scanFrame, row, audit, misheard, quarID, answer>>

\* The record QuarantineFile returns when the insert went ok.
RecordRegardless(ok) == TRUE
RecordIfInserted(ok) == ok

\* The row follows the file; a failed insert leaves the file alone.
InsertQuarantineRecord(s) ==
    /\ up /\ spc[s] = "insert"
    /\ \E ok \in DbOutcomes :
        /\ row' = [row EXCEPT ![s] = IF ok THEN "QUARANTINED" ELSE @]
        /\ quarID' = [quarID EXCEPT ![s] = RecordIfInserted(ok)]
    /\ ScanGoto(s, "report")
    /\ UNCHANGED <<scanFrame, file, born, audit, misheard, answer>>

\* The audit row, whose error is ignored, and the answer. Whether the file was
\* quarantined makes no difference to either but for the ID.
Report(s) ==
    LET v == IF Detected(s) THEN "INFECTED" ELSE "CLEAN" IN
    /\ up /\ spc[s] = "report"
    /\ \E ok \in DbOutcomes : audit' = [audit EXCEPT ![s] = IF ok THEN v ELSE @]
    /\ Respond(s, v)
    /\ UNCHANGED <<scanFrame, row, file, born, misheard, quarID>>

ScanStep(s) ==
    \/ CheckWhitelist(s) \/ TakeJob(s) \/ ScanBody(s) \/ SealPayload(s)
    \/ InsertQuarantineRecord(s) \/ Report(s)

-----------------------------------------------------------------------------
(* An administrator's request *)

AdminGoto(a, pc) == apc' = [apc EXCEPT ![a] = pc] /\ UNCHANGED reply
Reply(a, what) == apc' = [apc EXCEPT ![a] = "done"] /\ reply' = [reply EXCEPT ![a] = what]
adminFrame == <<born, audit, scanVars, process, day, op, target, auto>>
Hand(q, bytes) == released' = released \cup {<<q, bytes>>}

\* The first statement of every operation: GetQuarantineRecord. Only
\* Vault.RestoreFile ("release") looks at the status; the handler behind the
\* restore endpoint ("restore") does not call it.
Request(a) ==
    /\ up /\ apc[a] = "idle"
    /\ \E o \in Ops, q \in Scans, w \in BOOLEAN :
        /\ w => o \in {"restore", "release"}
        /\ op' = [op EXCEPT ![a] = o]
        /\ target' = [target EXCEPT ![a] = q]
        /\ auto' = [auto EXCEPT ![a] = w]
        /\ asked' = IF w THEN asked \cup {BodyOf[q]} ELSE asked
        /\ \/ /\ row[q] = "none" \/ DbFaults \/ (o = "release" /\ row[q] # "QUARANTINED")
              /\ Reply(a, "error")
           \/ /\ row[q] # "none"
              /\ o = "release" => row[q] = "QUARANTINED"
              /\ AdminGoto(a, CASE o = "restore" -> "reget"
                                [] o = "delete"  -> "unlink"
                                [] OTHER         -> "read")
    /\ UNCHANGED <<disk, scanVars, process, day, plain, unlinked, purged, destroyed, released>>

\* decryptPayload under the key the process has now: GCM authenticates, but
\* what is left of a torn file may lack the header, and then passes for a file
\* of the time before encryption.
XorFallback(f) == {IF f = key THEN "original" ELSE "garbage"}
Decrypt(f) ==
    IF f = key THEN {"original"} ELSE IF f = Torn THEN {"garbage", "failed"} ELSE {"failed"}

\* ReadFile and decryptPayload, for DownloadFile and RestoreFile. A download is
\* answered with the bytes; RestoreFile keeps them and goes on.
ReadPayload(a) ==
    LET q == target[a] IN
    /\ up /\ apc[a] = "read"
    /\ \E bytes \in IF file[q] = NoFile THEN {"failed"} ELSE Decrypt(file[q]) :
        \/ /\ bytes = "failed"
           /\ Reply(a, "error") /\ UNCHANGED <<plain, released>>
        \/ /\ bytes # "failed" /\ op[a] = "download"
           /\ Reply(a, "bytes") /\ Hand(q, bytes) /\ UNCHANGED plain
        \/ /\ bytes # "failed" /\ op[a] = "release"
           /\ plain' = [plain EXCEPT ![a] = bytes]
           /\ AdminGoto(a, "reget") /\ UNCHANGED released
    /\ UNCHANGED <<adminFrame, row, file, white, unlinked, purged, destroyed, asked>>

\* RestoreQuarantineRecord reads the row once more, for the hash.
GetHash(a) ==
    /\ up /\ apc[a] = "reget"
    /\ IF row[target[a]] = "none" THEN Reply(a, "error") ELSE AdminGoto(a, "update")
    /\ UNCHANGED <<adminFrame, plain, row, file, white, seen>>

\* UPDATE ... WHERE id = ?: no row, no effect, and no error.
Upsert(q) == [row EXCEPT ![q] = "RESTORED"]
SetRestored(q) == [row EXCEPT ![q] = IF @ = "none" THEN "none" ELSE "RESTORED"]

\* Whether the hash goes on the whitelist.
AlwaysWhitelist(a) == TRUE
Whitelists(a) == auto[a]

\* RestoreFile reads the row a third time, the handler answers.
Finish(a) == IF op[a] = "release" THEN AdminGoto(a, "reread") ELSE Reply(a, "RESTORED")

\* Where a failed statement leads.
IgnoreFailure(a) == Finish(a)
FailRequest(a) == Reply(a, "error")

UpdateRecord(a) ==
    /\ up /\ apc[a] = "update"
    /\ \/ /\ row' = SetRestored(target[a])
          /\ IF Whitelists(a) THEN AdminGoto(a, "white") ELSE Finish(a)
       \/ DbFaults /\ FailRequest(a) /\ UNCHANGED row
    /\ UNCHANGED <<adminFrame, plain, file, white, seen>>

\* What goes into whitelist_signatures.
EntryInsteadOfHash(a) == target[a]
HashOf(a) == BodyOf[target[a]]

\* AddWhitelist is a statement of its own: when it fails the row stays RESTORED.
AddWhitelist(a) ==
    /\ up /\ apc[a] = "white"
    /\ \/ /\ white' = white \cup {HashOf(a)}
          /\ Finish(a)
       \/ DbFaults /\ FailRequest(a) /\ UNCHANGED white
    /\ UNCHANGED <<adminFrame, plain, row, file, seen>>

\* RestoreFile reads the row a third time before it hands out the bytes it
\* decrypted before the update.
Reread(a) ==
    /\ up /\ apc[a] = "reread"
    /\ IF row[target[a]] = "none"
       THEN Reply(a, "error") /\ UNCHANGED released
       ELSE Reply(a, "RESTORED") /\ Hand(target[a], plain[a])
    /\ UNCHANGED <<adminFrame, plain, row, file, white, unlinked, purged, destroyed, asked>>

\* DeleteFile: the error of os.Remove is ignored.
Unlink(a) ==
    LET q == target[a] IN
    /\ up /\ apc[a] = "unlink"
    /\ \/ file' = [file EXCEPT ![q] = NoFile] /\ unlinked' = unlinked \cup {q}
       \/ UNCHANGED <<file, unlinked>>
    /\ AdminGoto(a, "drop")
    /\ UNCHANGED <<adminFrame, plain, row, white, purged, destroyed, released, asked>>

DeleteRecord(a) ==
    LET q == target[a] IN
    /\ up /\ apc[a] = "drop"
    /\ \/ /\ row' = [row EXCEPT ![q] = "none"]
          /\ destroyed' = destroyed \cup {q}
          /\ Reply(a, "DELETED")
       \/ DbFaults /\ FailRequest(a) /\ UNCHANGED <<row, destroyed>>
    /\ UNCHANGED <<adminFrame, plain, file, white, unlinked, purged, released, asked>>

AdminStep(a) ==
    \/ Request(a) \/ ReadPayload(a) \/ GetHash(a) \/ UpdateRecord(a)
    \/ AddWhitelist(a) \/ Reread(a) \/ Unlink(a) \/ DeleteRecord(a)

-----------------------------------------------------------------------------
(* The cleaner, the calendar, the process *)

PurgeAge == 7

\* Which files PurgeExpired takes: by their mtime, whatever the table says.
AgedRow(q)  == row[q] # "none" /\ day > born[q] + PurgeAge
AgedFile(q) == day > born[q] + PurgeAge

\* One file of the hourly PurgeExpired. No row is touched.
PurgeExpired(q) ==
    /\ up /\ file[q] # NoFile /\ AgedFile(q)
    /\ file' = [file EXCEPT ![q] = NoFile]
    /\ purged' = purged \cup {q}
    /\ UNCHANGED <<row, born, white, audit, scanVars, adminVars, process, day,
                   unlinked, destroyed, released, asked>>

Tick ==
    /\ \E d \in DaySteps : day + d <= MaxDay /\ day' = day + d
    /\ UNCHANGED <<disk, scanVars, adminVars, process, seen>>

\* The process is stopped or killed; no handler goes on.
ProcessEnds ==
    /\ up /\ up' = FALSE
    /\ spc' = [s \in Scans |-> IF spc[s] = "idle" THEN "idle" ELSE "done"]
    /\ apc' = [a \in Admins |-> IF apc[a] = "idle" THEN "idle" ELSE "done"]
    /\ UNCHANGED <<disk, misheard, quarID, answer, op, target, auto, plain, reply, env, key, boots, day, seen>>

\* /data is a volume, /app with the .env file is not (docker-compose.yml).
Recreate ==
    /\ ~up /\ Redeploys /\ env # NoKey /\ boots < MaxBoots
    /\ env' = NoKey
    /\ UNCHANGED <<disk, scanVars, adminVars, up, key, boots, day, seen>>

\* main: EnsureMasterKey reads the key of the .env file or makes a new one.
Boot ==
    /\ ~up /\ boots < MaxBoots
    /\ up' = TRUE /\ boots' = boots + 1
    /\ env' = IF env = NoKey THEN boots + 1 ELSE env
    /\ key' = env'
    /\ UNCHANGED <<disk, scanVars, adminVars, day, seen>>

\* Nothing is left to happen.
Off == ~up /\ boots = MaxBoots /\ UNCHANGED vars

Next ==
    \/ \E s \in Scans : ScanStep(s) \/ PurgeExpired(s)
    \/ \E a \in Admins : AdminStep(a)
    \/ Tick \/ ProcessEnds \/ Recreate \/ Boot \/ Off

Spec == Init /\ [][Next]_vars

\* The ticker of the cleaner fires every hour for as long as the process runs,
\* and a pass goes over every file.
FairSpec == Spec /\ \A q \in Scans : WF_vars(PurgeExpired(q))

-----------------------------------------------------------------------------
(* Properties *)

\* Every variable has its type.
DiskTypes ==
    /\ row \in [Scans -> {"none", "QUARANTINED", "RESTORED"}]
    /\ file \in [Scans -> Keys \cup {NoFile, Torn}]
    /\ born \in [Scans -> 0..MaxDay]
    /\ white \subseteq Bodies
    /\ audit \in [Scans -> {"none", "CLEAN", "INFECTED"}]
ScanTypes ==
    /\ spc \in [Scans -> {"idle", "scan", "seal", "insert", "report", "done"}]
    /\ quarID \in [Scans -> BOOLEAN] /\ misheard \subseteq Scans
    /\ answer \in [Scans -> {"none", "WHITELISTED", "CLEAN", "INFECTED", "ERROR"}]
AdminTypes ==
    /\ apc \in [Admins -> {"idle", "read", "reget", "update", "white", "reread",
                           "unlink", "drop", "done"}]
    /\ op \in [Admins -> Ops \cup {"none"}]
    /\ target \in [Admins -> Scans \cup {NoEntry}]
    /\ auto \in [Admins -> BOOLEAN]
    /\ plain \in [Admins -> {"none", "original", "garbage"}]
    /\ reply \in [Admins -> {"none", "error", "bytes", "RESTORED", "DELETED"}]
ProcessTypes ==
    /\ env \in Keys \cup {NoKey} /\ key \in Keys
    /\ up \in BOOLEAN /\ boots \in 1..MaxBoots /\ day \in 0..MaxDay
SeenTypes ==
    /\ unlinked \subseteq Scans /\ purged \subseteq Scans /\ destroyed \subseteq Scans
    /\ released \subseteq Scans \X {"original", "garbage"}
    /\ asked \subseteq Bodies
TypeOK == DiskTypes /\ ScanTypes /\ AdminTypes /\ ProcessTypes /\ SeenTypes

\* The bytes of an entry are complete, or a purge or a delete took them.
BytesAccounted(q) == file[q] \in Keys \/ (file[q] = NoFile /\ q \in purged \cup unlinked)

\* A row stands for bytes: the file of an entry in the table is complete, unless
\* a purge or a delete took it. Crashes, failed writes and failed inserts may
\* leave files without rows, never rows without files.
RowHasBytes == \A q \in Scans : row[q] # "none" => BytesAccounted(q)

\* A consumer that was given a quarantine ID can find it, until it is deleted.
IdNamesRow == \A s \in Scans : quarID[s] => row[s] # "none" \/ s \in destroyed

\* Whatever is handed out is what was quarantined, also after the container
\* came back with another key.
ReleasedIsOriginal == \A r \in released : r[2] = "original"

\* An infected body passes without a look at the signatures only when an
\* administrator has asked to whitelist an entry with the same content, and is
\* called clean after that look only when the signature's name contains OK, the
\* one thing parseScanResponse gets wrong (client.go:186).
CleanOnlyOnRequest ==
    \A s \in Scans :
        BodyOf[s] \in Infected =>
            /\ answer[s] = "WHITELISTED" => BodyOf[s] \in asked
            /\ answer[s] = "CLEAN" => s \in misheard

\* A deleted entry does not come back, though restores that have read its row
\* before are still under way.
DestroyedStaysDestroyed == \A q \in destroyed : row[q] = "none"

\* RESTORED is answered when all of it was done: the row says so, unless it was
\* deleted meanwhile; the hash is on the whitelist if that was asked for, though
\* this is a statement of its own; RestoreFile has handed out the original. The
\* endpoint opens no file, so the bytes may be gone by then, but only because a
\* purge or a delete took them.
RestoredIsRecorded ==
    \A a \in Admins : LET q == target[a] IN
        reply[a] = "RESTORED" =>
            /\ row[q] = "RESTORED" \/ q \in destroyed
            /\ auto[a] => BodyOf[q] \in white
            /\ op[a] = "release" => <<q, "original">> \in released
            /\ BytesAccounted(q)

\* Every file goes once it has aged, also one no row points to, as long as the
\* service is started again.
AgedIsRemoved ==
    \A q \in Scans :
        (file[q] # NoFile /\ day > born[q] + PurgeAge) ~> (file[q] = NoFile \/ ~up)

-----------------------------------------------------------------------------
(* What the documentation says of the vault *)

\* "Retensi file karantina mengikuti QUARANTINE_RETENTION_DAYS" (API-SPEC-03
\* :158): the cleaner takes no file before its expires_at.
RetentionHonoured ==
    [][\A q \in Scans :
        q \in purged' \ purged /\ row[q] # "none" => day >= born[q] + QuarRetention]_vars

\* "Pada pemindaian berikutnya, jika hash file cocok dengan tabel whitelist,
\* service langsung mengembalikan status verdict: CLEAN" (L-002 section 6,
\* against the quarantine loop): a scan that starts after its content was
\* whitelisted is answered without a look at the signatures.
NoRequarantine ==
    [][\A s \in Scans :
        spc[s] = "idle" /\ spc'[s] # "idle" /\ BodyOf[s] \in white =>
            answer'[s] = "WHITELISTED"]_vars
=============================================================================
