---------------------------- MODULE VaultProofs ----------------------------
(***************************************************************************)
(* Proofs about the vault, for every number of scans, contents and          *)
(* administrators, with failing statements, restarts and re-creations.      *)
(***************************************************************************)
EXTENDS Vault, TLAPS

Active == {"read", "reget", "update", "white", "reread", "unlink", "drop"}

\* Before the seal nobody has touched the entry, before the insert only the
\* cleaner has; an entry that was deleted had been inserted.
Stages ==
    \A s \in Scans :
        /\ spc[s] \in {"idle", "scan", "seal", "insert"} =>
            row[s] = "none" /\ ~quarID[s] /\ s \notin destroyed
        /\ spc[s] = "insert" => file[s] \in Keys \/ (file[s] = NoFile /\ s \in purged)
        /\ file[s] = Torn => row[s] = "none" /\ s \notin destroyed
        /\ s \in destroyed => BytesAccounted(s)
        /\ spc[s] \in {"idle", "scan", "seal"} => answer[s] = "none"

\* The entry a request is about was in the table when the request came, and the
\* hash it is about to whitelist was asked for.
Requests ==
    \A a \in Admins :
        /\ apc[a] \in Active =>
            /\ target[a] \in Scans
            /\ row[target[a]] # "none" \/ target[a] \in destroyed
            /\ auto[a] => BodyOf[target[a]] \in asked
        /\ apc[a] \in {"white", "reread"} =>
            row[target[a]] = "RESTORED" \/ target[a] \in destroyed
        /\ apc[a] = "white" => auto[a]
        /\ apc[a] = "reread" /\ auto[a] => BodyOf[target[a]] \in white
        /\ apc[a] = "read" => op[a] \in {"download", "release"}
        /\ apc[a] \in {"reget", "update", "white", "reread"} /\ op[a] = "release" =>
            plain[a] = "original"
        /\ apc[a] = "reread" => op[a] = "release"
        /\ reply[a] = "RESTORED" => target[a] \in Scans /\ apc[a] = "done"
        /\ apc[a] = "idle" => reply[a] = "none"

VaultInv ==
    /\ TypeOK /\ Stages /\ Requests
    /\ RowHasBytes /\ IdNamesRow /\ DestroyedStaysDestroyed /\ RestoredIsRecorded
    /\ white \subseteq asked /\ CleanOnlyOnRequest /\ ReleasedIsOriginal

LEMMA VaultInit == Init => VaultInv
BY VaultConstants
   DEF VaultConstants, Init, VaultInv, TypeOK, DiskTypes, ScanTypes, AdminTypes, ProcessTypes, SeenTypes,
       Stages, Requests, RowHasBytes, IdNamesRow, DestroyedStaysDestroyed, RestoredIsRecorded,
       CleanOnlyOnRequest, ReleasedIsOriginal, BytesAccounted, Keys, Ops, Active

LEMMA VaultStep == VaultInv /\ [Next]_vars => VaultInv'
<1> SUFFICES ASSUME VaultInv, [Next]_vars PROVE VaultInv'
    OBVIOUS
<1> USE VaultConstants
    DEF VaultConstants, VaultInv, TypeOK, DiskTypes, ScanTypes, AdminTypes, ProcessTypes, SeenTypes, BytesAccounted
<1>1. ASSUME NEW s \in Scans, CheckWhitelist(s) PROVE VaultInv'
    <2> USE <1>1 DEF CheckWhitelist, scanFrame, adminVars, process, seen, ScanGoto, Respond
    <2>1. DiskTypes' /\ ScanTypes'
        OBVIOUS
    <2>2. AdminTypes' /\ ProcessTypes' /\ SeenTypes'
        BY DEF Ops
    <2>3. Stages'
        BY DEF Stages
    <2>4. Requests'
        BY DEF Requests, Stages, Active
    <2>5. RowHasBytes' /\ IdNamesRow' /\ DestroyedStaysDestroyed'
        BY DEF RowHasBytes, IdNamesRow, DestroyedStaysDestroyed, Stages, Requests, Active
    <2>6. RestoredIsRecorded'
        BY DEF RestoredIsRecorded, Requests, Stages, Active, DestroyedStaysDestroyed, RowHasBytes
    <2>7. (white \subseteq asked)' /\ CleanOnlyOnRequest'
        BY DEF CleanOnlyOnRequest, Stages, Requests, Active
    <2>8. ReleasedIsOriginal'
        BY DEF ReleasedIsOriginal, Stages, Requests, Active
    <2> QED BY <2>1, <2>2, <2>3, <2>4, <2>5, <2>6, <2>7, <2>8
<1>2. ASSUME NEW s \in Scans, TakeJob(s) PROVE VaultInv'
    <2> USE <1>2 DEF TakeJob, scanFrame, adminVars, process, seen, ScanGoto, Respond
    <2>1. DiskTypes' /\ ScanTypes'
        OBVIOUS
    <2>2. AdminTypes' /\ ProcessTypes' /\ SeenTypes'
        BY DEF Ops
    <2>3. Stages'
        BY DEF Stages
    <2>4. Requests'
        BY DEF Requests, Stages, Active
    <2>5. RowHasBytes' /\ IdNamesRow' /\ DestroyedStaysDestroyed'
        BY DEF RowHasBytes, IdNamesRow, DestroyedStaysDestroyed, Stages, Requests, Active
    <2>6. RestoredIsRecorded'
        BY DEF RestoredIsRecorded, Requests, Stages, Active, DestroyedStaysDestroyed, RowHasBytes
    <2>7. (white \subseteq asked)' /\ CleanOnlyOnRequest'
        BY DEF CleanOnlyOnRequest, Stages, Requests, Active
    <2>8. ReleasedIsOriginal'
        BY DEF ReleasedIsOriginal, Stages, Requests, Active
    <2> QED BY <2>1, <2>2, <2>3, <2>4, <2>5, <2>6, <2>7, <2>8
<1>3. ASSUME NEW s \in Scans, ScanBody(s) PROVE VaultInv'
    <2> USE <1>3 DEF ScanBody, Detected, scanFrame, adminVars, process, seen, ScanGoto, Respond
    <2>1. DiskTypes' /\ ScanTypes'
        OBVIOUS
    <2>2. AdminTypes' /\ ProcessTypes' /\ SeenTypes'
        BY DEF Ops
    <2>3. Stages'
        BY DEF Stages
    <2>4. Requests'
        BY DEF Requests, Stages, Active
    <2>5. RowHasBytes' /\ IdNamesRow' /\ DestroyedStaysDestroyed'
        BY DEF RowHasBytes, IdNamesRow, DestroyedStaysDestroyed, Stages, Requests, Active
    <2>6. RestoredIsRecorded'
        BY DEF RestoredIsRecorded, Requests, Stages, Active, DestroyedStaysDestroyed, RowHasBytes
    <2>7. (white \subseteq asked)' /\ CleanOnlyOnRequest'
        BY DEF CleanOnlyOnRequest, Stages, Requests, Active
    <2>8. ReleasedIsOriginal'
        BY DEF ReleasedIsOriginal, Stages, Requests, Active
    <2> QED BY <2>1, <2>2, <2>3, <2>4, <2>5, <2>6, <2>7, <2>8
<1>4. ASSUME NEW s \in Scans, SealPayload(s) PROVE VaultInv'
    <2> USE <1>4 DEF SealPayload, scanFrame, adminVars, process, seen, ScanGoto, Respond, SealFailed
    <2>1. DiskTypes' /\ ScanTypes'
        OBVIOUS
    <2>2. AdminTypes' /\ ProcessTypes' /\ SeenTypes'
        BY DEF Ops
    <2>3. Stages'
        BY DEF Stages
    <2>4. Requests'
        BY DEF Requests, Stages, Active
    <2>5. RowHasBytes' /\ IdNamesRow' /\ DestroyedStaysDestroyed'
        BY DEF RowHasBytes, IdNamesRow, DestroyedStaysDestroyed, Stages, Requests, Active
    <2>6. RestoredIsRecorded'
        BY DEF RestoredIsRecorded, Requests, Stages, Active, DestroyedStaysDestroyed, RowHasBytes
    <2>7. (white \subseteq asked)' /\ CleanOnlyOnRequest'
        BY DEF CleanOnlyOnRequest, Stages, Requests, Active
    <2>8. ReleasedIsOriginal'
        BY DEF ReleasedIsOriginal, Stages, Requests, Active
    <2> QED BY <2>1, <2>2, <2>3, <2>4, <2>5, <2>6, <2>7, <2>8
<1>5. ASSUME NEW s \in Scans, InsertQuarantineRecord(s) PROVE VaultInv'
    <2> USE <1>5 DEF InsertQuarantineRecord, scanFrame, adminVars, process, seen, ScanGoto, Respond, RecordIfInserted, DbOutcomes
    <2>1. DiskTypes' /\ ScanTypes'
        <3>1. PICK ok \in BOOLEAN :
                /\ row' = [row EXCEPT ![s] = IF ok THEN "QUARANTINED" ELSE row[s]]
                /\ quarID' = [quarID EXCEPT ![s] = ok]
            OBVIOUS
        <3>2. row' \in [Scans -> {"none", "QUARANTINED", "RESTORED"}]
            BY <3>1
        <3>3. quarID' \in [Scans -> BOOLEAN]
            BY <3>1
        <3>4. spc' \in [Scans -> {"idle", "scan", "seal", "insert", "report", "done"}]
            OBVIOUS
        <3>5. UNCHANGED <<file, born, white, audit, answer>>
            OBVIOUS
        <3> QED BY <3>2, <3>3, <3>4, <3>5
    <2>2. AdminTypes' /\ ProcessTypes' /\ SeenTypes'
        BY DEF Ops
    <2>3. Stages'
        BY DEF Stages, Keys
    <2>4. Requests'
        BY DEF Requests, Stages, Active
    <2>5. RowHasBytes' /\ IdNamesRow' /\ DestroyedStaysDestroyed'
        BY DEF RowHasBytes, IdNamesRow, DestroyedStaysDestroyed, Stages, Requests, Active
    <2>6. RestoredIsRecorded'
        BY DEF RestoredIsRecorded, Requests, Stages, Active, DestroyedStaysDestroyed, RowHasBytes
    <2>7. (white \subseteq asked)' /\ CleanOnlyOnRequest'
        BY DEF CleanOnlyOnRequest, Stages, Requests, Active
    <2>8. ReleasedIsOriginal'
        BY DEF ReleasedIsOriginal, Stages, Requests, Active
    <2> QED BY <2>1, <2>2, <2>3, <2>4, <2>5, <2>6, <2>7, <2>8
<1>6. ASSUME NEW s \in Scans, Report(s) PROVE VaultInv'
    <2> USE <1>6 DEF Report, Detected, scanFrame, adminVars, process, seen, ScanGoto, Respond, DbOutcomes
    <2>1. DiskTypes' /\ ScanTypes'
        OBVIOUS
    <2>2. AdminTypes' /\ ProcessTypes' /\ SeenTypes'
        BY DEF Ops
    <2>3. Stages'
        BY DEF Stages
    <2>4. Requests'
        BY DEF Requests, Stages, Active
    <2>5. RowHasBytes' /\ IdNamesRow' /\ DestroyedStaysDestroyed'
        BY DEF RowHasBytes, IdNamesRow, DestroyedStaysDestroyed, Stages, Requests, Active
    <2>6. RestoredIsRecorded'
        BY DEF RestoredIsRecorded, Requests, Stages, Active, DestroyedStaysDestroyed, RowHasBytes
    <2>7. (white \subseteq asked)' /\ CleanOnlyOnRequest'
        BY DEF CleanOnlyOnRequest, Stages, Requests, Active
    <2>8. ReleasedIsOriginal'
        BY DEF ReleasedIsOriginal, Stages, Requests, Active
    <2> QED BY <2>1, <2>2, <2>3, <2>4, <2>5, <2>6, <2>7, <2>8
<1>7. ASSUME NEW s \in Scans, PurgeExpired(s) PROVE VaultInv'
    <2> USE <1>7 DEF PurgeExpired, disk, scanVars, adminVars, process, seen
    <2>1. DiskTypes' /\ ScanTypes'
        OBVIOUS
    <2>2. AdminTypes' /\ ProcessTypes' /\ SeenTypes'
        BY DEF Ops
    <2>3. Stages'
        BY DEF Stages
    <2>4. Requests'
        BY DEF Requests, Stages, Active
    <2>5. RowHasBytes' /\ IdNamesRow' /\ DestroyedStaysDestroyed'
        BY DEF RowHasBytes, IdNamesRow, DestroyedStaysDestroyed, Stages, Requests, Active
    <2>6. RestoredIsRecorded'
        BY DEF RestoredIsRecorded, Requests, Stages, Active, DestroyedStaysDestroyed, RowHasBytes
    <2>7. (white \subseteq asked)' /\ CleanOnlyOnRequest'
        BY DEF CleanOnlyOnRequest, Stages, Requests, Active
    <2>8. ReleasedIsOriginal'
        BY DEF ReleasedIsOriginal, Stages, Requests, Active
    <2> QED BY <2>1, <2>2, <2>3, <2>4, <2>5, <2>6, <2>7, <2>8
<1>8. ASSUME NEW a \in Admins, Request(a) PROVE VaultInv'
    <2> USE <1>8 DEF Request, disk, scanVars, adminVars, process, seen, Reply, AdminGoto, Ops
    <2>1. DiskTypes' /\ ScanTypes'
        OBVIOUS
    <2>2. AdminTypes' /\ ProcessTypes' /\ SeenTypes'
        BY DEF Ops
    <2>3. Stages'
        BY DEF Stages
    <2>4. Requests'
        BY DEF Requests, Stages, Active
    <2>5. RowHasBytes' /\ IdNamesRow' /\ DestroyedStaysDestroyed'
        BY DEF RowHasBytes, IdNamesRow, DestroyedStaysDestroyed, Stages, Requests, Active
    <2>6. RestoredIsRecorded'
        BY DEF RestoredIsRecorded, Requests, Stages, Active, DestroyedStaysDestroyed, RowHasBytes
    <2>7. (white \subseteq asked)' /\ CleanOnlyOnRequest'
        BY DEF CleanOnlyOnRequest, Stages, Requests, Active
    <2>8. ReleasedIsOriginal'
        BY DEF ReleasedIsOriginal, Stages, Requests, Active
    <2> QED BY <2>1, <2>2, <2>3, <2>4, <2>5, <2>6, <2>7, <2>8
<1>9. ASSUME NEW a \in Admins, ReadPayload(a) PROVE VaultInv'
    <2> USE <1>9 DEF ReadPayload, adminFrame, scanVars, process, seen, AdminGoto, Reply, Hand, Finish, FailRequest, Decrypt
    <2>1. DiskTypes' /\ ScanTypes'
        OBVIOUS
    <2>2. AdminTypes' /\ ProcessTypes' /\ SeenTypes'
        BY DEF Ops, Requests, Active
    <2>3. Stages'
        BY DEF Stages
    <2>4. Requests'
        BY DEF Requests, Stages, Active
    <2>5. RowHasBytes' /\ IdNamesRow' /\ DestroyedStaysDestroyed'
        BY DEF RowHasBytes, IdNamesRow, DestroyedStaysDestroyed, Stages, Requests, Active
    <2>6. RestoredIsRecorded'
        BY DEF RestoredIsRecorded, Requests, Stages, Active, DestroyedStaysDestroyed, RowHasBytes
    <2>7. (white \subseteq asked)' /\ CleanOnlyOnRequest'
        BY DEF CleanOnlyOnRequest, Stages, Requests, Active
    <2>8. ReleasedIsOriginal'
        BY DEF ReleasedIsOriginal, Stages, Requests, Active
    <2> QED BY <2>1, <2>2, <2>3, <2>4, <2>5, <2>6, <2>7, <2>8
<1>10. ASSUME NEW a \in Admins, GetHash(a) PROVE VaultInv'
    <2> USE <1>10 DEF GetHash, adminFrame, scanVars, process, seen, AdminGoto, Reply, Hand, Finish, FailRequest
    <2>1. DiskTypes' /\ ScanTypes'
        OBVIOUS
    <2>2. AdminTypes' /\ ProcessTypes' /\ SeenTypes'
        BY DEF Ops
    <2>3. Stages'
        BY DEF Stages
    <2>4. Requests'
        BY DEF Requests, Stages, Active
    <2>5. RowHasBytes' /\ IdNamesRow' /\ DestroyedStaysDestroyed'
        BY DEF RowHasBytes, IdNamesRow, DestroyedStaysDestroyed, Stages, Requests, Active
    <2>6. RestoredIsRecorded'
        BY DEF RestoredIsRecorded, Requests, Stages, Active, DestroyedStaysDestroyed, RowHasBytes
    <2>7. (white \subseteq asked)' /\ CleanOnlyOnRequest'
        BY DEF CleanOnlyOnRequest, Stages, Requests, Active
    <2>8. ReleasedIsOriginal'
        BY DEF ReleasedIsOriginal, Stages, Requests, Active
    <2> QED BY <2>1, <2>2, <2>3, <2>4, <2>5, <2>6, <2>7, <2>8
<1>11. ASSUME NEW a \in Admins, UpdateRecord(a) PROVE VaultInv'
    <2> USE <1>11 DEF UpdateRecord, adminFrame, scanVars, process, seen, AdminGoto, Reply, Hand, Finish, FailRequest, SetRestored, Whitelists
    <2>1. DiskTypes' /\ ScanTypes'
        OBVIOUS
    <2>2. AdminTypes' /\ ProcessTypes' /\ SeenTypes'
        BY DEF Ops
    <2>3. Stages'
        BY DEF Stages
    <2>4. Requests'
        BY DEF Requests, Stages, Active
    <2>5. RowHasBytes' /\ IdNamesRow' /\ DestroyedStaysDestroyed'
        BY DEF RowHasBytes, IdNamesRow, DestroyedStaysDestroyed, Stages, Requests, Active
    <2>6. RestoredIsRecorded'
        BY DEF RestoredIsRecorded, Requests, Stages, Active, DestroyedStaysDestroyed, RowHasBytes
    <2>7. (white \subseteq asked)' /\ CleanOnlyOnRequest'
        BY DEF CleanOnlyOnRequest, Stages, Requests, Active
    <2>8. ReleasedIsOriginal'
        BY DEF ReleasedIsOriginal, Stages, Requests, Active
    <2> QED BY <2>1, <2>2, <2>3, <2>4, <2>5, <2>6, <2>7, <2>8
<1>12. ASSUME NEW a \in Admins, AddWhitelist(a) PROVE VaultInv'
    <2> USE <1>12 DEF AddWhitelist, adminFrame, scanVars, process, seen, AdminGoto, Reply, Hand, Finish, FailRequest, HashOf
    <2>1. DiskTypes' /\ ScanTypes'
        BY DEF Requests, Active
    <2>2. AdminTypes' /\ ProcessTypes' /\ SeenTypes'
        BY DEF Ops
    <2>3. Stages'
        BY DEF Stages
    <2>4. Requests'
        BY DEF Requests, Stages, Active
    <2>5. RowHasBytes' /\ IdNamesRow' /\ DestroyedStaysDestroyed'
        BY DEF RowHasBytes, IdNamesRow, DestroyedStaysDestroyed, Stages, Requests, Active
    <2>6. RestoredIsRecorded'
        BY DEF RestoredIsRecorded, Requests, Stages, Active, DestroyedStaysDestroyed, RowHasBytes
    <2>7. (white \subseteq asked)' /\ CleanOnlyOnRequest'
        BY DEF CleanOnlyOnRequest, Stages, Requests, Active
    <2>8. ReleasedIsOriginal'
        BY DEF ReleasedIsOriginal, Stages, Requests, Active
    <2> QED BY <2>1, <2>2, <2>3, <2>4, <2>5, <2>6, <2>7, <2>8
<1>13. ASSUME NEW a \in Admins, Reread(a) PROVE VaultInv'
    <2> USE <1>13 DEF Reread, adminFrame, scanVars, process, seen, AdminGoto, Reply, Hand, Finish, FailRequest
    <2>1. DiskTypes' /\ ScanTypes'
        OBVIOUS
    <2>2. AdminTypes' /\ ProcessTypes' /\ SeenTypes'
        BY DEF Ops, Requests, Active
    <2>3. Stages'
        BY DEF Stages
    <2>4. Requests'
        BY DEF Requests, Stages, Active
    <2>5. RowHasBytes' /\ IdNamesRow' /\ DestroyedStaysDestroyed'
        BY DEF RowHasBytes, IdNamesRow, DestroyedStaysDestroyed, Stages, Requests, Active
    <2>6. RestoredIsRecorded'
        BY DEF RestoredIsRecorded, Requests, Stages, Active, DestroyedStaysDestroyed, RowHasBytes
    <2>7. (white \subseteq asked)' /\ CleanOnlyOnRequest'
        BY DEF CleanOnlyOnRequest, Stages, Requests, Active
    <2>8. ReleasedIsOriginal'
        BY DEF ReleasedIsOriginal, Stages, Requests, Active
    <2> QED BY <2>1, <2>2, <2>3, <2>4, <2>5, <2>6, <2>7, <2>8
<1>14. ASSUME NEW a \in Admins, Unlink(a) PROVE VaultInv'
    <2> USE <1>14 DEF Unlink, adminFrame, scanVars, process, seen, AdminGoto, Reply, Hand, Finish, FailRequest
    <2>1. DiskTypes' /\ ScanTypes'
        OBVIOUS
    <2>2. AdminTypes' /\ ProcessTypes' /\ SeenTypes'
        BY DEF Ops, Requests, Active
    <2>3. Stages'
        BY DEF Stages, Requests, Active
    <2>4. Requests'
        BY DEF Requests, Stages, Active
    <2>5. RowHasBytes' /\ IdNamesRow' /\ DestroyedStaysDestroyed'
        BY DEF RowHasBytes, IdNamesRow, DestroyedStaysDestroyed, Stages, Requests, Active
    <2>6. RestoredIsRecorded'
        BY DEF RestoredIsRecorded, Requests, Stages, Active, DestroyedStaysDestroyed, RowHasBytes
    <2>7. (white \subseteq asked)' /\ CleanOnlyOnRequest'
        BY DEF CleanOnlyOnRequest, Stages, Requests, Active
    <2>8. ReleasedIsOriginal'
        BY DEF ReleasedIsOriginal, Stages, Requests, Active
    <2> QED BY <2>1, <2>2, <2>3, <2>4, <2>5, <2>6, <2>7, <2>8
<1>15. ASSUME NEW a \in Admins, DeleteRecord(a) PROVE VaultInv'
    <2> USE <1>15 DEF DeleteRecord, adminFrame, scanVars, process, seen, AdminGoto, Reply, Hand, Finish, FailRequest
    <2>1. DiskTypes' /\ ScanTypes'
        OBVIOUS
    <2>2. AdminTypes' /\ ProcessTypes' /\ SeenTypes'
        BY DEF Ops, Requests, Active
    <2>3. Stages'
        BY DEF Stages, Requests, Active, RowHasBytes
    <2>4. Requests'
        BY DEF Requests, Stages, Active
    <2>5. RowHasBytes' /\ IdNamesRow' /\ DestroyedStaysDestroyed'
        BY DEF RowHasBytes, IdNamesRow, DestroyedStaysDestroyed, Stages, Requests, Active
    <2>6. RestoredIsRecorded'
        BY DEF RestoredIsRecorded, Requests, Stages, Active, DestroyedStaysDestroyed, RowHasBytes
    <2>7. (white \subseteq asked)' /\ CleanOnlyOnRequest'
        BY DEF CleanOnlyOnRequest, Stages, Requests, Active
    <2>8. ReleasedIsOriginal'
        BY DEF ReleasedIsOriginal, Stages, Requests, Active
    <2> QED BY <2>1, <2>2, <2>3, <2>4, <2>5, <2>6, <2>7, <2>8
<1>16. ASSUME Tick PROVE VaultInv'
    <2> USE <1>16 DEF Tick, disk, scanVars, adminVars, process, seen
    <2>1. DiskTypes' /\ ScanTypes'
        OBVIOUS
    <2>2. AdminTypes' /\ ProcessTypes' /\ SeenTypes'
        BY DEF Ops
    <2>3. Stages'
        BY DEF Stages
    <2>4. Requests'
        BY DEF Requests, Stages, Active
    <2>5. RowHasBytes' /\ IdNamesRow' /\ DestroyedStaysDestroyed'
        BY DEF RowHasBytes, IdNamesRow, DestroyedStaysDestroyed, Stages, Requests, Active
    <2>6. RestoredIsRecorded'
        BY DEF RestoredIsRecorded, Requests, Stages, Active, DestroyedStaysDestroyed, RowHasBytes
    <2>7. (white \subseteq asked)' /\ CleanOnlyOnRequest'
        BY DEF CleanOnlyOnRequest, Stages, Requests, Active
    <2>8. ReleasedIsOriginal'
        BY DEF ReleasedIsOriginal, Stages, Requests, Active
    <2> QED BY <2>1, <2>2, <2>3, <2>4, <2>5, <2>6, <2>7, <2>8
<1>17. ASSUME ProcessEnds PROVE VaultInv'
    <2> USE <1>17 DEF ProcessEnds, disk, scanVars, adminVars, process, seen
    <2>1. DiskTypes' /\ ScanTypes'
        OBVIOUS
    <2>2. AdminTypes' /\ ProcessTypes' /\ SeenTypes'
        BY DEF Ops
    <2>3. Stages'
        BY DEF Stages
    <2>4. Requests'
        BY DEF Requests, Stages, Active
    <2>5. RowHasBytes' /\ IdNamesRow' /\ DestroyedStaysDestroyed'
        BY DEF RowHasBytes, IdNamesRow, DestroyedStaysDestroyed, Stages, Requests, Active
    <2>6. RestoredIsRecorded'
        BY DEF RestoredIsRecorded, Requests, Stages, Active, DestroyedStaysDestroyed, RowHasBytes
    <2>7. (white \subseteq asked)' /\ CleanOnlyOnRequest'
        BY DEF CleanOnlyOnRequest, Stages, Requests, Active
    <2>8. ReleasedIsOriginal'
        BY DEF ReleasedIsOriginal, Stages, Requests, Active
    <2> QED BY <2>1, <2>2, <2>3, <2>4, <2>5, <2>6, <2>7, <2>8
<1>18. ASSUME Recreate PROVE VaultInv'
    <2> USE <1>18 DEF Recreate, disk, scanVars, adminVars, process, seen
    <2>1. DiskTypes' /\ ScanTypes'
        OBVIOUS
    <2>2. AdminTypes' /\ ProcessTypes' /\ SeenTypes'
        BY DEF Ops
    <2>3. Stages'
        BY DEF Stages
    <2>4. Requests'
        BY DEF Requests, Stages, Active
    <2>5. RowHasBytes' /\ IdNamesRow' /\ DestroyedStaysDestroyed'
        BY DEF RowHasBytes, IdNamesRow, DestroyedStaysDestroyed, Stages, Requests, Active
    <2>6. RestoredIsRecorded'
        BY DEF RestoredIsRecorded, Requests, Stages, Active, DestroyedStaysDestroyed, RowHasBytes
    <2>7. (white \subseteq asked)' /\ CleanOnlyOnRequest'
        BY DEF CleanOnlyOnRequest, Stages, Requests, Active
    <2>8. ReleasedIsOriginal'
        BY DEF ReleasedIsOriginal, Stages, Requests, Active
    <2> QED BY <2>1, <2>2, <2>3, <2>4, <2>5, <2>6, <2>7, <2>8
<1>19. ASSUME Boot PROVE VaultInv'
    <2> USE <1>19 DEF Boot, disk, scanVars, adminVars, process, seen
    <2>1. DiskTypes' /\ ScanTypes'
        BY DEF Keys
    <2>2. AdminTypes' /\ ProcessTypes' /\ SeenTypes'
        BY DEF Ops, Keys
    <2>3. Stages'
        BY DEF Stages, Keys
    <2>4. Requests'
        BY DEF Requests, Stages, Active, Keys
    <2>5. RowHasBytes' /\ IdNamesRow' /\ DestroyedStaysDestroyed'
        BY DEF RowHasBytes, IdNamesRow, DestroyedStaysDestroyed, Stages, Requests, Active, Keys
    <2>6. RestoredIsRecorded'
        BY DEF RestoredIsRecorded, Requests, Stages, Active, DestroyedStaysDestroyed, RowHasBytes, Keys
    <2>7. (white \subseteq asked)' /\ CleanOnlyOnRequest'
        BY DEF CleanOnlyOnRequest, Stages, Requests, Active, Keys
    <2>8. ReleasedIsOriginal'
        BY DEF ReleasedIsOriginal, Stages, Requests, Active, Keys
    <2> QED BY <2>1, <2>2, <2>3, <2>4, <2>5, <2>6, <2>7, <2>8
<1>20. ASSUME UNCHANGED vars PROVE VaultInv'
    BY <1>20 DEF vars, disk, scanVars, adminVars, process, seen, Stages, Requests, RowHasBytes, IdNamesRow,
        DestroyedStaysDestroyed, RestoredIsRecorded, CleanOnlyOnRequest, ReleasedIsOriginal
<1> HIDE DEF VaultInv
<1> QED
    BY <1>1, <1>2, <1>3, <1>4, <1>5, <1>6, <1>7, <1>8, <1>9, <1>10, <1>11, <1>12, <1>13, <1>14, <1>15, <1>16, <1>17, <1>18, <1>19, <1>20 DEF Next, ScanStep, AdminStep, Off

LEMMA VaultAlways == Spec => []VaultInv
BY VaultInit, VaultStep, PTL DEF Spec

-----------------------------------------------------------------------------
(* What holds of every vault *)

\* Every variable of the vault keeps its type.
THEOREM VaultTypes == Spec => []TypeOK
<1>1. VaultInv => TypeOK
    BY DEF VaultInv
<1> QED
    BY VaultAlways, <1>1, PTL

\* QuarantineFile writes before it inserts: no row without complete bytes but
\* for what a purge or a delete took, whatever fails or is killed in between.
THEOREM RowHasBytesAlways == Spec => []RowHasBytes
<1>1. VaultInv => RowHasBytes
    BY DEF VaultInv
<1> QED
    BY VaultAlways, <1>1, PTL

\* A quarantine ID given to a consumer names a row until DeleteFile drops it.
THEOREM IdNamesRowAlways == Spec => []IdNamesRow
<1>1. VaultInv => IdNamesRow
    BY DEF VaultInv
<1> QED
    BY VaultAlways, <1>1, PTL

\* No interleaving of restores with a delete brings a deleted row back.
THEOREM DestroyedStaysDestroyedAlways == Spec => []DestroyedStaysDestroyed
<1>1. VaultInv => DestroyedStaysDestroyed
    BY DEF VaultInv
<1> QED
    BY VaultAlways, <1>1, PTL

\* RESTORED is answered only after row and whitelist say so and RestoreFile has
\* the original bytes (RestoreQuarantineRecord, RestoreFile), whatever statement
\* fails and whatever deletes and purges run meanwhile.
THEOREM RestoredIsRecordedAlways == Spec => []RestoredIsRecorded
<1>1. VaultInv => RestoredIsRecorded
    BY DEF VaultInv
<1> QED
    BY VaultAlways, <1>1, PTL

\* What a download or RestoreFile hands out is what was quarantined, under
\* whatever key the process runs and whatever torn files lie in the directory.
THEOREM ReleasedIsOriginalAlways == Spec => []ReleasedIsOriginal
<1>1. VaultInv => ReleasedIsOriginal
    BY DEF VaultInv
<1> QED
    BY VaultAlways, <1>1, PTL

\* No scan lets an infected content pass but by the whitelist somebody asked for,
\* or by a signature name with OK in it (IsWhitelisted, parseScanResponse).
THEOREM CleanOnlyOnRequestAlways == Spec => []CleanOnlyOnRequest
<1>1. VaultInv => CleanOnlyOnRequest
    BY DEF VaultInv
<1> QED
    BY VaultAlways, <1>1, PTL
=============================================================================
