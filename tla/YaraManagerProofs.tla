------------------------- MODULE YaraManagerProofs -------------------------
(***************************************************************************)
(* Proofs about the custom rules, for every number of requests and names,   *)
(* with failing statements, removals and reloads and with kills.            *)
(***************************************************************************)
EXTENDS YaraManager, TLAPS

\* Manager.mu: who holds it is the one request between its Lock and its return.
Mutex == \A q \in Requests : (mu = q) <=> (pc[q] \notin {"idle", "done"})

\* A request is answered when it returns.
Answered == \A q \in Requests : pc[q] # "done" => reply[q] = "none"

\* A rule file bears the name of its rule, and no two rows have one name.
OwnNames == \A n \in Names : file[n] \in Adds => NameOf[file[n]] = n
OneRow == \A a, b \in rows : NameOf[a] = NameOf[b] => a = b

\* How far an AddRule has come, in the directory and in the table.
Adding ==
    \A a \in Adds :
        /\ pc[a] \in {"idle", "write", "insert", "reload", "unfile", "unrow", "done"}
        /\ pc[a] \in {"idle", "write", "insert"} => a \notin rows
        /\ pc[a] = "idle" => file[NameOf[a]] # a
        /\ pc[a] = "write" => file[NameOf[a]] = NoRule
        /\ pc[a] \in {"insert", "reload", "unfile"} => file[NameOf[a]] = a
        /\ pc[a] \in {"reload", "unrow"} => a \in rows
        /\ pc[a] = "unrow" => file[NameOf[a]] # a \/ a \in cut

\* How far a DeleteRule has come.
Deleting ==
    \A d \in Deletes :
        /\ pc[d] \in {"idle", "unlink", "delete", "reload", "done"}
        /\ pc[d] = "idle" => victim[d] = NoRule
        /\ pc[d] \in {"unlink", "delete"} => victim[d] \in rows
        /\ pc[d] = "delete" => file[NameOf[victim[d]]] # victim[d] \/ victim[d] \in cut

\* FilesAreListed at every step of a request.
Listed ==
    \A n \in Names : file[n] \in Adds \ cut =>
        file[n] \in rows \/ pc[file[n]] \in {"insert", "unfile"}

YaraInv ==
    /\ TypeOK /\ Mutex /\ Answered /\ OwnNames /\ OneRow /\ Adding /\ Deleting
    /\ Listed /\ CreatedStays /\ FailedAddLeavesNothing

LEMMA YaraInit == Init => YaraInv
<1> SUFFICES ASSUME Init PROVE YaraInv
    OBVIOUS
<1> USE YaraConstants DEF YaraConstants, Init, Requests
<1>1. TypeOK
    <2>1. boots \in 1..MaxBoots
        OBVIOUS
    <2>2. up \in BOOLEAN /\ pending \in BOOLEAN
        OBVIOUS
    <2>3. file \in [Names -> Adds \cup {NoRule, Torn}] /\ loaded \in [Names -> Adds \cup {NoRule}]
        OBVIOUS
    <2> QED
        BY <2>1, <2>2, <2>3 DEF TypeOK
<1>2. Mutex /\ Answered
    BY DEF Mutex, Answered
<1>3. OwnNames /\ OneRow /\ Listed
    BY DEF OwnNames, OneRow, Listed
<1>4. Adding
    BY DEF Adding
<1>5. Deleting
    BY DEF Deleting
<1>6. CreatedStays /\ FailedAddLeavesNothing
    BY DEF CreatedStays, FailedAddLeavesNothing
<1> QED
    BY <1>1, <1>2, <1>3, <1>4, <1>5, <1>6 DEF YaraInv

LEMMA YaraStep == YaraInv /\ [Next]_vars => YaraInv'
<1> SUFFICES ASSUME YaraInv, [Next]_vars PROVE YaraInv'
    OBVIOUS
<1> USE YaraConstants DEF YaraConstants, YaraInv, TypeOK, Requests
<1>1. ASSUME NEW a \in Adds, BeginAdd(a) PROVE YaraInv'
    <2> USE <1>1 DEF BeginAdd, MutexFree, FileExists, Return, rules, clamd, process
    <2>1. TypeOK'
        BY DEF Deleting
    <2>2. Mutex'
        BY DEF Mutex, Adding
    <2>3. Answered'
        BY DEF Answered, Mutex
    <2>4. OwnNames'
        BY DEF OwnNames, Deleting
    <2>5. OneRow'
        BY DEF OneRow
    <2>6. Adding'
        BY DEF Adding, Mutex, OwnNames, OneRow, Deleting
    <2>7. Deleting'
        BY DEF Deleting, Mutex, Adding, OwnNames, OneRow
    <2>8. Listed'
        BY DEF Listed, Mutex, Adding, Deleting, OwnNames
    <2>9. CreatedStays'
        BY DEF CreatedStays, Answered, Mutex, Adding, Deleting, OneRow
    <2>10. FailedAddLeavesNothing'
        BY DEF FailedAddLeavesNothing, Answered, Mutex, Adding, Deleting, OwnNames
    <2> QED
        BY <2>1, <2>2, <2>3, <2>4, <2>5, <2>6, <2>7, <2>8, <2>9, <2>10
<1>2. ASSUME NEW a \in Adds, WriteFile(a) PROVE YaraInv'
    <2> USE <1>2 DEF WriteFile, At, Goto, Return, rules, clamd, process
    <2>1. TypeOK'
        BY DEF Deleting
    <2>2. Mutex'
        BY DEF Mutex, Adding
    <2>3. Answered'
        BY DEF Answered, Mutex
    <2>4. OwnNames'
        BY DEF OwnNames, Deleting
    <2>5. OneRow'
        BY DEF OneRow
    <2>6. Adding'
        BY DEF Adding, Mutex, OwnNames, OneRow, Deleting
    <2>7. Deleting'
        BY DEF Deleting, Mutex, Adding, OwnNames, OneRow
    <2>8. Listed'
        BY DEF Listed, Mutex, Adding, Deleting, OwnNames
    <2>9. CreatedStays'
        BY DEF CreatedStays, Answered, Mutex, Adding, Deleting, OneRow
    <2>10. FailedAddLeavesNothing'
        BY DEF FailedAddLeavesNothing, Answered, Mutex, Adding, Deleting, OwnNames
    <2> QED
        BY <2>1, <2>2, <2>3, <2>4, <2>5, <2>6, <2>7, <2>8, <2>9, <2>10
<1>3. ASSUME NEW a \in Adds, InsertYARARule(a) PROVE YaraInv'
    <2> USE <1>3 DEF InsertYARARule, At, Goto, DbOutcomes, NameTaken, rules, clamd, process
    <2>1. TypeOK'
        BY DEF Deleting
    <2>2. Mutex'
        BY DEF Mutex, Adding
    <2>3. Answered'
        BY DEF Answered, Mutex
    <2>4. OwnNames'
        BY DEF OwnNames, Deleting
    <2>5. OneRow'
        BY DEF OneRow
    <2>6. Adding'
        BY DEF Adding, Mutex, OwnNames, OneRow, Deleting
    <2>7. Deleting'
        BY DEF Deleting, Mutex, Adding, OwnNames, OneRow
    <2>8. Listed'
        BY DEF Listed, Mutex, Adding, Deleting, OwnNames
    <2>9. CreatedStays'
        BY DEF CreatedStays, Answered, Mutex, Adding, Deleting, OneRow
    <2>10. FailedAddLeavesNothing'
        BY DEF FailedAddLeavesNothing, Answered, Mutex, Adding, Deleting, OwnNames
    <2> QED
        BY <2>1, <2>2, <2>3, <2>4, <2>5, <2>6, <2>7, <2>8, <2>9, <2>10
<1>4. ASSUME NEW a \in Adds, ReloadForAdd(a) PROVE YaraInv'
    <2> USE <1>4 DEF ReloadForAdd, At, Goto, Return, AskReload, ClamdRestarts, Rollback, rules, clamd, process
    <2>1. TypeOK'
        <3>1. pending' \in BOOLEAN
            OBVIOUS
        <3>2. mu' \in Requests \cup {NoRequest}
            OBVIOUS
        <3>3. pc' \in [Requests -> {"idle", "write", "insert", "reload", "unfile", "unrow",
                               "unlink", "delete", "done"}]
            OBVIOUS
        <3>4. reply' \in [Requests -> {"none", "created", "exists", "unknown", "deleted", "error"}]
            OBVIOUS
        <3> QED
            BY <3>1, <3>2, <3>3, <3>4
    <2>2. Mutex'
        BY DEF Mutex, Adding
    <2>3. Answered'
        BY DEF Answered, Mutex
    <2>4. OwnNames'
        BY DEF OwnNames, Deleting
    <2>5. OneRow'
        BY DEF OneRow
    <2>6. Adding'
        BY DEF Adding, Mutex, OwnNames, OneRow, Deleting
    <2>7. Deleting'
        BY DEF Deleting, Mutex, Adding, OwnNames, OneRow
    <2>8. Listed'
        BY DEF Listed, Mutex, Adding, Deleting, OwnNames
    <2>9. CreatedStays'
        BY DEF CreatedStays, Answered, Mutex, Adding, Deleting, OneRow
    <2>10. FailedAddLeavesNothing'
        BY DEF FailedAddLeavesNothing, Answered, Mutex, Adding, Deleting, OwnNames
    <2> QED
        BY <2>1, <2>2, <2>3, <2>4, <2>5, <2>6, <2>7, <2>8, <2>9, <2>10
<1>5. ASSUME NEW a \in Adds, RemoveOwnFile(a) PROVE YaraInv'
    <2> USE <1>5 DEF RemoveOwnFile, At, Goto, Return, RemoveFile, rules, clamd, process
    <2>1. TypeOK'
        BY DEF Deleting
    <2>2. Mutex'
        BY DEF Mutex, Adding
    <2>3. Answered'
        BY DEF Answered, Mutex
    <2>4. OwnNames'
        BY DEF OwnNames, Deleting
    <2>5. OneRow'
        BY DEF OneRow
    <2>6. Adding'
        BY DEF Adding, Mutex, OwnNames, OneRow, Deleting
    <2>7. Deleting'
        BY DEF Deleting, Mutex, Adding, OwnNames, OneRow
    <2>8. Listed'
        BY DEF Listed, Mutex, Adding, Deleting, OwnNames
    <2>9. CreatedStays'
        BY DEF CreatedStays, Answered, Mutex, Adding, Deleting, OneRow
    <2>10. FailedAddLeavesNothing'
        BY DEF FailedAddLeavesNothing, Answered, Mutex, Adding, Deleting, OwnNames
    <2> QED
        BY <2>1, <2>2, <2>3, <2>4, <2>5, <2>6, <2>7, <2>8, <2>9, <2>10
<1>6. ASSUME NEW a \in Adds, RemoveOwnRow(a) PROVE YaraInv'
    <2> USE <1>6 DEF RemoveOwnRow, At, Return, DbOutcomes, rules, clamd, process
    <2>1. TypeOK'
        BY DEF Deleting
    <2>2. Mutex'
        BY DEF Mutex, Adding
    <2>3. Answered'
        BY DEF Answered, Mutex
    <2>4. OwnNames'
        BY DEF OwnNames, Deleting
    <2>5. OneRow'
        BY DEF OneRow
    <2>6. Adding'
        BY DEF Adding, Mutex, OwnNames, OneRow, Deleting
    <2>7. Deleting'
        BY DEF Deleting, Mutex, Adding, OwnNames, OneRow
    <2>8. Listed'
        BY DEF Listed, Mutex, Adding, Deleting, OwnNames
    <2>9. CreatedStays'
        BY DEF CreatedStays, Answered, Mutex, Adding, Deleting, OneRow
    <2>10. FailedAddLeavesNothing'
        BY DEF FailedAddLeavesNothing, Answered, Mutex, Adding, Deleting, OwnNames
    <2> QED
        BY <2>1, <2>2, <2>3, <2>4, <2>5, <2>6, <2>7, <2>8, <2>9, <2>10
<1>7. ASSUME NEW d \in Deletes, BeginDelete(d) PROVE YaraInv'
    <2> USE <1>7 DEF BeginDelete, MutexFree, Return, rules, clamd, process
    <2>1. TypeOK'
        BY DEF Deleting
    <2>2. Mutex'
        BY DEF Mutex, Adding
    <2>3. Answered'
        BY DEF Answered, Mutex
    <2>4. OwnNames'
        BY DEF OwnNames, Deleting
    <2>5. OneRow'
        BY DEF OneRow
    <2>6. Adding'
        BY DEF Adding, Mutex, OwnNames, OneRow, Deleting
    <2>7. Deleting'
        BY DEF Deleting, Mutex, Adding, OwnNames, OneRow
    <2>8. Listed'
        BY DEF Listed, Mutex, Adding, Deleting, OwnNames
    <2>9. CreatedStays'
        BY DEF CreatedStays, Answered, Mutex, Adding, Deleting, OneRow
    <2>10. FailedAddLeavesNothing'
        BY DEF FailedAddLeavesNothing, Answered, Mutex, Adding, Deleting, OwnNames
    <2> QED
        BY <2>1, <2>2, <2>3, <2>4, <2>5, <2>6, <2>7, <2>8, <2>9, <2>10
<1>8. ASSUME NEW d \in Deletes, UnlinkRule(d) PROVE YaraInv'
    <2> USE <1>8 DEF UnlinkRule, At, Goto, RemoveFile, rules, clamd, process
    <2>1. TypeOK'
        BY DEF Deleting
    <2>2. Mutex'
        BY DEF Mutex, Adding
    <2>3. Answered'
        BY DEF Answered, Mutex
    <2>4. OwnNames'
        BY DEF OwnNames, Deleting
    <2>5. OneRow'
        BY DEF OneRow
    <2>6. Adding'
        BY DEF Adding, Mutex, OwnNames, OneRow, Deleting
    <2>7. Deleting'
        BY DEF Deleting, Mutex, Adding, OwnNames, OneRow
    <2>8. Listed'
        BY DEF Listed, Mutex, Adding, Deleting, OwnNames
    <2>9. CreatedStays'
        BY DEF CreatedStays, Answered, Mutex, Adding, Deleting, OneRow
    <2>10. FailedAddLeavesNothing'
        BY DEF FailedAddLeavesNothing, Answered, Mutex, Adding, Deleting, OwnNames
    <2> QED
        BY <2>1, <2>2, <2>3, <2>4, <2>5, <2>6, <2>7, <2>8, <2>9, <2>10
<1>9. ASSUME NEW d \in Deletes, DeleteYARARule(d) PROVE YaraInv'
    <2> USE <1>9 DEF DeleteYARARule, At, Goto, Return, rules, clamd, process
    <2>1. TypeOK'
        BY DEF Deleting
    <2>2. Mutex'
        BY DEF Mutex, Adding
    <2>3. Answered'
        BY DEF Answered, Mutex
    <2>4. OwnNames'
        BY DEF OwnNames, Deleting
    <2>5. OneRow'
        BY DEF OneRow
    <2>6. Adding'
        BY DEF Adding, Mutex, OwnNames, OneRow, Deleting
    <2>7. Deleting'
        BY DEF Deleting, Mutex, Adding, OwnNames, OneRow
    <2>8. Listed'
        BY DEF Listed, Mutex, Adding, Deleting, OwnNames
    <2>9. CreatedStays'
        BY DEF CreatedStays, Answered, Mutex, Adding, Deleting, OneRow
    <2>10. FailedAddLeavesNothing'
        BY DEF FailedAddLeavesNothing, Answered, Mutex, Adding, Deleting, OwnNames
    <2> QED
        BY <2>1, <2>2, <2>3, <2>4, <2>5, <2>6, <2>7, <2>8, <2>9, <2>10
<1>10. ASSUME NEW d \in Deletes, ReloadForDelete(d) PROVE YaraInv'
    <2> USE <1>10 DEF ReloadForDelete, At, Return, AskReload, ClamdRestarts, rules, clamd, process
    <2>1. TypeOK'
        <3>1. pending' \in BOOLEAN
            OBVIOUS
        <3>2. mu' \in Requests \cup {NoRequest}
            OBVIOUS
        <3>3. pc' \in [Requests -> {"idle", "write", "insert", "reload", "unfile", "unrow",
                               "unlink", "delete", "done"}]
            OBVIOUS
        <3>4. reply' \in [Requests -> {"none", "created", "exists", "unknown", "deleted", "error"}]
            OBVIOUS
        <3> QED
            BY <3>1, <3>2, <3>3, <3>4
    <2>2. Mutex'
        BY DEF Mutex, Adding
    <2>3. Answered'
        BY DEF Answered, Mutex
    <2>4. OwnNames'
        BY DEF OwnNames, Deleting
    <2>5. OneRow'
        BY DEF OneRow
    <2>6. Adding'
        BY DEF Adding, Mutex, OwnNames, OneRow, Deleting
    <2>7. Deleting'
        BY DEF Deleting, Mutex, Adding, OwnNames, OneRow
    <2>8. Listed'
        BY DEF Listed, Mutex, Adding, Deleting, OwnNames
    <2>9. CreatedStays'
        BY DEF CreatedStays, Answered, Mutex, Adding, Deleting, OneRow
    <2>10. FailedAddLeavesNothing'
        BY DEF FailedAddLeavesNothing, Answered, Mutex, Adding, Deleting, OwnNames
    <2> QED
        BY <2>1, <2>2, <2>3, <2>4, <2>5, <2>6, <2>7, <2>8, <2>9, <2>10
<1>11. ASSUME ClamdLoads PROVE YaraInv'
    <2> USE <1>11 DEF ClamdLoads, ReadRule, rules, clamd, process
    <2>1. TypeOK'
        OBVIOUS
    <2>2. QED
        BY <2>1 DEF Mutex, Answered, OwnNames, OneRow, Adding, Deleting, Listed, CreatedStays, FailedAddLeavesNothing
<1>12. ASSUME FreshclamNotifies PROVE YaraInv'
    <2> USE <1>12 DEF FreshclamNotifies, rules, clamd, process
    <2>1. TypeOK'
        OBVIOUS
    <2>2. QED
        BY <2>1 DEF Mutex, Answered, OwnNames, OneRow, Adding, Deleting, Listed, CreatedStays, FailedAddLeavesNothing
<1>13. ASSUME ClamdExits PROVE YaraInv'
    <2> USE <1>13 DEF ClamdExits, ClamdRestarts, rules, clamd, process
    <2>1. TypeOK'
        OBVIOUS
    <2>2. QED
        BY <2>1 DEF Mutex, Answered, OwnNames, OneRow, Adding, Deleting, Listed, CreatedStays, FailedAddLeavesNothing
<1>14. ASSUME Crash PROVE YaraInv'
    <2> USE <1>14 DEF Crash, rules, clamd, process
    <2>1. TypeOK'
        BY DEF Deleting
    <2>2. Mutex'
        BY DEF Mutex, Adding
    <2>3. Answered'
        BY DEF Answered, Mutex
    <2>4. OwnNames'
        BY DEF OwnNames, Deleting
    <2>5. OneRow'
        BY DEF OneRow
    <2>6. Adding'
        BY DEF Adding, Mutex, OwnNames, OneRow, Deleting
    <2>7. Deleting'
        BY DEF Deleting, Mutex, Adding, OwnNames, OneRow
    <2>8. Listed'
        BY DEF Listed, Mutex, Adding, Deleting, OwnNames
    <2>9. CreatedStays'
        BY DEF CreatedStays, Answered, Mutex, Adding, Deleting, OneRow
    <2>10. FailedAddLeavesNothing'
        BY DEF FailedAddLeavesNothing, Answered, Mutex, Adding, Deleting, OwnNames
    <2> QED
        BY <2>1, <2>2, <2>3, <2>4, <2>5, <2>6, <2>7, <2>8, <2>9, <2>10
<1>15. ASSUME Boot PROVE YaraInv'
    <2> USE <1>15 DEF Boot, rules, clamd, process
    <2>1. TypeOK'
        OBVIOUS
    <2>2. QED
        BY <2>1 DEF Mutex, Answered, OwnNames, OneRow, Adding, Deleting, Listed, CreatedStays, FailedAddLeavesNothing
<1>16. CASE Rest \/ UNCHANGED vars
    BY <1>16 DEF Rest, vars, rules, clamd, process, Mutex, Answered, OwnNames, OneRow, Adding, Deleting, Listed, CreatedStays, FailedAddLeavesNothing
<1> QED
    BY <1>1, <1>2, <1>3, <1>4, <1>5, <1>6, <1>7, <1>8, <1>9, <1>10, <1>11, <1>12, <1>13, <1>14, <1>15, <1>16 DEF Next, AddRule, DeleteRule

LEMMA YaraAlways == Spec => []YaraInv
BY YaraInit, YaraStep, PTL DEF Spec

\* Every variable keeps its type.
THEOREM YaraTypes == Spec => []TypeOK
BY YaraAlways, PTL DEF YaraInv

\* AddRule answered 201: file and row stay until a DeleteRule names the rule
\* (manager.go:38-133).
THEOREM CreatedStaysAlways == Spec => []CreatedStays
BY YaraAlways, PTL DEF YaraInv

\* A refused AddRule leaves nothing, unless it was cut short (manager.go:54-90).
THEOREM FailedAddLeavesNothingAlways == Spec => []FailedAddLeavesNothing
BY YaraAlways, PTL DEF YaraInv

\* Between requests the directory holds no rule the API does not list, unless
\* it was cut short (manager.go:77-88, 116-123).
THEOREM FilesAreListedAlways == Spec => []FilesAreListed
<1>1. YaraInv => FilesAreListed
    BY DEF YaraInv, TypeOK, Listed, FilesAreListed, Requests
<1> QED
    BY <1>1, YaraAlways, PTL
=============================================================================
