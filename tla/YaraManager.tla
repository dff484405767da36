---------------------------- MODULE YaraManager ----------------------------
(***************************************************************************)
(* Custom YARA rules (internal/yara/manager.go): AddRule and DeleteRule keep *)
(* three places together under one mutex, the rules directory, the table    *)
(* yara_rules and the rules clamd has loaded. Every step can fail, and the  *)
(* process can be killed between any two.                                   *)
(***************************************************************************)
EXTENDS Naturals, FiniteSets

CONSTANTS
    Adds,           \* AddRule requests with a valid rule; each names the row it makes
    Deletes,        \* DeleteRule requests
    Names,          \* rule names
    NameOf,         \* the rule name of each AddRule
    DbFaults,       \* whether a statement on yara_rules can fail
    RemoveFaults,   \* whether os.Remove can fail
    Crashes,        \* whether the process can be killed
    MaxBoots,       \* bound: how often the service is started
    NoRule, Torn, NoRequest

ASSUME YaraConstants ==
    /\ NameOf \in [Adds -> Names]
    /\ DbFaults \in BOOLEAN /\ RemoveFaults \in BOOLEAN /\ Crashes \in BOOLEAN
    /\ MaxBoots \in Nat \ {0}
    /\ Adds \cap Deletes = {} /\ NoRequest \notin Adds \cup Deletes
    /\ NoRule \notin Adds /\ Torn \notin Adds /\ NoRule # Torn

VARIABLES
    file,       \* <name>.yara: the AddRule that wrote it, NoRule, or Torn
    rows,       \* the AddRules with a row in yara_rules
    loaded,     \* what clamd has loaded of each name
    pending,    \* clamd has to load the rules directory and has not done it
    mu,         \* the request that holds Manager.mu, or NoRequest
    pc,         \* where each request is
    victim,     \* the rule a DeleteRule is about
    reply,      \* what each request was answered
    up, boots,
    cut         \* the AddRules whose rule a kill or an ignored error left half done

rules   == <<file, rows>>
clamd   == <<loaded, pending>>
process == <<up, boots>>
vars == <<rules, clamd, mu, pc, victim, reply, process, cut>>

Requests == Adds \cup Deletes
DbOutcomes == IF DbFaults THEN BOOLEAN ELSE {TRUE}

Init ==
    /\ file = [n \in Names |-> NoRule]
    /\ rows = {}
    /\ loaded = [n \in Names |-> NoRule]
    /\ pending = FALSE
    /\ mu = NoRequest
    /\ pc = [q \in Requests |-> "idle"]
    /\ victim = [q \in Requests |-> NoRule]
    /\ reply = [q \in Requests |-> "none"]
    /\ up = TRUE /\ boots = 1 /\ cut = {}

Goto(q, where) == pc' = [pc EXCEPT ![q] = where] /\ UNCHANGED <<mu, reply>>

\* Return, which unlocks.
Return(q, what) ==
    /\ pc' = [pc EXCEPT ![q] = "done"]
    /\ reply' = [reply EXCEPT ![q] = what]
    /\ mu' = NoRequest

At(q, where) == up /\ pc[q] = where

LockForgotten == TRUE
MutexFree == mu = NoRequest

-----------------------------------------------------------------------------
(* AddRule *)

FileExists(n) == file[n] # NoRule

\* Lock, ValidateRule, MkdirAll and Stat.
BeginAdd(a) ==
    /\ up /\ pc[a] = "idle" /\ MutexFree
    /\ \/ FileExists(NameOf[a]) /\ Return(a, "exists")
       \/ /\ ~FileExists(NameOf[a])
          /\ pc' = [pc EXCEPT ![a] = "write"] /\ mu' = a /\ UNCHANGED reply
    /\ UNCHANGED <<rules, clamd, victim, process, cut>>

\* os.WriteFile; what a failed write leaves behind stays there.
WriteFile(a) ==
    /\ At(a, "write")
    /\ \/ file' = [file EXCEPT ![NameOf[a]] = a] /\ Goto(a, "insert")
       \/ \E left \in {NoRule, Torn} :
            file' = [file EXCEPT ![NameOf[a]] = left] /\ Return(a, "error")
    /\ UNCHANGED <<rows, clamd, victim, process, cut>>

\* rule_name is UNIQUE.
NameTaken(n) == \E b \in rows : NameOf[b] = n

InsertYARARule(a) ==
    /\ At(a, "insert")
    /\ \E ok \in DbOutcomes :
        IF ok /\ ~NameTaken(NameOf[a])
        THEN rows' = rows \cup {a} /\ Goto(a, "reload")
        ELSE Goto(a, "unfile") /\ UNCHANGED rows
    /\ UNCHANGED <<file, clamd, victim, process, cut>>

\* clamd has ended and runClamd starts it again: it has nothing loaded, and
\* loads the rules directory.
ClamdRestarts ==
    /\ loaded' = [n \in Names |-> NoRule]
    /\ pending' = TRUE

\* clamd.Reload. Success: clamd took the RELOAD, or ended with the connection
\* open, since an empty answer holds no ERROR. Failure: clamd took it and the
\* answer was lost (the client closed the request), or it was not delivered.
SkipReload(success, failure) == UNCHANGED clamd /\ success
AskReload(success, failure) ==
    \/ pending' = TRUE /\ UNCHANGED loaded /\ success
    \/ ClamdRestarts /\ success
    \/ (pending' = TRUE \/ UNCHANGED pending) /\ UNCHANGED loaded /\ failure

\* What follows a failed reload: the file is removed, then the row.
RollbackForgotten(a) == Return(a, "error")
RetryReload(a) == Goto(a, "reload")
Rollback(a) == Goto(a, "unfile")

ReloadForAdd(a) ==
    /\ At(a, "reload")
    /\ AskReload(Return(a, "created"), Rollback(a))
    /\ UNCHANGED <<rules, victim, process, cut>>

\* os.Remove of a's rule file; every caller ignores its error.
KeepFile(a) == UNCHANGED <<file, cut>>
RemoveFile(a) ==
    \/ file' = [file EXCEPT ![NameOf[a]] = NoRule] /\ UNCHANGED cut
    \/ RemoveFaults /\ cut' = cut \cup {a} /\ UNCHANGED file

\* The file just written, after a failed insert or reload.
RemoveOwnFile(a) ==
    /\ At(a, "unfile")
    /\ RemoveFile(a)
    /\ IF a \in rows THEN Goto(a, "unrow") ELSE Return(a, "error")
    /\ UNCHANGED <<rows, clamd, victim, process>>

\* DeleteYARARule as part of the rollback; its error is ignored.
RemoveOwnRow(a) ==
    /\ At(a, "unrow")
    /\ \E ok \in DbOutcomes :
        /\ rows' = IF ok THEN rows \ {a} ELSE rows
        /\ cut' = IF ok THEN cut ELSE cut \cup {a}
    /\ Return(a, "error")
    /\ UNCHANGED <<file, clamd, victim, process>>

AddRule(a) ==
    \/ BeginAdd(a) \/ WriteFile(a) \/ InsertYARARule(a) \/ ReloadForAdd(a)
    \/ RemoveOwnFile(a) \/ RemoveOwnRow(a)

-----------------------------------------------------------------------------
(* DeleteRule *)

\* Lock and GetYARARule.
BeginDelete(d) ==
    /\ up /\ pc[d] = "idle" /\ MutexFree
    /\ \/ Return(d, "unknown") /\ UNCHANGED victim
       \/ \E a \in rows :
            /\ victim' = [victim EXCEPT ![d] = a]
            /\ pc' = [pc EXCEPT ![d] = "unlink"] /\ mu' = d /\ UNCHANGED reply
    /\ UNCHANGED <<rules, clamd, process, cut>>

UnlinkRule(d) ==
    /\ At(d, "unlink")
    /\ RemoveFile(victim[d])
    /\ Goto(d, "delete")
    /\ UNCHANGED <<rows, clamd, victim, process>>

DeleteYARARule(d) ==
    /\ At(d, "delete")
    /\ \/ rows' = rows \ {victim[d]} /\ Goto(d, "reload")
       \/ DbFaults /\ Return(d, "error") /\ UNCHANGED rows
    /\ UNCHANGED <<file, clamd, victim, process, cut>>

\* A failed reload is reported; file and row are gone.
ReloadForDelete(d) ==
    /\ At(d, "reload")
    /\ AskReload(Return(d, "deleted"), Return(d, "error"))
    /\ UNCHANGED <<rules, victim, process, cut>>

DeleteRule(d) == BeginDelete(d) \/ UnlinkRule(d) \/ DeleteYARARule(d) \/ ReloadForDelete(d)

-----------------------------------------------------------------------------
(* clamd and the process *)

\* What clamd makes of a rule file: a torn one is skipped.
ReadTorn(n) == file[n]
ReadRule(n) == IF file[n] = Torn THEN NoRule ELSE file[n]

\* clamd reads the rules directory some time after it answered RELOADING.
ClamdLoads ==
    /\ up /\ pending
    /\ loaded' = [n \in Names |-> ReadRule(n)]
    /\ pending' = FALSE
    /\ UNCHANGED <<rules, mu, pc, victim, reply, process, cut>>

\* freshclam has fetched signatures and tells clamd to reload (NotifyClamd).
FreshclamNotifies ==
    /\ up /\ pending' = TRUE
    /\ UNCHANGED <<rules, loaded, mu, pc, victim, reply, process, cut>>

\* clamd ends on its own at any time.
ClamdExits ==
    /\ up /\ ClamdRestarts
    /\ UNCHANGED <<rules, mu, pc, victim, reply, process, cut>>

\* The container is killed, and clamd, its child, with it; a rule that was being
\* written may be torn.
Crash ==
    /\ Crashes /\ up
    /\ up' = FALSE
    /\ mu' = NoRequest
    /\ pc' = [q \in Requests |-> IF pc[q] = "idle" THEN "idle" ELSE "done"]
    /\ cut' = cut \cup {a \in Adds : pc[a] \notin {"idle", "done"}}
    /\ loaded' = [n \in Names |-> NoRule] /\ pending' = FALSE
    /\ \/ UNCHANGED file
       \/ \E a \in Adds : pc[a] = "write" /\ file' = [file EXCEPT ![NameOf[a]] = Torn]
    /\ UNCHANGED <<rows, victim, reply, boots>>

\* A new process: nothing compares the directory with the table. Its clamd
\* loads the directory.
Boot ==
    /\ ~up /\ boots < MaxBoots
    /\ up' = TRUE /\ boots' = boots + 1 /\ pending' = TRUE
    /\ UNCHANGED <<rules, loaded, mu, pc, victim, reply, cut>>

Finished == (\A q \in Requests : pc[q] = "done") /\ ~pending
Rest == (Finished \/ (~up /\ boots = MaxBoots)) /\ UNCHANGED vars

Next ==
    \/ \E a \in Adds : AddRule(a)
    \/ \E d \in Deletes : DeleteRule(d)
    \/ ClamdLoads \/ FreshclamNotifies \/ ClamdExits \/ Crash \/ Boot \/ Rest

Spec == Init /\ [][Next]_vars

\* A request that holds the mutex runs, but for the wait for clamd: Reload sets
\* no deadline. clamd carries out a load it owes, and the service is started again.
Runs(q) == pc[q] \notin {"idle", "reload"}
FairSpec ==
    /\ Spec
    /\ \A a \in Adds : WF_vars(Runs(a) /\ AddRule(a))
    /\ \A d \in Deletes : WF_vars(Runs(d) /\ DeleteRule(d))
    /\ WF_vars(ClamdLoads) /\ WF_vars(Boot)

\* What the code relies on: clamd answers a RELOAD, or its connection ends.
ReloadEnds ==
    /\ \A a \in Adds : WF_vars(ReloadForAdd(a))
    /\ \A d \in Deletes : WF_vars(ReloadForDelete(d))

-----------------------------------------------------------------------------
(* Properties *)

\* Every variable has its type.
TypeOK ==
    /\ file \in [Names -> Adds \cup {NoRule, Torn}]
    /\ rows \subseteq Adds
    /\ loaded \in [Names -> Adds \cup {NoRule}]
    /\ pending \in BOOLEAN /\ up \in BOOLEAN /\ boots \in 1..MaxBoots
    /\ mu \in Requests \cup {NoRequest}
    /\ pc \in [Requests -> {"idle", "write", "insert", "reload", "unfile", "unrow",
                            "unlink", "delete", "done"}]
    /\ victim \in [Requests -> Adds \cup {NoRule}]
    /\ reply \in [Requests -> {"none", "created", "exists", "unknown", "deleted", "error"}]
    /\ cut \subseteq Adds

\* A rule answered 201 keeps its file and its row until a DeleteRule names it,
\* whatever other requests for the same name and crashes do.
CreatedStays ==
    \A a \in Adds :
        reply[a] = "created" /\ (\A d \in Deletes : victim[d] # a) =>
            a \in rows /\ file[NameOf[a]] = a

\* An AddRule that was refused for any reason leaves neither a row nor its own
\* rule in the directory, unless it was cut short.
FailedAddLeavesNothing ==
    \A a \in Adds :
        pc[a] = "done" /\ reply[a] \in {"error", "exists"} /\ a \notin cut =>
            a \notin rows /\ file[NameOf[a]] # a

\* Between requests, a rule in the directory has its own row, but for what was
\* cut short: what clamd loads next is what the API lists.
FilesAreListed ==
    (\A q \in Requests : pc[q] \in {"idle", "done"}) =>
        \A n \in Names : file[n] \in Adds \ cut => file[n] \in rows

\* As long as clamd ends every RELOAD, a request that has locked the mutex
\* releases it, whatever fails. One silent clamd holds it for ever.
RequestsEnd ==
    ReloadEnds => \A q \in Requests : (pc[q] # "idle") ~> (pc[q] = "done")

\* A created rule reaches clamd, also when clamd or the container ends first,
\* unless it is deleted or the service is not started again.
CreatedIsLoaded ==
    \A a \in Adds :
        (reply[a] = "created") ~>
            (\/ loaded[NameOf[a]] = a
             \/ \E d \in Deletes : victim[d] = a
             \/ ~up /\ boots = MaxBoots)

\* A deleted rule leaves clamd, unless its file could not be removed.
DeletedIsUnloaded ==
    \A d \in Deletes :
        (reply[d] = "deleted") ~> ((\A n \in Names : loaded[n] # victim[d]) \/ victim[d] \in cut)

-----------------------------------------------------------------------------
(* What the documentation says *)

\* "Jika gagal, operasi penambahan aturan di-rollback secara otomatis"
\* (DCD-03:70): once clamd has nothing left to load, a rule whose addition
\* failed is not in it. The rollback removes file and row and sends no RELOAD.
FailedAddIsUnloaded ==
    \A a \in Adds : reply[a] = "error" /\ ~pending => loaded[NameOf[a]] # a
=============================================================================
