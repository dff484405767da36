--------------------------- MODULE ScanPathProofs ---------------------------
(***************************************************************************)
(* Proofs about the way of a body to its verdict, for every limit, chunk    *)
(* size, length, set of names and set of addresses.                         *)
(***************************************************************************)
EXTENDS ScanPath, TLAPS

\* clamd was not called yet.
Before == {"idle", "resolve", "dial", "respond", "redirect", "read", "receive", "upload",
           "check", "connect"}

\* Checksum and whitelist were passed; the whole stream was sent.
Accepted ==
    pc \in {"connect", "chunks", "await", "quarantine", "audit", "alert"}
    \/ reply \in {"CLEAN", "INFECTED"}
Submitted == pc \in {"await", "quarantine", "audit", "alert"} \/ reply \in {"CLEAN", "INFECTED"}

\* What the handler holds: never more than was sent to it or than it allows. A
\* read of a URL that has got everything, and can know it, is not read again.
Held ==
    /\ pc # "idle" => req \in PossibleRequests /\ got <= req.len
    /\ got <= MaxBytes
    /\ pc \in {"resolve", "dial", "respond", "redirect", "read"} => req.route = "url"
    /\ pc = "receive" => req.route = "grpc"
    /\ pc = "upload" => req.route = "file"
    /\ pc = "read" /\ req.framing = "length" /\ got = req.len => got = 0
    /\ pc \notin {"read", "receive"} /\ pc \in Before \ {"check", "connect"} => got = 0
    /\ pc = "check" \/ Accepted \/ reply = "WHITELISTED" =>
        req.route # "file" \/ got + Overhead <= MaxBytes
    /\ reply = "WHITELISTED" => Whole
    /\ pc = "check" \/ Accepted => got = req.len \/ (broken /\ req.framing = "close")
    /\ Accepted => ChecksumFits

\* What clamd has got and said.
Heard ==
    /\ sent <= got
    /\ Submitted => sent = got
    /\ pc \in Before => sent = 0 /\ text = {} /\ conn = "none"
    /\ pc = "chunks" => text \subseteq {"ERROR"}
    /\ conn = "open" => text = {}
    /\ "OK" \in text => ~Found
    /\ "FOUND" \in text => Found
    /\ text \cap RuleNames # {} => Found /\ text \cap RuleNames = {req.name}

\* What was made of it.
Recorded ==
    /\ pc # "done" => reply = "none"
    /\ pc \in {"audit", "quarantine", "alert"} => verdict \in {"CLEAN", "INFECTED"}
    /\ pc \in {"quarantine", "alert"} => verdict = "INFECTED"
    /\ verdict = "INFECTED" => "FOUND" \in text
    /\ verdict = "CLEAN" => ContainsOK
    /\ pc \in Before \cup {"chunks", "await"} => verdict = "none"
    /\ pc \notin {"audit", "alert", "done"} => audit = "none" /\ ~alerted
    /\ audit \in {"none", verdict}
    /\ quarID => "FOUND" \in text
    /\ reply \in {"CLEAN", "INFECTED"} => reply = verdict
    /\ reply = "INFECTED" => alerted
    /\ pc = "done" /\ audit # "none" => reply = verdict

ScanInv ==
    /\ ScanTypeOK /\ Held /\ Heard /\ Recorded
    /\ DialsOnlyAllowed /\ LimitIsApplied

\* What is known of a request, without its other fields.
LEMMA Requested ==
    ASSUME NEW r \in PossibleRequests
    PROVE  /\ r.route \in Routes /\ r.len \in Nat /\ r.infected \in BOOLEAN /\ r.name \in RuleNames
           /\ r.len = 0 => ~r.infected
           /\ r.route # "url" => r.framing = "length"
<1>1. r \in RequestTypes
    BY DEF PossibleRequests
<1>2. r.route \in Routes /\ r.len \in 0..MaxLen /\ r.infected \in BOOLEAN /\ r.name \in RuleNames
    BY <1>1 DEF RequestTypes
<1>3. (r.len = 0 => ~r.infected) /\ (r.route # "url" => r.framing = "length")
    BY DEF PossibleRequests
<1> QED
    BY <1>2, <1>3, ScanConstants DEF ScanConstants

LEMMA ScanInit == Init => ScanInv
<1> SUFFICES ASSUME Init PROVE ScanInv
    OBVIOUS
<1> USE ScanConstants DEF ScanConstants, Init
<1>1. ScanTypeOK
    BY DEF ScanTypeOK, Pcs, Verdicts
<1>2. Held
    BY DEF Held, Before, Accepted
<1>3. Heard
    BY DEF Heard, Before, Submitted
<1>4. Recorded
    BY DEF Recorded, Before
<1> QED
    BY <1>1, <1>2, <1>3, <1>4 DEF ScanInv, DialsOnlyAllowed, LimitIsApplied

\* What a Read of the body of a URL comes to.
LEMMA ReadOutcome ==
    ASSUME ScanInv, ReadBody
    PROVE  /\ pc = "read" /\ UNCHANGED <<req, fetching, scanning, records>> /\ broken' \in BOOLEAN
           /\ \/ pc' = "done" /\ reply' = "DOWNLOAD_FAILED" /\ got' = got
              \/ /\ pc' = "done" /\ reply' = "FILE_TOO_LARGE" /\ got' = got
                 /\ req.len > MaxBytes \/ (got = MaxBytes /\ got <= req.len /\ req.framing # "length")
              \/ /\ pc' = "check" /\ reply' = reply
                 /\ got' \in Nat /\ got' <= MaxBytes /\ got' <= req.len
                 /\ got' = req.len \/ (broken' /\ req.framing = "close")
              \/ /\ pc' = "read" /\ reply' = reply
                 /\ got' \in Nat /\ got' <= MaxBytes /\ got' <= req.len
                 /\ ~(got' = req.len /\ req.framing = "length")
<1> USE ScanConstants DEF ScanConstants, Goto, Answer
<1>1. pc = "read" /\ UNCHANGED <<req, fetching, scanning, records>> /\ broken' \in BOOLEAN
    BY DEF ReadBody, BodyCut, ScanInv, ScanTypeOK
<1>2. /\ req \in PossibleRequests /\ req.len \in Nat /\ got \in Nat
      /\ got <= req.len /\ got <= MaxBytes
      /\ req.framing = "length" /\ got = req.len => got = 0
    BY <1>1, Requested DEF ScanInv, ScanTypeOK, Held
<1>3. CASE BodyCut
    BY <1>1, <1>2, <1>3 DEF BodyCut, ErrorOnCut
<1>4. CASE BoundedRead /\ got >= MaxBytes
    BY <1>1, <1>2, <1>4 DEF BoundedRead, RefuseAtLimit
<1>5. CASE BoundedRead /\ ~(got >= MaxBytes)
    <2>1. PICK n \in 0..(MaxBytes - got), eof \in BOOLEAN :
            /\ got + n <= req.len /\ BodyRead(n, eof)
            /\ \/ eof /\ got' = got + n /\ Goto("check")
               \/ ~eof /\ ProbeFinds(n) /\ Answer("FILE_TOO_LARGE") /\ UNCHANGED got
               \/ ~eof /\ ~ProbeFinds(n) /\ got' = got + n /\ Goto("read")
        BY <1>5 DEF BoundedRead
    <2>2. n \in Nat /\ got + n <= MaxBytes
        BY <1>2, <2>1
    <2>3. CASE eof
        BY <1>1, <1>2, <2>1, <2>2, <2>3 DEF BodyRead
    <2>4. CASE ~eof
        <3>1. ~(got + n = req.len /\ req.framing = "length")
            BY <2>1, <2>4 DEF BodyRead
        <3> QED
            BY <1>1, <1>2, <2>1, <2>2, <2>4, <3>1 DEF ProbeFinds
    <2> QED
        BY <2>3, <2>4
<1> QED
    BY <1>3, <1>4, <1>5 DEF ReadBody

LEMMA ScanStep == ScanInv /\ [Next]_vars => ScanInv'
<1> SUFFICES ASSUME ScanInv, [Next]_vars PROVE ScanInv'
    OBVIOUS
<1> USE ScanConstants, Requested
    DEF ScanConstants, ScanInv, ScanTypeOK, Pcs, Verdicts, fetching, scanning, records, Goto, Answer
<1>1. CASE Arrive
    <2> USE <1>1 DEF Arrive
    <2>p. req' \in PossibleRequests
        OBVIOUS
    <2>q. req'.route \in Routes
        BY <2>p, Requested
    <2>0. /\ req' \in PossibleRequests
          /\ \/ req'.route = "url" /\ pc' = "resolve"
             \/ req'.route = "file" /\ pc' = "upload"
             \/ req'.route = "grpc" /\ pc' = "receive"
        BY <2>p, <2>q DEF Routes
    <2> HIDE DEF Arrive
    <2>r. /\ UNCHANGED <<fetching, got, broken, scanning, records, reply>>
          /\ pc = "idle" /\ reply = "none" /\ got = 0 /\ req'.len \in Nat
        BY <2>0 DEF Arrive, Held, Recorded, Before
    <2> USE <2>0, <2>r
    <2>1. ScanTypeOK'
        OBVIOUS
    <2>2. Held'
        BY DEF Held, Before, Accepted, ChecksumFits, Whole, Recorded
    <2>3. Heard'
        BY DEF Heard, Before, Submitted, Found, Recorded
    <2>4. Recorded'
        BY DEF Recorded, Before, ContainsOK, Heard
    <2>5. DialsOnlyAllowed' /\ LimitIsApplied'
        BY DEF DialsOnlyAllowed, LimitIsApplied, Measured, RefusedAtLimit, Whole, Recorded, Held, Accepted
    <2> QED BY <2>1, <2>2, <2>3, <2>4, <2>5
<1>2. CASE ResolveTarget
    <2> USE <1>2 DEF ResolveTarget, Lookups, Refused
    <2>1. ScanTypeOK'
        OBVIOUS
    <2>2. Held'
        BY DEF Held, Before, Accepted, ChecksumFits, Whole, Recorded
    <2>3. Heard'
        BY DEF Heard, Before, Submitted, Found, Recorded
    <2>4. Recorded'
        BY DEF Recorded, Before, ContainsOK, Heard
    <2>5. DialsOnlyAllowed' /\ LimitIsApplied'
        BY DEF DialsOnlyAllowed, LimitIsApplied, Measured, RefusedAtLimit, Whole, Recorded, Held, Accepted
    <2> QED BY <2>1, <2>2, <2>3, <2>4, <2>5
<1>3. CASE Dial
    <2> USE <1>3 DEF Dial, DialVerified, DownloadFails, Lookups, Refused
    <2>1. ScanTypeOK'
        OBVIOUS
    <2>2. Held'
        BY DEF Held, Before, Accepted, ChecksumFits, Whole, Recorded
    <2>3. Heard'
        BY DEF Heard, Before, Submitted, Found, Recorded
    <2>4. Recorded'
        BY DEF Recorded, Before, ContainsOK, Heard
    <2>5. DialsOnlyAllowed' /\ LimitIsApplied'
        BY DEF DialsOnlyAllowed, LimitIsApplied, Measured, RefusedAtLimit, Whole, Recorded, Held, Accepted
    <2> QED BY <2>1, <2>2, <2>3, <2>4, <2>5
<1>4. CASE Respond
    <2> USE <1>4 DEF Respond, DownloadFails
    <2>1. ScanTypeOK'
        OBVIOUS
    <2>2. Held'
        BY DEF Held, Before, Accepted, ChecksumFits, Whole, Recorded
    <2>3. Heard'
        BY DEF Heard, Before, Submitted, Found, Recorded
    <2>4. Recorded'
        BY DEF Recorded, Before, ContainsOK, Heard
    <2>5. DialsOnlyAllowed' /\ LimitIsApplied'
        BY DEF DialsOnlyAllowed, LimitIsApplied, Measured, RefusedAtLimit, Whole, Recorded, Held, Accepted
    <2> QED BY <2>1, <2>2, <2>3, <2>4, <2>5
<1>5. CASE CheckRedirect
    <2> USE <1>5 DEF CheckRedirect, DownloadFails, Lookups, Refused
    <2>1. ScanTypeOK'
        OBVIOUS
    <2>2. Held'
        BY DEF Held, Before, Accepted, ChecksumFits, Whole, Recorded
    <2>3. Heard'
        BY DEF Heard, Before, Submitted, Found, Recorded
    <2>4. Recorded'
        BY DEF Recorded, Before, ContainsOK, Heard
    <2>5. DialsOnlyAllowed' /\ LimitIsApplied'
        BY DEF DialsOnlyAllowed, LimitIsApplied, Measured, RefusedAtLimit, Whole, Recorded, Held, Accepted
    <2> QED BY <2>1, <2>2, <2>3, <2>4, <2>5
<1>6. CASE ReadBody
    <2> USE <1>6, ReadOutcome
    <2>1. ScanTypeOK'
        OBVIOUS
    <2>2. Held'
        BY DEF Held, Before, Accepted, ChecksumFits, Whole, Recorded
    <2>3. Heard'
        BY DEF Heard, Before, Submitted, Found, Recorded, Held
    <2>4. Recorded'
        BY DEF Recorded, Before, ContainsOK, Heard
    <2>5. DialsOnlyAllowed' /\ LimitIsApplied'
        BY DEF DialsOnlyAllowed, LimitIsApplied, Measured, RefusedAtLimit, Whole, Recorded, Held, Accepted
    <2> QED BY <2>1, <2>2, <2>3, <2>4, <2>5
<1>7. CASE ReceiveChunk
    <2> USE <1>7 DEF ReceiveChunk, OverLimit
    <2>b. broken' \in BOOLEAN
        OBVIOUS
    <2>g. got' \in Nat /\ pc' \in Pcs /\ UNCHANGED <<req, fetching, scanning, records>>
        OBVIOUS
    <2>1. ScanTypeOK'
        BY <2>b, <2>g
    <2>2. Held'
        BY DEF Held, Before, Accepted, ChecksumFits, Whole, Recorded
    <2>3. Heard'
        BY DEF Heard, Before, Submitted, Found, Recorded, Held
    <2>4. Recorded'
        BY DEF Recorded, Before, ContainsOK, Heard
    <2>5. DialsOnlyAllowed' /\ LimitIsApplied'
        BY DEF DialsOnlyAllowed, LimitIsApplied, Measured, RefusedAtLimit, Whole, Recorded, Held, Accepted
    <2> QED BY <2>1, <2>2, <2>3, <2>4, <2>5
<1>8. CASE ParseMultipart
    <2> USE <1>8 DEF ParseMultipart, OverLimit
    <2>b. broken' \in BOOLEAN
        OBVIOUS
    <2>g. got' \in Nat /\ pc' \in Pcs /\ UNCHANGED <<req, fetching, scanning, records>>
        BY DEF Held
    <2>1. ScanTypeOK'
        BY <2>b, <2>g
    <2>2. Held'
        BY DEF Held, Before, Accepted, ChecksumFits, Whole, Recorded
    <2>3. Heard'
        BY DEF Heard, Before, Submitted, Found, Recorded, Held
    <2>4. Recorded'
        BY DEF Recorded, Before, ContainsOK, Heard
    <2>5. DialsOnlyAllowed' /\ LimitIsApplied'
        BY DEF DialsOnlyAllowed, LimitIsApplied, Measured, RefusedAtLimit, Whole, Recorded, Held, Accepted
    <2> QED BY <2>1, <2>2, <2>3, <2>4, <2>5
<1>9. CASE CheckHash
    <2> USE <1>9 DEF CheckHash
    <2>1. ScanTypeOK'
        OBVIOUS
    <2>2. Held'
        BY DEF Held, Before, Accepted, ChecksumFits, Whole, Recorded
    <2>3. Heard'
        BY DEF Heard, Before, Submitted, Found, Recorded
    <2>4. Recorded'
        BY DEF Recorded, Before, ContainsOK, Heard
    <2>5. DialsOnlyAllowed' /\ LimitIsApplied'
        BY DEF DialsOnlyAllowed, LimitIsApplied, Measured, RefusedAtLimit, Whole, Recorded, Held, Accepted
    <2> QED BY <2>1, <2>2, <2>3, <2>4, <2>5
<1>10. CASE Connect
    <2> USE <1>10 DEF Connect, EngineUnavailable
    <2>1. ScanTypeOK'
        OBVIOUS
    <2>2. Held'
        BY DEF Held, Before, Accepted, ChecksumFits, Whole, Recorded
    <2>3. Heard'
        BY DEF Heard, Before, Submitted, Found, Recorded
    <2>4. Recorded'
        BY DEF Recorded, Before, ContainsOK, Heard
    <2>5. DialsOnlyAllowed' /\ LimitIsApplied'
        BY DEF DialsOnlyAllowed, LimitIsApplied, Measured, RefusedAtLimit, Whole, Recorded, Held, Accepted
    <2> QED BY <2>1, <2>2, <2>3, <2>4, <2>5
<1>11. CASE SendChunk
    <2> USE <1>11 DEF SendChunk, EngineUnavailable, NextChunk, StreamDone
    <2>1. ScanTypeOK'
        OBVIOUS
    <2>2. Held'
        BY DEF Held, Before, Accepted, ChecksumFits, Whole, Recorded
    <2>3. Heard'
        BY DEF Heard, Before, Submitted, Found, Recorded, Held
    <2>4. Recorded'
        BY DEF Recorded, Before, ContainsOK, Heard
    <2>5. DialsOnlyAllowed' /\ LimitIsApplied'
        BY DEF DialsOnlyAllowed, LimitIsApplied, Measured, RefusedAtLimit, Whole, Recorded, Held, Accepted
    <2> QED BY <2>1, <2>2, <2>3, <2>4, <2>5
<1>12. CASE ReadAnswer
    <2> USE <1>12 DEF ReadAnswer, EngineUnavailable
    <2>0. Parsed \in {"CLEAN", "INFECTED", "ERROR"}
        BY DEF Parsed
    <2>r. /\ pc = "await" /\ UNCHANGED <<req, fetching, got, broken, sent, conn, text, records>>
          /\ \/ pc' = "done" /\ reply' = "ENGINE_UNAVAILABLE"
             \/ reply' = reply /\ pc' = "audit"
             \/ reply' = reply /\ pc' = "quarantine"
        BY <2>0
    <2>t. \/ verdict' = verdict /\ pc' = "done"
          \/ verdict' = Parsed /\ Parsed = "ERROR" /\ pc' = "done"
          \/ verdict' = Parsed /\ Parsed = "CLEAN" /\ pc' = "audit"
          \/ verdict' = Parsed /\ Parsed = "INFECTED" /\ pc' = "quarantine"
        BY <2>0
    <2> HIDE DEF ReadAnswer
    <2> USE <2>r, <2>t
    <2>1. ScanTypeOK'
        BY <2>0
    <2>2. Held'
        BY DEF Held, Before, Accepted, ChecksumFits, Whole, Recorded
    <2>3. Heard'
        BY DEF Heard, Before, Submitted, Found, Recorded
    <2>4. Recorded'
        BY DEF Recorded, Before, ContainsOK, Heard, Parsed
    <2>5. DialsOnlyAllowed' /\ LimitIsApplied'
        BY DEF DialsOnlyAllowed, LimitIsApplied, Measured, RefusedAtLimit, Whole, Recorded, Held, Accepted
    <2> QED BY <2>1, <2>2, <2>3, <2>4, <2>5
<1>13. CASE ClamdAnswers
    <2> USE <1>13 DEF ClamdAnswers, ScanText
    <2>1. ScanTypeOK'
        BY DEF Found, Held
    <2>2. Held'
        BY DEF Held, Before, Accepted, ChecksumFits, Whole, Recorded
    <2>3. Heard'
        BY DEF Heard, Before, Submitted, Found, Recorded, Held
    <2>4. Recorded'
        BY DEF Recorded, Before, ContainsOK, Heard
    <2>5. DialsOnlyAllowed' /\ LimitIsApplied'
        BY DEF DialsOnlyAllowed, LimitIsApplied, Measured, RefusedAtLimit, Whole, Recorded, Held, Accepted
    <2> QED BY <2>1, <2>2, <2>3, <2>4, <2>5
<1>14. CASE ClamdDies
    <2> USE <1>14 DEF ClamdDies
    <2>1. ScanTypeOK'
        BY DEF Found, Held
    <2>2. Held'
        BY DEF Held, Before, Accepted, ChecksumFits, Whole, Recorded
    <2>3. Heard'
        BY DEF Heard, Before, Submitted, Found, Recorded, Held
    <2>4. Recorded'
        BY DEF Recorded, Before, ContainsOK, Heard
    <2>5. DialsOnlyAllowed' /\ LimitIsApplied'
        BY DEF DialsOnlyAllowed, LimitIsApplied, Measured, RefusedAtLimit, Whole, Recorded, Held, Accepted
    <2> QED BY <2>1, <2>2, <2>3, <2>4, <2>5
<1>15. CASE QuarantineFile
    <2> USE <1>15 DEF QuarantineFile
    <2>1. ScanTypeOK'
        OBVIOUS
    <2>2. Held'
        BY DEF Held, Before, Accepted, ChecksumFits, Whole, Recorded
    <2>3. Heard'
        BY DEF Heard, Before, Submitted, Found, Recorded
    <2>4. Recorded'
        BY DEF Recorded, Before, ContainsOK, Heard
    <2>5. DialsOnlyAllowed' /\ LimitIsApplied'
        BY DEF DialsOnlyAllowed, LimitIsApplied, Measured, RefusedAtLimit, Whole, Recorded, Held, Accepted
    <2> QED BY <2>1, <2>2, <2>3, <2>4, <2>5
<1>16. CASE InsertScanAuditLog
    <2> USE <1>16 DEF InsertScanAuditLog
    <2>1. ScanTypeOK'
        OBVIOUS
    <2>2. Held'
        BY DEF Held, Before, Accepted, ChecksumFits, Whole, Recorded
    <2>3. Heard'
        BY DEF Heard, Before, Submitted, Found, Recorded
    <2>4. Recorded'
        BY DEF Recorded, Before, ContainsOK, Heard
    <2>5. DialsOnlyAllowed' /\ LimitIsApplied'
        BY DEF DialsOnlyAllowed, LimitIsApplied, Measured, RefusedAtLimit, Whole, Recorded, Held, Accepted
    <2> QED BY <2>1, <2>2, <2>3, <2>4, <2>5
<1>17. CASE DispatchThreat
    <2> USE <1>17 DEF DispatchThreat
    <2>1. ScanTypeOK'
        OBVIOUS
    <2>2. Held'
        BY DEF Held, Before, Accepted, ChecksumFits, Whole, Recorded
    <2>3. Heard'
        BY DEF Heard, Before, Submitted, Found, Recorded
    <2>4. Recorded'
        BY DEF Recorded, Before, ContainsOK, Heard
    <2>5. DialsOnlyAllowed' /\ LimitIsApplied'
        BY DEF DialsOnlyAllowed, LimitIsApplied, Measured, RefusedAtLimit, Whole, Recorded, Held, Accepted
    <2> QED BY <2>1, <2>2, <2>3, <2>4, <2>5
<1>18. CASE Answered \/ UNCHANGED vars
    <2> USE <1>18 DEF Answered, vars
    <2>1. ScanTypeOK'
        OBVIOUS
    <2>2. Held'
        BY DEF Held, Before, Accepted, ChecksumFits, Whole, Recorded
    <2>3. Heard'
        BY DEF Heard, Before, Submitted, Found, Recorded
    <2>4. Recorded'
        BY DEF Recorded, Before, ContainsOK, Heard
    <2>5. DialsOnlyAllowed' /\ LimitIsApplied'
        BY DEF DialsOnlyAllowed, LimitIsApplied, Measured, RefusedAtLimit, Whole, Recorded, Held, Accepted
    <2> QED BY <2>1, <2>2, <2>3, <2>4, <2>5
<1> QED
    BY <1>1, <1>2, <1>3, <1>4, <1>5, <1>6, <1>7, <1>8, <1>9,
       <1>10, <1>11, <1>12, <1>13, <1>14, <1>15, <1>16, <1>17, <1>18
    DEF Next, Handler, Fetch, Scan, Clamd

LEMMA ScanAlways == Spec => []ScanInv
BY ScanInit, ScanStep, PTL DEF Spec

-----------------------------------------------------------------------------
(* What holds of every body *)

\* A verdict is about the whole body, whatever was cut on the way to the handler
\* or to clamd (Fetch, the Recv loop, ScanStream).
THEOREM VerdictOnWholeBodyAlways == Spec => []VerdictOnWholeBody
<1>1. ScanInv => VerdictOnWholeBody
    BY DEF ScanInv, VerdictOnWholeBody, Held, Heard, Recorded, Accepted, Submitted, ChecksumFits, Whole, Recognisable, ScanTypeOK, Verdicts
<1> QED
    BY ScanAlways, <1>1, PTL

\* The handlers answer and record what clamd found, but for names that contain
\* OK (parseScanResponse).
THEOREM VerdictIsClamdsAlways == Spec => []VerdictIsClamds
<1>1. ScanInv => VerdictIsClamds
    <2> SUFFICES ASSUME ScanInv PROVE VerdictIsClamds
        OBVIOUS
    <2> USE Requested, ScanConstants
        DEF ScanConstants, ScanInv, ScanTypeOK, Pcs, Verdicts, Held, Heard, Recorded
    <2>1. reply = "CLEAN" /\ got = req.len => ~req.infected \/ req.name \in NamesWithOK
        BY DEF Submitted, Found, ContainsOK
    <2>2. reply = "INFECTED" => req.infected /\ got = req.len /\ alerted
        BY DEF Submitted, Found
    <2>3. quarID => "FOUND" \in text
        OBVIOUS
    <2>4. audit # "none" /\ pc = "done" => audit = reply
        OBVIOUS
    <2> QED
        BY <2>1, <2>2, <2>3, <2>4 DEF VerdictIsClamds
<1> QED
    BY ScanAlways, <1>1, PTL

\* No way in gives a verdict above the limit but on the part before a hidden cut,
\* and none refuses for its size what is within it, but for a URL at the limit
\* whose end came late (boundedReadCloser.Read) and a form that could not be read
\* (handleScanFile).
THEOREM LimitIsAppliedAlways == Spec => []LimitIsApplied
<1>1. ScanInv => LimitIsApplied
    BY DEF ScanInv
<1> QED
    BY ScanAlways, <1>1, PTL

\* DialContext connects to no address that IsBlockedIP refuses, however the
\* answers of the resolver change between the lookups.
THEOREM DialsOnlyAllowedAlways == Spec => []DialsOnlyAllowed
<1>1. ScanInv => DialsOnlyAllowed
    BY DEF ScanInv
<1> QED
    BY ScanAlways, <1>1, PTL
=============================================================================
