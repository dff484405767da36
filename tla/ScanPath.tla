------------------------------ MODULE ScanPath ------------------------------
(***************************************************************************)
(* The way of one body from a client to a verdict: the three ways in        *)
(* (a URL through internal/fetcher, a multipart file, a gRPC stream), the   *)
(* INSTREAM conversation with clamd (internal/clamd/client.go), and what    *)
(* the handlers of internal/api and internal/grpcserver do with the answer. *)
(* A body is its length; what clamd would find is in its last byte, so that *)
(* every proper prefix of an infected body is clean.                        *)
(***************************************************************************)
EXTENDS Naturals, FiniteSets

CONSTANTS
    MaxLen,         \* bound: the longest body
    MaxBytes,       \* MAX_SCAN_SIZE_MB; both servers replace what is not positive by 100
    ChunkSize,      \* defaultChunkSize of the clamd client
    Overhead,       \* what a multipart form adds to the file it holds
    MaxRedirects,   \* SafeFetcherConfig.MaxRedirects
    RuleNames,      \* names clamd reports
    NamesWithOK,    \* those whose text contains "OK"
    Addresses,      \* what host names resolve to
    BlockedIPs,     \* those IsBlockedIP refuses
    NoRequest

ASSUME ScanConstants ==
    /\ {MaxLen, Overhead} \subseteq Nat
    /\ {MaxBytes, ChunkSize, MaxRedirects} \subseteq Nat \ {0}
    /\ NamesWithOK \subseteq RuleNames /\ BlockedIPs \subseteq Addresses
    /\ RuleNames \cap {"OK", "FOUND", "ERROR"} = {}

Routes == {"url", "file", "grpc"}

\* How the end of an HTTP body is recognised: by its Content-Length, by its
\* last chunk, or by the end of the connection.
Framings == {"length", "chunked", "close"}

\* expected: the checksum the client sent, if any, is that of the whole body
\* or another. listed: the hash of the whole body is on the whitelist.
RequestTypes ==
    [route : Routes, len : 0..MaxLen, infected : BOOLEAN, name : RuleNames,
     framing : Framings, expected : {"none", "right", "wrong"}, listed : BOOLEAN]

\* What distinguishes nothing is given one value.
PossibleRequests ==
    {r \in RequestTypes :
        /\ r.len = 0 => ~r.infected
        /\ r.route # "url" => r.framing = "length"
        /\ r.route = "file" => r.expected = "none"
        /\ ~r.infected => r.name = CHOOSE n \in RuleNames : TRUE}

VARIABLES
    req,        \* the request
    pc,         \* where its handler is
    hops,       \* redirects followed
    dialed,     \* addresses the fetcher has connected to
    got,        \* bytes of the body the handler holds
    broken,     \* whether the body broke off, or its form could not be read
    sent,       \* bytes written to clamd
    conn,       \* the connection to clamd
    text,       \* the words in clamd's answer, as far as it has come
    verdict,    \* ScanResult.Verdict
    quarID, audit, alerted,     \* what is recorded of the verdict
    reply       \* the answer to the client

fetching == <<hops, dialed>>
scanning == <<sent, conn, text, verdict>>
records  == <<quarID, audit, alerted>>
vars == <<req, pc, fetching, got, broken, scanning, records, reply>>

Init ==
    /\ req = NoRequest /\ pc = "idle"
    /\ hops = 0 /\ dialed = {} /\ got = 0 /\ broken = FALSE
    /\ sent = 0 /\ conn = "none" /\ text = {} /\ verdict = "none"
    /\ quarID = FALSE /\ audit = "none" /\ alerted = FALSE
    /\ reply = "none"

Goto(where) == pc' = where /\ UNCHANGED reply

\* The answers have the names of the HTTP error codes; those of gRPC are the
\* status codes ResourceExhausted, InvalidArgument, Unavailable and Internal.
Answer(what) == pc' = "done" /\ reply' = what

Arrive ==
    /\ pc = "idle"
    /\ req' \in PossibleRequests
    /\ Goto(CASE req'.route = "url"  -> "resolve"
              [] req'.route = "file" -> "upload"
              [] req'.route = "grpc" -> "receive")
    /\ UNCHANGED <<fetching, got, broken, scanning, records>>

-----------------------------------------------------------------------------
(* SafeFetcher.Fetch. A name may resolve differently at every lookup. *)

Lookups == SUBSET Addresses \ {{}}
Refused(ips) == ips \cap BlockedIPs # {}

\* ValidateURL and the lookup before the request; a host that does not resolve
\* counts as blocked.
ResolveTarget ==
    /\ pc = "resolve"
    /\ \/ Answer("INVALID_REQUEST_PAYLOAD") \/ Answer("SSRF_ATTEMPT_BLOCKED")
       \/ \E ips \in Lookups : ~Refused(ips) /\ Goto("dial")
    /\ UNCHANGED <<req, fetching, got, broken, scanning, records>>

DownloadFails == Answer("DOWNLOAD_TIMEOUT") \/ Answer("DOWNLOAD_FAILED")

\* The transport's DialContext looks the name up again and connects to an
\* address of that answer, unless it has an idle connection to the host.
DialPrechecked ==
    \E ips \in Lookups, ip \in Addresses :
        /\ ip \in ips
        /\ dialed' = dialed \cup {ip} /\ Goto("respond")
DialVerified ==
    \/ \E ips \in Lookups :
        IF Refused(ips) THEN Answer("SSRF_ATTEMPT_BLOCKED") /\ UNCHANGED dialed
        ELSE \E ip \in ips : dialed' = dialed \cup {ip} /\ Goto("respond")
    \/ Goto("respond") /\ UNCHANGED dialed

Dial ==
    /\ pc = "dial"
    /\ DialVerified \/ (DownloadFails /\ UNCHANGED dialed)
    /\ UNCHANGED <<req, hops, got, broken, scanning, records>>

\* The head of the response: a status outside 2xx is a failed download.
Respond ==
    /\ pc = "respond"
    /\ Goto("redirect") \/ Goto("read") \/ DownloadFails
    /\ UNCHANGED <<req, fetching, got, broken, scanning, records>>

\* CheckRedirect; via holds the requests made so far.
CheckRedirect ==
    /\ pc = "redirect"
    /\ IF hops + 1 >= MaxRedirects THEN Answer("TOO_MANY_REDIRECTS") /\ UNCHANGED hops
       ELSE \/ (Answer("INVALID_REQUEST_PAYLOAD") \/ DownloadFails) /\ UNCHANGED hops
            \/ \E ips \in Lookups :
                IF Refused(ips) THEN Answer("SSRF_ATTEMPT_BLOCKED") /\ UNCHANGED hops
                ELSE hops' = hops + 1 /\ Goto("dial")
    /\ UNCHANGED <<req, dialed, got, broken, scanning, records>>

-----------------------------------------------------------------------------
(* The body of a URL, through boundedReadCloser *)

\* What one Read of the response body may return: n bytes, and whether io.EOF
\* comes with them. The end by Content-Length comes with the last bytes, the
\* end of the connection never comes with bytes.
BodyRead(n, eof) ==
    LET last == got + n = req.len IN
    /\ n > 0 \/ eof
    /\ eof => last /\ (n = 0 \/ req.framing # "close")
    /\ last /\ req.framing = "length" => eof

\* The quota is used up: no further Read, whatever is left of the body.
SpinAtLimit == Goto("read") /\ UNCHANGED got
RefuseAtLimit == Answer("FILE_TOO_LARGE") /\ UNCHANGED got

\* At the limit the reader asks for one byte more.
ProbeFinds(n) == got + n = MaxBytes /\ req.len > MaxBytes

BoundedRead ==
    IF got >= MaxBytes THEN RefuseAtLimit
    ELSE \E n \in 0..(MaxBytes - got), eof \in BOOLEAN :
        /\ got + n <= req.len /\ BodyRead(n, eof)
        /\ \/ eof /\ got' = got + n /\ Goto("check")
           \/ ~eof /\ ProbeFinds(n) /\ Answer("FILE_TOO_LARGE") /\ UNCHANGED got
           \/ ~eof /\ ~ProbeFinds(n) /\ got' = got + n /\ Goto("read")

\* The connection ends early, or the 30 s of the client are over. Only a body
\* that ends with its connection hides it.
AcceptCut == Goto("check")
ErrorOnCut == Answer("DOWNLOAD_FAILED")
BodyCut ==
    /\ got < MaxBytes
    /\ broken' = TRUE
    /\ ErrorOnCut \/ (req.framing = "close" /\ Goto("check"))
    /\ UNCHANGED got

ReadBody ==
    /\ pc = "read"
    /\ (BoundedRead /\ UNCHANGED broken) \/ BodyCut
    /\ UNCHANGED <<req, fetching, scanning, records>>

-----------------------------------------------------------------------------
(* The body of a gRPC stream and of a multipart form *)

RefusesFull(total) == total >= MaxBytes
OverLimit(total) == total > MaxBytes

\* One stream.Recv. There is no time limit on it.
ReceiveChunk ==
    /\ pc = "receive"
    /\ \/ /\ \E n \in 1..(req.len - got) :
               IF OverLimit(got + n) THEN Answer("FILE_TOO_LARGE") /\ UNCHANGED got
               ELSE got' = got + n /\ Goto("receive")
          /\ UNCHANGED broken
       \/ got = req.len /\ Goto("check") /\ UNCHANGED <<got, broken>>      \* io.EOF
       \/ broken' = TRUE /\ Answer("RECEIVE_FAILED") /\ UNCHANGED got
    /\ UNCHANGED <<req, fetching, scanning, records>>

\* ParseMultipartForm reads the whole form under MaxBytesReader. A form above the
\* limit is refused for its size, and so is every form that cannot be read: one
\* that is malformed, breaks off, or outlasts the server's ReadTimeout. Then
\* FormFile and ReadAll.
ParseMultipart ==
    /\ pc = "upload"
    /\ \/ OverLimit(req.len + Overhead) /\ Answer("FILE_TOO_LARGE") /\ UNCHANGED <<got, broken>>
       \/ broken' = TRUE /\ Answer("FILE_TOO_LARGE") /\ UNCHANGED got
       \/ /\ ~OverLimit(req.len + Overhead) /\ UNCHANGED broken
          /\ \/ (Answer("INVALID_REQUEST_PAYLOAD") \/ Answer("INTERNAL_SERVER_ERROR")) /\ UNCHANGED got
             \/ got' = req.len /\ Goto("check")
    /\ UNCHANGED <<req, fetching, scanning, records>>

-----------------------------------------------------------------------------
(* Checksum and whitelist are about the bytes the handler holds *)

Whole == got = req.len

ChecksumFits == req.expected = "none" \/ (req.expected = "right" /\ Whole)

\* An error of the statement counts as not whitelisted.
CheckHash ==
    /\ pc = "check"
    /\ \/ ~ChecksumFits /\ Answer("CHECKSUM_MISMATCH")
       \/ ChecksumFits /\ req.listed /\ Whole /\ Answer("WHITELISTED")
       \/ ChecksumFits /\ Goto("connect")
    /\ UNCHANGED <<req, fetching, got, broken, scanning, records>>

-----------------------------------------------------------------------------
(* Client.ScanStream *)

EngineUnavailable == Answer("ENGINE_UNAVAILABLE")

Connect ==
    /\ pc = "connect"
    /\ \/ EngineUnavailable /\ UNCHANGED conn
       \/ conn' = "open" /\ Goto("chunks")
    /\ UNCHANGED <<req, fetching, got, broken, sent, text, verdict, records>>

\* One turn of the loop: the context first, then a chunk, or the terminator
\* when the reader is at its end. A write can fail once clamd is gone.
NextChunk == IF got - sent < ChunkSize THEN got - sent ELSE ChunkSize
StreamDone == sent = got

SendChunk ==
    /\ pc = "chunks"
    /\ \/ EngineUnavailable /\ UNCHANGED sent
       \/ ~StreamDone /\ sent' = sent + NextChunk /\ Goto("chunks")
       \/ StreamDone /\ UNCHANGED sent /\ Goto("await")
    /\ UNCHANGED <<req, fetching, got, broken, conn, text, verdict, records>>

\* clamd's own steps: the answer to a terminated stream, an error at any time,
\* or its end with part of an answer written.
Found == req.infected /\ sent = req.len
ScanText == IF Found THEN {"FOUND", req.name} ELSE {"OK"}
ClamdAnswers ==
    /\ conn = "open" /\ pc \in {"chunks", "await"}
    /\ \/ pc = "await" /\ text' = ScanText
       \/ text' = {"ERROR"}
    /\ conn' = "answered"
    /\ UNCHANGED <<req, pc, fetching, got, broken, sent, verdict, records, reply>>
ClamdDies ==
    /\ conn = "open" /\ pc \in {"chunks", "await"}
    /\ conn' = "lost"
    /\ text' \in {{}} \cup (IF pc = "await" /\ Found THEN {{req.name}} ELSE {})
    /\ UNCHANGED <<req, pc, fetching, got, broken, sent, verdict, records, reply>>

\* strings.Contains(trimmed, "OK"); the search does not look at words.
ContainsOK == "OK" \in text \/ text \cap NamesWithOK # {}

\* parseScanResponse
ParsedLeniently ==
    IF "FOUND" \in text THEN "INFECTED" ELSE IF "ERROR" \in text THEN "ERROR" ELSE "CLEAN"
Parsed ==
    CASE ContainsOK -> "CLEAN"
      [] ~ContainsOK /\ "FOUND" \in text -> "INFECTED"
      [] OTHER -> "ERROR"

\* readUntilNull takes the end of the connection for the end of the answer.
\* There is no deadline on the socket.
ReadAnswer ==
    /\ pc = "await" /\ conn \in {"answered", "lost"}
    /\ \/ conn = "lost" /\ EngineUnavailable /\ UNCHANGED verdict
       \/ /\ verdict' = Parsed
          /\ CASE Parsed = "CLEAN"    -> Goto("audit")
               [] Parsed = "INFECTED" -> Goto("quarantine")
               [] Parsed = "ERROR"    -> EngineUnavailable
    /\ UNCHANGED <<req, fetching, got, broken, sent, conn, text, records>>

-----------------------------------------------------------------------------
(* What follows a verdict. The errors of all three steps are ignored. *)

QuarantineFile ==
    /\ pc = "quarantine"
    /\ quarID' \in BOOLEAN /\ Goto("audit")
    /\ UNCHANGED <<req, fetching, got, broken, scanning, audit, alerted>>

InsertScanAuditLog ==
    /\ pc = "audit"
    /\ audit' \in {"none", verdict}
    /\ IF verdict = "CLEAN" THEN Answer("CLEAN") ELSE Goto("alert")
    /\ UNCHANGED <<req, fetching, got, broken, scanning, quarID, alerted>>

DispatchThreat ==
    /\ pc = "alert"
    /\ alerted' = TRUE /\ Answer("INFECTED")
    /\ UNCHANGED <<req, fetching, got, broken, scanning, quarID, audit>>

Answered == pc = "done" /\ UNCHANGED vars

-----------------------------------------------------------------------------
Fetch == ResolveTarget \/ Dial \/ Respond \/ CheckRedirect \/ ReadBody
Scan == Connect \/ SendChunk \/ ReadAnswer
Handler ==
    \/ Fetch \/ ParseMultipart \/ CheckHash \/ Scan
    \/ QuarantineFile \/ InsertScanAuditLog \/ DispatchThreat
Clamd == ClamdAnswers \/ ClamdDies

Next == Arrive \/ ReceiveChunk \/ Handler \/ Clamd \/ Answered
Spec == Init /\ [][Next]_vars

\* A handler is scheduled; the fetch has its 30 s, the upload the server's 60 s.
\* Nothing limits the time a gRPC client takes to send, or clamd to answer.
FairSpec == Spec /\ WF_vars(Handler)
ClamdResponds == WF_vars(Clamd)

-----------------------------------------------------------------------------
(* Properties *)

\* Every variable has its type.
Pcs ==
    {"idle", "resolve", "dial", "respond", "redirect", "read", "receive", "upload",
     "check", "connect", "chunks", "await", "quarantine", "audit", "alert", "done"}
Verdicts == {"none", "CLEAN", "INFECTED", "ERROR"}
ScanTypeOK ==
    /\ req \in PossibleRequests \cup {NoRequest} /\ pc \in Pcs
    /\ hops \in Nat /\ dialed \subseteq Addresses
    /\ got \in Nat /\ broken \in BOOLEAN /\ sent \in Nat
    /\ conn \in {"none", "open", "answered", "lost"}
    /\ text \subseteq RuleNames \cup {"OK", "FOUND", "ERROR"}
    /\ verdict \in Verdicts /\ audit \in Verdicts
    /\ quarID \in BOOLEAN /\ alerted \in BOOLEAN

\* A verdict is about the whole body the client meant: neither a read that was
\* cut short, nor a chunk left out, nor the bytes clamd did not get. A body
\* that ends with its connection and comes without a checksum is the exception
\* the code cannot see.
Recognisable == req.framing # "close" \/ req.expected # "none"
VerdictOnWholeBody ==
    reply \in {"CLEAN", "INFECTED"} =>
        /\ sent = got
        /\ Recognisable => got = req.len
        /\ req.expected # "none" => req.expected = "right"

\* The answer, and the audit row, say what clamd found. The exception is a name
\* that contains "OK": parseScanResponse looks for OK before FOUND, so such a
\* body is reported clean.
VerdictIsClamds ==
    /\ reply = "CLEAN" /\ got = req.len =>
        ~req.infected \/ req.name \in NamesWithOK
    /\ reply = "INFECTED" => req.infected /\ got = req.len /\ alerted
    /\ quarID => "FOUND" \in text
    /\ audit # "none" /\ pc = "done" => audit = reply

\* What each way in measures: a multipart form counts as a whole.
Measured == IF req.route = "file" THEN req.len + Overhead ELSE req.len

\* The code's own off-by-one: a URL of exactly MaxBytes is refused unless its end
\* came with its last bytes. The probe has seen that nothing follows; the next
\* Read refuses because the quota is used up (client.go:331).
RefusedAtLimit == req.route = "url" /\ req.len = MaxBytes /\ req.framing # "length"

\* The limit, on each way in. Above it there is no verdict, unless the part that
\* came before a cut nobody can see was within it. FILE_TOO_LARGE is said of what
\* is above the limit, of a URL at the limit as above, and of a form that could
\* not be read (handleScanFile takes every parse error for a size); of a gRPC
\* stream within the limit never.
LimitIsApplied ==
    /\ reply \in {"CLEAN", "INFECTED", "WHITELISTED"} =>
        got <= MaxBytes /\ (Measured <= MaxBytes \/ (broken /\ ~Whole /\ req.framing = "close"))
    /\ reply = "FILE_TOO_LARGE" =>
        Measured > MaxBytes \/ RefusedAtLimit \/ (req.route = "file" /\ broken)

\* The fetcher connects to no blocked address, although the name is looked up
\* three times and may resolve differently each time.
DialsOnlyAllowed == dialed \cap BlockedIPs = {}

\* Once the client has sent its body, the handler answers if clamd does.
ScanEnds == ClamdResponds => ((pc \notin {"idle", "receive"}) ~> (pc = "done"))
=============================================================================
