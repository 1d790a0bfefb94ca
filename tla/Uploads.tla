------------------------------ MODULE Uploads ------------------------------
(* A resumable upload (internal/ingest/uploads.go, the /v1/uploads routes of *)
(* internal/http/router.go): chunks are appended to a part file at the       *)
(* offset the client names, and completing the upload ingests the file.      *)
(* The session lives in memory under a mutex; ReadUpload reads the file      *)
(* after it has let go of the mutex, and nothing claims the session while    *)
(* its content is ingested.  The client's document is the bytes              *)
(* 1..StreamBytes, so a file is good when it is a prefix of them.            *)
EXTENDS Integers, Sequences

CONSTANTS UploadCall, StreamBytes, DeclaredTotals, MaxDocumentBytes

ASSUME UploadAssumption ==
    StreamBytes \in Nat /\ MaxDocumentBytes \in Nat /\ DeclaredTotals \subseteq Nat

VARIABLES
    session,     \* the UploadSession
    partFile,    \* its part file: the client's bytes in the order written
    completing,  \* [UploadCall -> a completeUploadSession in progress]
    ingestedDocs \* the contents given to the ingestion

uploadVars == <<session, partFile, completing, ingestedDocs>>

IdleUpload == [step |-> "idle"]
NoSession == [status |-> "none", total |-> 0, received |-> 0]
Prefix(n) == [i \in 1..n |-> i]

UploadInit ==
    /\ session = NoSession
    /\ partFile = << >>
    /\ completing = [c \in UploadCall |-> IdleUpload]
    /\ ingestedDocs = {}

\* total_bytes may be left out (zero), and may not exceed the limit.
CreateUpload(total) ==
    /\ session = NoSession
    /\ MaxDocumentBytes > 0 => total <= MaxDocumentBytes
    /\ session' = [NoSession EXCEPT !.status = "uploading", !.total = total]
    /\ UNCHANGED <<partFile, completing, ingestedDocs>>

\* ErrUploadTooLarge for the declared size or for the configured limit.
TooLarge(n) ==
    \/ session.total > 0 /\ n > session.total
    \/ MaxDocumentBytes > 0 /\ n > MaxDocumentBytes

\* ErrUploadOffsetMismatch otherwise.
Accepts(offset) == offset = session.received

\* The client's chunk at `offset`, once or again: the bytes offset+1 ..
\* offset+n.  A failed write leaves part of the chunk in the file, a failed
\* close perhaps all of it, and both leave the session as it was.
AppendUpload(offset, n, written, closes) ==
    /\ session.status = "uploading"
    /\ Accepts(offset)
    /\ ~TooLarge(session.received + n)
    /\ partFile' = partFile \o [i \in 1..written |-> offset + i]
    /\ session' = IF written = n /\ closes THEN [session EXCEPT !.received = @ + n] ELSE session
    /\ UNCHANGED <<completing, ingestedDocs>>

\* ReadUpload under the mutex: a copy of the session, if it is still uploading
\* and has the bytes it declared.
ReadSession(c) ==
    /\ completing[c] = IdleUpload
    /\ session.status = "uploading"
    /\ session.total > 0 => session.received = session.total
    /\ completing' = [completing EXCEPT ![c] = [step |-> "file", received |-> session.received]]
    /\ UNCHANGED <<session, partFile, ingestedDocs>>

\* Mutant: the file is taken as it is.
AnySize(received) == TRUE

SizeMatches(received) == Len(partFile) = received

\* ReadUpload without the mutex: the file must have the size the copy says.
\* A canceled upload has no file any more.
ReadPartFile(c) ==
    /\ completing[c].step = "file"
    /\ completing' = [completing EXCEPT ![c] =
         IF session.status # "canceled" /\ SizeMatches(completing[c].received)
         THEN [step |-> "ingest", body |-> partFile]
         ELSE IdleUpload]
    /\ UNCHANGED <<session, partFile, ingestedDocs>>

\* The ingestion may fail; the upload can be completed again then.
IngestUpload(c, fails) ==
    /\ completing[c].step = "ingest"
    /\ ingestedDocs' = IF fails THEN ingestedDocs ELSE ingestedDocs \cup {completing[c].body}
    /\ completing' = [completing EXCEPT ![c] = IF fails THEN IdleUpload ELSE [step |-> "complete"]]
    /\ UNCHANGED <<session, partFile>>

\* Not found when the upload was canceled during the ingestion.
CompleteUpload(c) ==
    /\ completing[c].step = "complete"
    /\ session' = IF session.status = "canceled" THEN session
                  ELSE [session EXCEPT !.status = "completed"]
    /\ completing' = [completing EXCEPT ![c] = IdleUpload]
    /\ UNCHANGED <<partFile, ingestedDocs>>

\* The part file is removed; a completed upload can be canceled too.
CancelUpload ==
    /\ session.status \in {"uploading", "completed"}
    /\ session' = [session EXCEPT !.status = "canceled"]
    /\ partFile' = << >>
    /\ UNCHANGED <<completing, ingestedDocs>>

UploadNext ==
    \/ \E total \in DeclaredTotals : CreateUpload(total)
    \/ \E offset \in 0..StreamBytes : \E n \in 0..(StreamBytes - offset) :
         \E written \in 0..n, closes \in BOOLEAN :
           AppendUpload(offset, n, written, closes) /\ Len(partFile) <= StreamBytes
    \/ CancelUpload
    \/ \E c \in UploadCall :
         \/ ReadSession(c) \/ ReadPartFile(c) \/ CompleteUpload(c)
         \/ \E fails \in BOOLEAN : IngestUpload(c, fails)

UploadSpec == UploadInit /\ [][UploadNext]_uploadVars

-----------------------------------------------------------------------------

\* What is ingested is what the client sent, from its first byte on: chunks
\* that were retried, sent twice or written in part before an error never
\* leave a gap or a repetition in a document.
IngestedIsSent == \A body \in ingestedDocs : body = Prefix(Len(body))

\* A completed upload of a declared size has ingested every byte it
\* acknowledged.  (An upload without total_bytes does not promise it: a
\* chunk may still be accepted between the read of the file and
\* CompleteUpload.)
CompletedIsIngested ==
    (session.status = "completed" /\ session.total > 0)
      => \E body \in ingestedDocs : Len(body) = session.received

\* A completed upload was ingested, and as the client sent it, through
\* repeated and partial chunks and calls that overlap.
UploadIsWhole == IngestedIsSent /\ CompletedIsIngested
=============================================================================
