------------------------------ MODULE DataUpload ------------------------------
(***************************************************************************)
(* The upload pipeline                                                     *)
(* (src/src/data_ingest/adapter/http/router/data_router.py): a row is      *)
(* created with a signed PUT URL, the URL's PUT stores the file and its    *)
(* validation, rows are corrected, the upload is revalidated and applied.  *)
(*                                                                         *)
(* Every endpoint loads the row, computes and commits; other requests      *)
(* commit in between, and a PUT also awaits its body and writes the file   *)
(* in between.  Callers are administrators of the upload's union (the PUT  *)
(* asks for the signature only); requests that are refused change nothing  *)
(* and are no steps.                                                       *)
(*                                                                         *)
(* A file's content is represented by its length: 0 is the empty file, and *)
(* files of different lengths are different files.                         *)
(***************************************************************************)
EXTENDS Naturals, RowStore

CONSTANTS Requests, Uploads,
          MaxLength,     \* BOUND on content lengths
          RowNumbers,    \* row numbers that callers correct
          NoRow, NoFile

Lengths == 0 .. MaxLength

ASSUME UploadAssumption ==
    /\ MaxLength \in Nat
    /\ RowNumbers \subseteq Nat
    /\ 0 \in RowNumbers
    /\ NoFile \notin Lengths

Statuses    == {"PENDING_UPLOAD", "VALIDATED", "INVALID", "APPLIED"}
Validations == [valid : BOOLEAN, errors : SUBSET RowNumbers, corrected : SUBSET RowNumbers]
Rows        == [status : Statuses, size : Lengths, validation : Validations]

ASSUME NoRowAssumption == NoRow \notin Rows

VARIABLES
    upload,     \* table data_uploads; validation is one JSON column
    file,       \* UPLOAD_DIR: the content stored under each upload id
    urlOpen,    \* uploads whose signed URL has not expired
    req         \* what each request has loaded and is about to do

vars == <<upload, file, urlOpen, req>>

Idle == [op |-> "idle"]

Init ==
    /\ upload = [u \in Uploads |-> NoRow]
    /\ file = [u \in Uploads |-> NoFile]
    /\ urlOpen = {}
    /\ req = [r \in Requests |-> Idle]

----------------------------------------------------------------------------
(* What the code computes *)

NotValidated == [valid |-> FALSE, errors |-> {}, corrected |-> {}]

\* validate_content: an empty file is an error in row 0, nothing else is.
ValidateContent(length) ==
    [valid |-> length > 0, errors |-> IF length > 0 THEN {} ELSE {0}, corrected |-> {}]

\* Faulty: the row is marked as corrected, and so valid, whatever else is wrong.
CorrectedAndValid(v, n) ==
    [valid |-> TRUE, errors |-> v.errors \ {n}, corrected |-> v.corrected \union {n}]

\* correct_upload_row
Corrected(v, n) ==
    [valid |-> v.errors \ {n} = {}, errors |-> v.errors \ {n},
     corrected |-> v.corrected \union {n}]

\* revalidate_upload: nothing is read from the file.
Revalidated(v, size) == [v EXCEPT !.valid = v.errors = {} /\ size > 0]

StatusOf(v) == IF v.valid THEN "VALIDATED" ELSE "INVALID"

WithValidation(row, v) == [row EXCEPT !.validation = v, !.status = StatusOf(v)]

----------------------------------------------------------------------------
(* Actions *)

\* Faulty: the URL is handed out before the row is committed.
CreateUploadUrlFirst(u, declared) ==
    /\ upload[u] = NoRow
    /\ declared > 0
    /\ urlOpen' = urlOpen \union {u}
    /\ UNCHANGED <<upload, file, req>>

\* create_upload; the size is what the client declares.
CreateUpload(u, declared) ==
    /\ upload[u] = NoRow
    /\ declared > 0
    /\ upload' = [upload EXCEPT ![u] = [status |-> "PENDING_UPLOAD", size |-> declared,
                                        validation |-> NotValidated]]
    /\ urlOpen' = urlOpen \union {u}
    /\ UNCHANGED <<file, req>>

\* upload_data_direct: the content is validated and not kept.
UploadDirect(u, length) ==
    /\ upload[u] = NoRow
    /\ LET v == ValidateContent(length) IN
       upload' = [upload EXCEPT ![u] = [status |-> StatusOf(v), size |-> length,
                                        validation |-> v]]
    /\ UNCHANGED <<file, urlOpen, req>>

\* 15 minutes after create_upload.
UrlExpires(u) ==
    /\ u \in urlOpen
    /\ urlOpen' = urlOpen \ {u}
    /\ UNCHANGED <<upload, file, req>>

\* put_upload_content: the signature is checked and the row loaded; the body is
\* still to come.  The URL works any number of times until it expires.
ReadForPut(r, u) ==
    /\ req[r] = Idle
    /\ u \in urlOpen
    /\ req' = [req EXCEPT ![r] = [op |-> "receive", upload |-> u, loaded |-> upload[u]]]
    /\ UNCHANGED <<upload, file, urlOpen>>

\* The body is complete: the file is written, and stays if the commit fails.
WriteFile(r, length) ==
    LET u == req[r].upload
        v == ValidateContent(length) IN
    /\ req[r].op = "receive"
    /\ file' = [file EXCEPT ![u] = length]
    /\ req' = [req EXCEPT ![r] =
                 [op |-> "commit", upload |-> u, loaded |-> req[r].loaded,
                  wanted |-> [WithValidation(req[r].loaded, v) EXCEPT !.size = length]]]
    /\ UNCHANGED <<upload, urlOpen>>

\* A request that loads the row of u and wants `wanted` in its place.
Load(r, u, wanted) ==
    /\ req[r] = Idle
    /\ upload[u] # NoRow
    /\ req' = [req EXCEPT ![r] = [op |-> "commit", upload |-> u, loaded |-> upload[u],
                                  wanted |-> wanted]]
    /\ UNCHANGED <<upload, file, urlOpen>>

CorrectUploadRow(r, u, n) ==
    upload[u] # NoRow /\ Load(r, u, WithValidation(upload[u], Corrected(upload[u].validation, n)))

RevalidateUpload(r, u) ==
    /\ upload[u] # NoRow
    /\ Load(r, u, WithValidation(upload[u], Revalidated(upload[u].validation, upload[u].size)))

\* Faulty: the status is not looked at.
CommitAnyUpload(r, u) == upload[u] # NoRow /\ Load(r, u, [upload[u] EXCEPT !.status = "APPLIED"])

\* commit_upload and its alias apply_upload.
CommitUpload(r, u) ==
    /\ upload[u] # NoRow
    /\ upload[u].status = "VALIDATED"
    /\ Load(r, u, [upload[u] EXCEPT !.status = "APPLIED"])

Commit(r) ==
    /\ req[r].op = "commit"
    /\ upload' = [upload EXCEPT ![req[r].upload] = Flush(req[r].loaded, req[r].wanted, @)]
    /\ req' = [req EXCEPT ![r] = Idle]
    /\ UNCHANGED <<file, urlOpen>>

\* The client goes away, the commit fails or the worker dies.
Rollback(r) ==
    /\ req[r] # Idle
    /\ req' = [req EXCEPT ![r] = Idle]
    /\ UNCHANGED <<upload, file, urlOpen>>

Next ==
    \/ \E u \in Uploads :
          \/ \E length \in Lengths : CreateUpload(u, length) \/ UploadDirect(u, length)
          \/ UrlExpires(u)
    \/ \E r \in Requests :
          \/ \E u \in Uploads :
                \/ ReadForPut(r, u)
                \/ \E n \in RowNumbers : CorrectUploadRow(r, u, n)
                \/ RevalidateUpload(r, u)
                \/ CommitUpload(r, u)
          \/ \E length \in Lengths : WriteFile(r, length)
          \/ Commit(r)
          \/ Rollback(r)

Spec == Init /\ [][Next]_vars

----------------------------------------------------------------------------
(* Properties *)

Receiving  == [op : {"receive"}, upload : Uploads, loaded : Rows]
Committing == [op : {"commit"}, upload : Uploads, loaded : Rows, wanted : Rows]

\* Tables, files and requests hold what they should; a request is about an
\* upload that exists, and so is every open URL.
TypeOK ==
    /\ upload \in [Uploads -> Rows \union {NoRow}]
    /\ file \in [Uploads -> Lengths \union {NoFile}]
    /\ urlOpen \in SUBSET {u \in Uploads : upload[u] # NoRow}
    /\ req \in [Requests -> {Idle} \union Receiving \union Committing]
    /\ \A r \in Requests : req[r] # Idle => upload[req[r].upload] # NoRow

\* A row tells one story: what is VALIDATED or APPLIED is valid, what is
\* INVALID is not, and what is still to be uploaded is untouched.
Coherent(row) ==
    CASE row.status = "PENDING_UPLOAD" -> row.validation = NotValidated /\ row.size > 0
      [] row.status = "INVALID"        -> ~row.validation.valid
      [] OTHER                         -> row.validation.valid

\* Request r would write to a row that changed since r loaded it.
Stale(r) == req[r].op = "commit" /\ req[r].loaded # upload[req[r].upload]

\* Status and validation part ways only when two requests on one upload
\* overlap: no sequence of single requests, aborted ones included, does it.
OnlyStaleWritesMix ==
    [][\A u \in Uploads :
          /\ upload'[u] # upload[u] /\ ~Coherent(upload'[u])
          /\ upload[u] # NoRow => Coherent(upload[u])
          => \E r \in Requests : Stale(r) /\ req[r].upload = u /\ req'[r] = Idle]_vars

\* The validation document is consistent in itself under any interleaving,
\* because it is one column: while it lists an error it is not valid.
ValidHasNoErrors ==
    \A u \in Uploads : upload[u] # NoRow =>
        (upload[u].validation.valid => upload[u].validation.errors = {})
=============================================================================
