--------------------------- MODULE DataUploadProofs ---------------------------
(***************************************************************************)
(* The stored validation is consistent in itself, and with the status      *)
(* unless requests overlap, for every number of requests and uploads and   *)
(* every length and set of rows.                                           *)
(***************************************************************************)
EXTENDS DataUpload, TLAPS

NoErrors(v) == v.valid => v.errors = {}

\* A row as the code writes it.
GoodRow(row) == row \in Rows /\ NoErrors(row.validation)

\* What a request has in hand: what it wants tells one story if what it loaded did.
GoodRequest(q) ==
    \/ q = Idle
    \/ q \in Receiving /\ GoodRow(q.loaded)
    \/ /\ q \in Committing /\ GoodRow(q.loaded) /\ GoodRow(q.wanted)
       /\ Coherent(q.loaded) => Coherent(q.wanted)

Inv ==
    /\ TypeOK
    /\ \A u \in Uploads : upload[u] # NoRow => GoodRow(upload[u])
    /\ \A r \in Requests : GoodRequest(req[r])

\* What the validation functions return.
LEMMA ContentIsGood ==
    ASSUME NEW length \in Lengths
    PROVE  ValidateContent(length) \in Validations /\ NoErrors(ValidateContent(length))
<1> DEFINE v == ValidateContent(length)
<1>1. 0 \in RowNumbers
  BY UploadAssumption
<1>2. /\ v = [valid |-> v.valid, errors |-> v.errors, corrected |-> v.corrected]
      /\ v.valid = (length > 0) /\ v.corrected = {}
      /\ v.errors = IF length > 0 THEN {} ELSE {0}
  BY DEF ValidateContent
<1>3. v.valid \in BOOLEAN
  BY <1>2
<1> HIDE DEF v
<1>4. v.errors \in SUBSET RowNumbers /\ v.corrected \in SUBSET RowNumbers
  BY <1>1, <1>2
<1>5. v \in Validations
  BY <1>2, <1>3, <1>4 DEF Validations
<1>6. NoErrors(v)
  BY <1>2 DEF NoErrors
<1>7. QED BY <1>5, <1>6 DEF v

\* What correct_upload_row makes of a validation: correcting the last error makes it valid.
LEMMA CorrectionIsGood ==
    ASSUME NEW v \in Validations, NEW n \in RowNumbers
    PROVE  Corrected(v, n) \in Validations /\ NoErrors(Corrected(v, n))
<1>1. v.errors \in SUBSET RowNumbers /\ v.corrected \in SUBSET RowNumbers
  BY DEF Validations
<1>2. Corrected(v, n) \in Validations
  BY <1>1 DEF Corrected, Validations
<1>3. QED BY <1>2 DEF Corrected, NoErrors

\* What revalidate_upload makes of a validation.
LEMMA RevalidationIsGood ==
    ASSUME NEW v \in Validations, NEW length \in Lengths
    PROVE  Revalidated(v, length) \in Validations /\ NoErrors(Revalidated(v, length))
<1> DEFINE w == Revalidated(v, length)
<1>1. v = [valid |-> v.valid, errors |-> v.errors, corrected |-> v.corrected]
      /\ v.errors \in SUBSET RowNumbers /\ v.corrected \in SUBSET RowNumbers
  BY DEF Validations
<1>2. /\ w = [valid |-> w.valid, errors |-> w.errors, corrected |-> w.corrected]
      /\ w.errors = v.errors /\ w.corrected = v.corrected
      /\ w.valid = (v.errors = {} /\ length > 0)
  BY <1>1 DEF Revalidated
<1>3. w.valid \in BOOLEAN
  BY <1>2
<1> HIDE DEF w
<1>4. w \in Validations
  BY <1>1, <1>2, <1>3 DEF Validations
<1>5. NoErrors(w)
  BY <1>2 DEF NoErrors
<1>6. QED BY <1>4, <1>5 DEF w

\* A row with the status of its validation tells one story.
LEMMA WithValidationIsGood ==
    ASSUME NEW row \in Rows, NEW v \in Validations, NoErrors(v), NEW length \in Lengths
    PROVE  LET new == WithValidation(row, v) IN
           /\ GoodRow(new) /\ Coherent(new)
           /\ GoodRow([new EXCEPT !.size = length]) /\ Coherent([new EXCEPT !.size = length])
<1> DEFINE new == WithValidation(row, v)
           sized == [new EXCEPT !.size = length]
<1>1. /\ new.status = StatusOf(v) /\ new.validation = v /\ new \in Rows
      /\ sized.status = StatusOf(v) /\ sized.validation = v /\ sized \in Rows
  BY DEF WithValidation, Rows, StatusOf, Statuses
<1> HIDE DEF new, sized
<1>2. GoodRow(new) /\ GoodRow(sized)
  BY <1>1 DEF GoodRow
<1>3. Coherent(new) /\ Coherent(sized)
  BY <1>1 DEF Coherent, StatusOf
<1>4. QED BY <1>2, <1>3 DEF new, sized

\* A valid upload that is applied stays coherent.
LEMMA AppliedIsGood ==
    ASSUME NEW row, GoodRow(row), row.status = "VALIDATED"
    PROVE  LET new == [row EXCEPT !.status = "APPLIED"] IN
           GoodRow(new) /\ (Coherent(row) => Coherent(new))
<1> DEFINE new == [row EXCEPT !.status = "APPLIED"]
<1>1. new \in Rows /\ new.status = "APPLIED" /\ new.validation = row.validation
  BY DEF GoodRow, Rows, Statuses
<1>2. Coherent(row) => row.validation.valid
  BY DEF Coherent
<1> HIDE DEF new
<1>3. GoodRow(new) /\ (Coherent(row) => Coherent(new))
  BY <1>1, <1>2 DEF GoodRow, Coherent
<1>4. QED BY <1>3 DEF new

\* An UPDATE takes each column from what is wanted or from what is stored, and
\* all of them from what is wanted when the row is the one loaded.
LEMMA FlushIsGood ==
    ASSUME NEW l, NEW w, NEW s, GoodRow(l), GoodRow(w), GoodRow(s)
    PROVE  GoodRow(Flush(l, w, s)) /\ Flush(l, w, l) = w
<1>1. /\ l = [status |-> l.status, size |-> l.size, validation |-> l.validation]
      /\ w = [status |-> w.status, size |-> w.size, validation |-> w.validation]
      /\ s = [status |-> s.status, size |-> s.size, validation |-> s.validation]
  BY DEF GoodRow, Rows
<1>2. \A a, b, c \in Rows :
        Flush(a, b, c) = [status |-> IF b.status = a.status THEN c.status ELSE b.status,
                          size |-> IF b.size = a.size THEN c.size ELSE b.size,
                          validation |-> IF b.validation = a.validation THEN c.validation
                                                                         ELSE b.validation]
  BY DEF Flush, Rows
<1>3. QED BY <1>1, <1>2 DEF GoodRow, Rows

\* A request gets something else in hand, or is done: the others keep theirs.
LEMMA RequestGoes ==
    ASSUME Inv, NEW r \in Requests, NEW q, GoodRequest(q), req' = [req EXCEPT ![r] = q],
           q # Idle => upload'[q.upload] # NoRow,
           \A u \in Uploads : upload[u] # NoRow => upload'[u] # NoRow
    PROVE  /\ req' \in [Requests -> {Idle} \union Receiving \union Committing]
           /\ \A p \in Requests : GoodRequest(req'[p])
           /\ \A p \in Requests : req'[p] # Idle => upload'[req'[p].upload] # NoRow
<1>1. q \in {Idle} \union Receiving \union Committing
  BY DEF GoodRequest
<1>2. req \in [Requests -> {Idle} \union Receiving \union Committing]
  BY DEF Inv, TypeOK
<1>3. \A p \in Requests : req'[p] = IF p = r THEN q ELSE req[p]
  BY <1>2
<1>4. \A p \in Requests : req[p] # Idle => req[p].upload \in Uploads /\ upload[req[p].upload] # NoRow
  BY <1>2 DEF Inv, TypeOK, Receiving, Committing
<1>5. \A p \in Requests : req'[p] # Idle => upload'[req'[p].upload] # NoRow
  BY <1>3, <1>4
<1>6. QED BY <1>1, <1>2, <1>3, <1>5 DEF Inv

\* Rows and requests are as the code leaves them: Inv holds at first and every
\* action keeps it.
LEMMA InvHolds == Spec => []Inv
<1>1. Init => Inv
  BY DEF Init, Inv, TypeOK, GoodRequest
<1>2. Inv /\ [Next]_vars => Inv'
  <2> SUFFICES ASSUME Inv, [Next]_vars PROVE Inv'
    OBVIOUS
  <2>0. /\ upload \in [Uploads -> Rows \union {NoRow}]
        /\ file \in [Uploads -> Lengths \union {NoFile}]
        /\ urlOpen \in SUBSET {u \in Uploads : upload[u] # NoRow}
        /\ req \in [Requests -> {Idle} \union Receiving \union Committing]
        /\ \A r \in Requests : GoodRequest(req[r])
        /\ \A u \in Uploads : upload[u] # NoRow => GoodRow(upload[u])
        /\ NoRow \notin Rows
        /\ \A r \in Requests : req[r] # Idle => req[r].upload \in Uploads
                                                /\ upload[req[r].upload] # NoRow
    BY NoRowAssumption DEF Inv, TypeOK, Receiving, Committing
  <2> DEFINE Hands(r, q) == req' = [req EXCEPT ![r] = q] /\ UNCHANGED <<upload, urlOpen>>
  <2>1. ASSUME NEW r \in Requests, NEW q, Hands(r, q), GoodRequest(q),
               q # Idle => upload[q.upload] # NoRow,
               file' \in [Uploads -> Lengths \union {NoFile}]
        PROVE  Inv'
    <3>1. /\ req' \in [Requests -> {Idle} \union Receiving \union Committing]
          /\ \A p \in Requests : GoodRequest(req'[p])
          /\ \A p \in Requests : req'[p] # Idle => upload'[req'[p].upload] # NoRow
      BY <2>1, RequestGoes
    <3>2. upload' = upload /\ urlOpen' = urlOpen
      BY <2>1
    <3>3. QED BY <2>0, <2>1, <3>1, <3>2 DEF Inv, TypeOK
  \* A new row.
  <2>2. ASSUME NEW u \in Uploads, NEW row, GoodRow(row), upload[u] = NoRow,
               upload' = [upload EXCEPT ![u] = row], UNCHANGED <<file, req>>,
               urlOpen' \in {urlOpen, urlOpen \union {u}}
        PROVE  Inv'
    <3>1. row \in Rows /\ row # NoRow
      BY <2>2, NoRowAssumption DEF GoodRow
    <3>2. \A v \in Uploads : upload'[v] = IF v = u THEN row ELSE upload[v]
      BY <2>0, <2>2
    <3>3. upload' \in [Uploads -> Rows \union {NoRow}]
      BY <2>0, <2>2, <3>1
    <3>4. urlOpen' \in SUBSET {v \in Uploads : upload'[v] # NoRow}
      BY <2>0, <2>2, <3>1, <3>2
    <3>5. \A v \in Uploads : upload'[v] # NoRow => GoodRow(upload'[v])
      BY <2>0, <2>2, <3>2
    <3>6. \A r \in Requests : req[r] # Idle => upload'[req[r].upload] # NoRow
      BY <2>0, <3>1, <3>2
    <3>7. file' = file /\ req' = req
      BY <2>2
    <3>8. QED BY <2>0, <3>3, <3>4, <3>5, <3>6, <3>7 DEF Inv, TypeOK
  <2>3. ASSUME NEW u \in Uploads, NEW length \in Lengths, CreateUpload(u, length) PROVE Inv'
    <3> DEFINE row == [status |-> "PENDING_UPLOAD", size |-> length, validation |-> NotValidated]
    <3>1. GoodRow(row)
      BY DEF GoodRow, Rows, Statuses, Validations, NotValidated, NoErrors
    <3>2. /\ upload' = [upload EXCEPT ![u] = row] /\ UNCHANGED <<file, req>> /\ upload[u] = NoRow
          /\ urlOpen' = urlOpen \union {u}
      BY <2>3 DEF CreateUpload
    <3> HIDE DEF row
    <3>3. QED BY <2>2, <3>1, <3>2
  <2>4. ASSUME NEW u \in Uploads, NEW length \in Lengths, UploadDirect(u, length) PROVE Inv'
    <3> DEFINE v == ValidateContent(length)
               row == [status |-> StatusOf(v), size |-> length, validation |-> v]
    <3>1. v \in Validations /\ NoErrors(v)
      BY ContentIsGood
    <3>2. /\ upload' = [upload EXCEPT ![u] = row] /\ UNCHANGED <<file, req>> /\ upload[u] = NoRow
          /\ urlOpen' = urlOpen
      BY <2>4 DEF UploadDirect
    <3> HIDE DEF v
    <3>3. GoodRow(row)
      BY <3>1 DEF GoodRow, Rows, Statuses, StatusOf
    <3> HIDE DEF row
    <3>4. QED BY <2>2, <3>2, <3>3
  <2>5. ASSUME NEW u \in Uploads, UrlExpires(u) PROVE Inv'
    <3>1. upload' = upload /\ file' = file /\ req' = req /\ urlOpen' = urlOpen \ {u}
      BY <2>5 DEF UrlExpires
    <3>2. QED BY <2>0, <3>1 DEF Inv, TypeOK
  <2>6. ASSUME NEW r \in Requests, NEW u \in Uploads, ReadForPut(r, u) PROVE Inv'
    <3> DEFINE q == [op |-> "receive", upload |-> u, loaded |-> upload[u]]
    <3>1. upload[u] # NoRow /\ GoodRow(upload[u])
      BY <2>0, <2>6 DEF ReadForPut
    <3>2. q \in Receiving /\ q.loaded = upload[u] /\ q.upload = u
      BY <2>0, <3>1 DEF Receiving
    <3>3. Hands(r, q) /\ file' = file
      BY <2>6 DEF ReadForPut
    <3> HIDE DEF q
    <3>4. GoodRequest(q)
      BY <3>1, <3>2 DEF GoodRequest
    <3>5. QED BY <2>0, <2>1, <3>1, <3>2, <3>3, <3>4
  <2>7. ASSUME NEW r \in Requests, NEW length \in Lengths, WriteFile(r, length) PROVE Inv'
    <3> DEFINE u == req[r].upload
               l == req[r].loaded
               w == [WithValidation(l, ValidateContent(length)) EXCEPT !.size = length]
               q == [op |-> "commit", upload |-> u, loaded |-> l, wanted |-> w]
    <3>1. req[r] \in Receiving /\ GoodRow(l) /\ u \in Uploads /\ upload[u] # NoRow
      BY <2>0, <2>7 DEF WriteFile, GoodRequest, Idle, Receiving, Committing
    <3>2. GoodRow(w) /\ Coherent(w)
      BY <3>1, ContentIsGood, WithValidationIsGood DEF GoodRow
    <3>3. Hands(r, q) /\ file' = [file EXCEPT ![u] = length]
      BY <2>7 DEF WriteFile
    <3> HIDE DEF w
    <3>4. q \in Committing /\ q.loaded = l /\ q.wanted = w /\ q.upload = u
      BY <3>1, <3>2 DEF Committing, GoodRow
    <3>5. file' \in [Uploads -> Lengths \union {NoFile}]
      BY <2>0, <3>1, <3>3
    <3> HIDE DEF q
    <3>6. GoodRequest(q)
      BY <3>1, <3>2, <3>4 DEF GoodRequest
    <3>7. QED BY <2>1, <3>1, <3>3, <3>4, <3>5, <3>6
  \* A request that loads a row and wants another one.
  <2>8. ASSUME NEW r \in Requests, NEW u \in Uploads, NEW w, Load(r, u, w),
               GoodRow(w), Coherent(upload[u]) => Coherent(w)
        PROVE  Inv'
    <3> DEFINE q == [op |-> "commit", upload |-> u, loaded |-> upload[u], wanted |-> w]
    <3>1. upload[u] # NoRow /\ GoodRow(upload[u])
      BY <2>0, <2>8 DEF Load
    <3>2. q \in Committing /\ q.loaded = upload[u] /\ q.wanted = w /\ q.upload = u
      BY <2>8, <3>1 DEF Committing, GoodRow
    <3>3. Hands(r, q) /\ file' = file
      BY <2>8 DEF Load
    <3> HIDE DEF q
    <3>4. GoodRequest(q)
      BY <2>8, <3>1, <3>2 DEF GoodRequest
    <3>5. QED BY <2>0, <2>1, <3>1, <3>2, <3>3, <3>4
  <2>9. ASSUME NEW r \in Requests, NEW u \in Uploads, NEW n \in RowNumbers,
               CorrectUploadRow(r, u, n)
        PROVE  Inv'
    <3>1. GoodRow(upload[u])
      BY <2>0, <2>9 DEF CorrectUploadRow
    <3> DEFINE v == Corrected(upload[u].validation, n)
    <3>2. upload[u].validation \in Validations /\ upload[u] \in Rows /\ upload[u].size \in Lengths
      BY <3>1 DEF GoodRow, Rows
    <3>3. v \in Validations /\ NoErrors(v)
      BY <3>2, CorrectionIsGood
    <3>4. Load(r, u, WithValidation(upload[u], v))
      BY <2>9 DEF CorrectUploadRow
    <3> HIDE DEF v
    <3>5. QED BY <2>8, <3>2, <3>3, <3>4, WithValidationIsGood
  <2>10. ASSUME NEW r \in Requests, NEW u \in Uploads, RevalidateUpload(r, u) PROVE Inv'
    <3>1. GoodRow(upload[u])
      BY <2>0, <2>10 DEF RevalidateUpload
    <3> DEFINE v == Revalidated(upload[u].validation, upload[u].size)
    <3>2. upload[u].validation \in Validations /\ upload[u] \in Rows /\ upload[u].size \in Lengths
      BY <3>1 DEF GoodRow, Rows
    <3>3. v \in Validations /\ NoErrors(v)
      BY <3>2, RevalidationIsGood
    <3>4. Load(r, u, WithValidation(upload[u], v))
      BY <2>10 DEF RevalidateUpload
    <3> HIDE DEF v
    <3>5. QED BY <2>8, <3>2, <3>3, <3>4, WithValidationIsGood
  <2>11. ASSUME NEW r \in Requests, NEW u \in Uploads, CommitUpload(r, u) PROVE Inv'
    <3>1. GoodRow(upload[u]) /\ upload[u].status = "VALIDATED"
      BY <2>0, <2>11 DEF CommitUpload
    <3>2. Load(r, u, [upload[u] EXCEPT !.status = "APPLIED"])
      BY <2>11 DEF CommitUpload
    <3>3. QED BY <2>8, <3>1, <3>2, AppliedIsGood
  <2>12. ASSUME NEW r \in Requests, Commit(r) PROVE Inv'
    <3> DEFINE u == req[r].upload
               new == Flush(req[r].loaded, req[r].wanted, upload[u])
    <3>1. /\ req[r] \in Committing /\ GoodRow(req[r].loaded) /\ GoodRow(req[r].wanted)
          /\ u \in Uploads /\ GoodRow(upload[u])
      BY <2>0, <2>12 DEF Commit, GoodRequest, Idle, Receiving
    <3>2. GoodRow(new)
      BY <3>1, FlushIsGood
    <3>3. new \in Rows /\ new # NoRow
      BY <2>0, <3>2 DEF GoodRow
    <3>4. /\ upload' = [upload EXCEPT ![u] = new] /\ req' = [req EXCEPT ![r] = Idle]
          /\ file' = file /\ urlOpen' = urlOpen
      BY <2>12 DEF Commit
    <3> HIDE DEF new
    <3>5. \A v \in Uploads : upload'[v] = IF v = u THEN new ELSE upload[v]
      BY <2>0, <3>4
    <3>6. upload' \in [Uploads -> Rows \union {NoRow}]
      BY <2>0, <3>1, <3>3, <3>4
    <3>7. \A v \in Uploads : upload[v] # NoRow => upload'[v] # NoRow
      BY <3>3, <3>5
    <3>8. /\ req' \in [Requests -> {Idle} \union Receiving \union Committing]
          /\ \A p \in Requests : GoodRequest(req'[p])
          /\ \A p \in Requests : req'[p] # Idle => upload'[req'[p].upload] # NoRow
      <4>1. GoodRequest(Idle)
        BY DEF GoodRequest
      <4>2. QED BY <3>4, <3>7, <4>1, RequestGoes
    <3>9. urlOpen' \in SUBSET {v \in Uploads : upload'[v] # NoRow}
      BY <2>0, <3>4, <3>7
    <3>10. \A v \in Uploads : upload'[v] # NoRow => GoodRow(upload'[v])
      BY <2>0, <3>2, <3>5
    <3>11. QED BY <2>0, <3>4, <3>6, <3>8, <3>9, <3>10 DEF Inv, TypeOK
  <2>13. ASSUME NEW r \in Requests, Rollback(r) PROVE Inv'
    <3>1. Hands(r, Idle) /\ file' = file /\ GoodRequest(Idle)
      BY <2>13 DEF Rollback, GoodRequest
    <3>2. QED BY <2>0, <2>1, <3>1
  <2>14. CASE UNCHANGED vars
    BY <2>14 DEF vars, Inv, TypeOK
  <2>15. QED
    BY <2>3, <2>4, <2>5, <2>6, <2>7, <2>9, <2>10, <2>11, <2>12, <2>13, <2>14 DEF Next
<1>3. QED BY <1>1, <1>2, PTL DEF Spec

\* Tables, files and requests hold what they should.
THEOREM UploadTypeCorrect == Spec => []TypeOK
<1>1. Inv => TypeOK
  BY DEF Inv
<1>2. QED BY <1>1, InvHolds, PTL

\* While a stored validation lists an error it is not valid, whatever overlaps.
THEOREM ValidationConsistent == Spec => []ValidHasNoErrors
<1>1. Inv => ValidHasNoErrors
  BY DEF Inv, ValidHasNoErrors, GoodRow, NoErrors
<1>2. QED BY <1>1, InvHolds, PTL

\* Status and validation part ways only by a commit over a row that changed
\* since its load.
THEOREM OnlyOverlapsMix == Spec => OnlyStaleWritesMix
<1>1. Inv /\ [Next]_vars =>
        [\A u \in Uploads :
           /\ upload'[u] # upload[u] /\ ~Coherent(upload'[u])
           /\ upload[u] # NoRow => Coherent(upload[u])
           => \E r \in Requests : Stale(r) /\ req[r].upload = u /\ req'[r] = Idle]_vars
  <2> SUFFICES ASSUME Inv, Next, NEW u \in Uploads,
                      upload'[u] # upload[u], ~Coherent(upload'[u]),
                      upload[u] # NoRow => Coherent(upload[u])
               PROVE  \E r \in Requests : Stale(r) /\ req[r].upload = u /\ req'[r] = Idle
    OBVIOUS
  <2>0. /\ upload \in [Uploads -> Rows \union {NoRow}]
        /\ req \in [Requests -> {Idle} \union Receiving \union Committing]
        /\ \A r \in Requests : GoodRequest(req[r])
        /\ \A v \in Uploads : upload[v] # NoRow => GoodRow(upload[v])
        /\ \A r \in Requests : req[r] # Idle => upload[req[r].upload] # NoRow
    BY DEF Inv, TypeOK
  <2>1. ASSUME NEW v \in Uploads, NEW length \in Lengths, CreateUpload(v, length) PROVE FALSE
    <3> DEFINE row == [status |-> "PENDING_UPLOAD", size |-> length, validation |-> NotValidated]
    <3>1. upload' = [upload EXCEPT ![v] = row] /\ length > 0
      BY <2>1 DEF CreateUpload
    <3>2. Coherent(row)
      BY <3>1 DEF Coherent
    <3> HIDE DEF row
    <3>3. QED BY <2>0, <3>1, <3>2
  <2>2. ASSUME NEW v \in Uploads, NEW length \in Lengths, UploadDirect(v, length) PROVE FALSE
    <3> DEFINE w == ValidateContent(length)
               row == [status |-> StatusOf(w), size |-> length, validation |-> w]
    <3>1. upload' = [upload EXCEPT ![v] = row]
      BY <2>2 DEF UploadDirect
    <3>2. Coherent(row)
      <4> HIDE DEF w
      <4>1. QED BY DEF Coherent, StatusOf
    <3> HIDE DEF row
    <3>3. QED BY <2>0, <3>1, <3>2
  <2>3. PICK r \in Requests : Commit(r)
    BY <2>1, <2>2 DEF Next, UrlExpires, ReadForPut, CorrectUploadRow, RevalidateUpload,
       CommitUpload, Load, WriteFile, Rollback
  <2> DEFINE new == Flush(req[r].loaded, req[r].wanted, upload[req[r].upload])
  <2>4. /\ upload' = [upload EXCEPT ![req[r].upload] = new] /\ req'[r] = Idle
        /\ req[r].op = "commit"
    BY <2>0, <2>3 DEF Commit
  <2>5. req[r].upload = u /\ upload'[u] = new
    BY <2>0, <2>4
  <2>6. /\ GoodRow(req[r].loaded) /\ GoodRow(req[r].wanted)
        /\ Coherent(req[r].loaded) => Coherent(req[r].wanted)
        /\ req[r] # Idle
    BY <2>0, <2>4 DEF GoodRequest, Idle, Receiving
  <2> HIDE DEF new
  <2>7. ASSUME req[r].loaded = upload[u] PROVE FALSE
    <3>1. upload[u] # NoRow /\ Coherent(upload[u])
      BY <2>0, <2>5, <2>6
    <3>2. new = req[r].wanted
      BY <2>0, <2>5, <2>6, <2>7, <3>1, FlushIsGood DEF new
    <3>3. QED BY <2>5, <2>6, <2>7, <3>1, <3>2
  <2>8. Stale(r)
    BY <2>4, <2>5, <2>7 DEF Stale
  <2>9. QED BY <2>4, <2>5, <2>8
<1>2. QED BY <1>1, InvHolds, PTL DEF Spec, OnlyStaleWritesMix
=============================================================================
