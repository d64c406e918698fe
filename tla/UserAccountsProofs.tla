-------------------------- MODULE UserAccountsProofs --------------------------
(***************************************************************************)
(* Login ids stay unique, profile columns are written only by requests     *)
(* that sent them, and a PATCH writes both tables or neither, for every    *)
(* number of requests, ids, logins and fields' values.                     *)
(***************************************************************************)
EXTENDS UserAccounts, TLAPS

Copying == Saving \union Patching \union Patched
Phases  == {Idle} \union Finding \union Copying \union Imaging

\* A request whose UPDATE or INSERT of an account holds the locks.
Writer(r) == Flushed(r) /\ Writes(r)

\* The login of the account such a request leaves.
SavedLogin(r) == SavedAccount(req[r]).login

\* Rows that were loaded are still there.
RowsStay ==
    \A r \in Requests : req[r] \in Copying /\ req[r].loaded # NoRow => account[req[r].id] # NoRow

\* The row a writer inserts is not there, and no other writer has the row.
LocksHold ==
    \A r \in Requests : Writer(r) =>
        /\ req[r].loaded = NoRow => account[req[r].id] = NoRow
        /\ \A q \in Requests \ {r} : Writer(q) => req[q].id # req[r].id

\* What writers leave behind is unique among rows and writers.
LoginsReserved ==
    \A r \in Requests : Writer(r) =>
        /\ \A i \in Ids \ {req[r].id} : account[i] # NoRow => account[i].login # SavedLogin(r)
        /\ \A q \in Requests \ {r} : Writer(q) => SavedLogin(q) # SavedLogin(r)

\* A profile differs from the one that was read only in fields that were sent,
\* and one that was read is still there.
FieldsSent ==
    \A r \in Requests : req[r] \in Patched \union Imaging /\ req[r].held # NoRow =>
        /\ profile[req[r].id] # NoRow
        /\ \A f \in {"phone", "avatar"} :
              req[r].wanted[f] # req[r].held[f] => f \in req[r].sent

RowInv   == TypeOK /\ RowsStay /\ FieldsSent
LoginInv == LocksHold /\ LoginsReserved /\ LoginsUnique

----------------------------------------------------------------------------
(* Types *)

\* What a request in a phase holds.
LEMMA RequestKinds ==
    ASSUME TypeOK, NEW r \in Requests
    PROVE  /\ req[r] \in Phases
           /\ req[r].at = "find" => req[r] \in Finding
           /\ req[r].at = "merge" => req[r] \in Saving \union Patching
           /\ req[r].at = "flush" => req[r] \in Saving \union Patching
           /\ req[r].at = "profile" => req[r] \in Patching
           /\ req[r].at = "commit" => req[r] \in Saving \union Patched \union Imaging
<1>1. req[r] \in Phases
  BY DEF TypeOK, Phases, Copying
<1>2. Idle.at = "idle"
  BY DEF Idle
<1>3. \A q \in Finding : q.at = "find"
  BY DEF Finding
<1>4. \A q \in Saving : q.at \in {"merge", "flush", "commit"}
  BY DEF Saving
<1>5. \A q \in Patching : q.at \in {"merge", "flush", "profile"}
  BY DEF Patching
<1>6. \A q \in Patched \union Imaging : q.at = "commit"
  BY DEF Patched, Imaging
<1>7. QED BY <1>1, <1>2, <1>3, <1>4, <1>5, <1>6 DEF Phases, Copying

\* The ids that requests are about, and the fields they have.
LEMMA RequestFields ==
    /\ \A q \in Phases : q # Idle => q.id \in Ids
    /\ \A q \in Copying : /\ q # Idle /\ "copy" \in DOMAIN q
                          /\ q.copy \in Accounts /\ q.loaded \in Accounts \union {NoRow}
    /\ \A q \in Patched \union Imaging : /\ q # Idle /\ "wanted" \in DOMAIN q
                                         /\ q.wanted \in Profiles
                                         /\ q.held \in Profiles \union {NoRow}
    /\ \A q \in Imaging \union Finding \union {Idle} : "copy" \notin DOMAIN q
    /\ \A q \in Saving \union Patching \union Finding \union {Idle} : "wanted" \notin DOMAIN q
<1>1. \A q \in Finding : /\ q # Idle /\ q.id \in Ids /\ "copy" \notin DOMAIN q
                         /\ "wanted" \notin DOMAIN q
  BY DEF Finding, Idle
<1>2. \A q \in Saving : /\ q # Idle /\ q.id \in Ids /\ "copy" \in DOMAIN q
                        /\ "wanted" \notin DOMAIN q
                        /\ q.copy \in Accounts /\ q.loaded \in Accounts \union {NoRow}
  BY DEF Saving, Idle
<1>3. \A q \in Patching : /\ q # Idle /\ q.id \in Ids /\ "copy" \in DOMAIN q
                          /\ "wanted" \notin DOMAIN q
                          /\ q.copy \in Accounts /\ q.loaded \in Accounts \union {NoRow}
  BY DEF Patching, Idle
<1>4. \A q \in Patched : /\ q # Idle /\ q.id \in Ids /\ "copy" \in DOMAIN q
                         /\ "wanted" \in DOMAIN q
                         /\ q.copy \in Accounts /\ q.loaded \in Accounts \union {NoRow}
                         /\ q.wanted \in Profiles /\ q.held \in Profiles \union {NoRow}
  BY DEF Patched, Idle
<1>5. \A q \in Imaging : /\ q # Idle /\ q.id \in Ids /\ "copy" \notin DOMAIN q
                         /\ "wanted" \in DOMAIN q
                         /\ q.wanted \in Profiles /\ q.held \in Profiles \union {NoRow}
  BY DEF Imaging, Idle
<1>6. "copy" \notin DOMAIN Idle /\ "wanted" \notin DOMAIN Idle
  BY DEF Idle
<1>7. QED BY <1>1, <1>2, <1>3, <1>4, <1>5, <1>6 DEF Phases, Copying

\* Columns are merged into rows of the table.
LEMMA FlushedRows ==
    /\ \A l, w, n \in Accounts : /\ Flush(l, w, n) \in Accounts
                                 /\ Flush(l, w, n).login = IF w.login = l.login THEN n.login
                                                                                ELSE w.login
    /\ \A l, w, n \in Profiles :
          /\ Flush(l, w, n) \in Profiles
          /\ \A f \in {"phone", "avatar"} :
                Flush(l, w, n)[f] = IF w[f] = l[f] THEN n[f] ELSE w[f]
BY DEF Flush, Accounts, Profiles

\* A profile with some fields replaced is one, and differs in those at most.
LEMMA FieldsOfProfiles ==
    ASSUME NEW p \in Profiles, NEW sent, NEW phone,
           "phone" \in sent => phone \in Phones
    PROVE  /\ WithFields(p, sent, phone) \in Profiles
           /\ \A f \in {"phone", "avatar"} : WithFields(p, sent, phone)[f] # p[f] => f \in sent
BY DEF WithFields, Profiles, Avatars

\* The profile a request starts from: the stored one, or a blank one.
LEMMA HeldProfile ==
    ASSUME TypeOK, NEW id \in Ids
    PROVE  Held(id) \in Profiles /\ (profile[id] # NoRow => Held(id) = profile[id])
BY DEF TypeOK, Held, BlankProfile, Profiles, Avatars

\* A request goes on: tables and the other requests keep their types.
LEMMA RequestGoes ==
    ASSUME TypeOK, NEW r \in Requests, NEW q \in Phases, req' = [req EXCEPT ![r] = q],
           q # Idle /\ q.op # "register" => account'[q.id] # NoRow,
           account' \in [Ids -> Accounts \union {NoRow}],
           profile' \in [Ids -> Profiles \union {NoRow}],
           \A i \in Ids : account[i] # NoRow => account'[i] # NoRow,
           \A i \in Ids : profile'[i] # NoRow => account'[i] # NoRow
    PROVE  TypeOK'
<1>1. req' \in [Requests -> {Idle} \union Finding \union Saving \union Patching
                            \union Patched \union Imaging]
  BY DEF TypeOK, Phases, Copying
<1>2. ASSUME NEW p \in Requests, req'[p] # Idle, req'[p].op # "register"
      PROVE  account'[req'[p].id] # NoRow
  <2>1. CASE p = r
    BY <2>1, <1>2 DEF TypeOK
  <2>2. CASE p # r
    <3>1. req'[p] = req[p]
      BY <2>2 DEF TypeOK
    <3>2. req[p] \in Phases /\ req[p].id \in Ids
      BY <3>1, <1>2, RequestKinds, RequestFields
    <3>3. QED BY <3>1, <3>2, <1>2 DEF TypeOK
  <2>3. QED BY <2>1, <2>2
<1>3. QED BY <1>1, <1>2 DEF TypeOK

\* The same of RowInv, when rows stay and the request goes by rows that are there.
LEMMA RequestGoesByRows ==
    ASSUME RowInv, NEW r \in Requests, NEW q \in Phases, req' = [req EXCEPT ![r] = q],
           q # Idle /\ q.op # "register" => account'[q.id] # NoRow,
           q \in Copying /\ q.loaded # NoRow => account'[q.id] # NoRow,
           q \in Patched \union Imaging /\ q.held # NoRow =>
              /\ profile'[q.id] # NoRow
              /\ \A f \in {"phone", "avatar"} : q.wanted[f] # q.held[f] => f \in q.sent,
           account' \in [Ids -> Accounts \union {NoRow}],
           profile' \in [Ids -> Profiles \union {NoRow}],
           \A i \in Ids : account[i] # NoRow => account'[i] # NoRow,
           \A i \in Ids : profile[i] # NoRow => profile'[i] # NoRow,
           \A i \in Ids : profile'[i] # NoRow => account'[i] # NoRow
    PROVE  RowInv'
<1>1. TypeOK'
  BY RequestGoes DEF RowInv
<1>2. /\ req'[r] = q
      /\ \A p \in Requests \ {r} : req'[p] = req[p]
      /\ \A p \in Requests : req[p] \in Phases
  BY RequestKinds DEF RowInv, TypeOK
<1>3. \A p \in Requests : req[p] \in Copying \union Patched \union Imaging => req[p].id \in Ids
  BY <1>2, RequestFields
<1>4. RowsStay'
  <2> SUFFICES ASSUME NEW p \in Requests, req'[p] \in Copying, req'[p].loaded # NoRow
               PROVE  account'[req'[p].id] # NoRow
    BY DEF RowsStay
  <2>1. QED BY <1>2, <1>3 DEF RowInv, RowsStay
<1>5. FieldsSent'
  <2> SUFFICES ASSUME NEW p \in Requests, req'[p] \in Patched \union Imaging, req'[p].held # NoRow
               PROVE  /\ profile'[req'[p].id] # NoRow
                      /\ \A f \in {"phone", "avatar"} :
                            req'[p].wanted[f] # req'[p].held[f] => f \in req'[p].sent
    BY DEF FieldsSent
  <2>1. QED BY <1>2, <1>3 DEF RowInv, FieldsSent
<1>6. QED BY <1>1, <1>4, <1>5 DEF RowInv

\* A request goes on without writing.
LEMMA RequestReads ==
    ASSUME RowInv, NEW r \in Requests, NEW q \in Phases, req' = [req EXCEPT ![r] = q],
           q # Idle /\ q.op # "register" => account[q.id] # NoRow,
           q \in Copying /\ q.loaded # NoRow => account[q.id] # NoRow,
           q \in Patched \union Imaging /\ q.held # NoRow =>
              /\ profile[q.id] # NoRow
              /\ \A f \in {"phone", "avatar"} : q.wanted[f] # q.held[f] => f \in q.sent,
           UNCHANGED <<account, profile>>
    PROVE  RowInv'
<1>1. /\ account' \in [Ids -> Accounts \union {NoRow}]
      /\ profile' \in [Ids -> Profiles \union {NoRow}]
      /\ \A i \in Ids : profile'[i] # NoRow => account'[i] # NoRow
  BY DEF RowInv, TypeOK
<1>2. QED BY <1>1, RequestGoesByRows

\* merge and flush change the phase of a request, and what it merged into.
LEMMA MergedRequest ==
    ASSUME TypeOK, NEW r \in Requests, req[r].at = "merge"
    PROVE  LET q == [req[r] EXCEPT !.at = "flush", !.loaded = account[req[r].id]] IN
           /\ MergeSelect(r) <=> req' = [req EXCEPT ![r] = q] /\ UNCHANGED <<account, profile>>
           /\ q \in Saving \union Patching
           /\ q.id = req[r].id /\ q.op = req[r].op /\ q.copy = req[r].copy
           /\ q.loaded = account[req[r].id] /\ q.at = "flush"
<1> DEFINE q == [req[r] EXCEPT !.at = "flush", !.loaded = account[req[r].id]]
<1>1. req[r] \in Saving \union Patching /\ req[r].id \in Ids
  BY RequestKinds, RequestFields DEF Phases, Copying
<1>2. account[req[r].id] \in Accounts \union {NoRow}
  BY <1>1 DEF TypeOK
<1>3. MergeSelect(r) <=> req' = [req EXCEPT ![r] = q] /\ UNCHANGED <<account, profile>>
  BY DEF MergeSelect
<1>4. CASE req[r] \in Saving
  <2>1. q \in Saving /\ q.id = req[r].id /\ q.op = req[r].op /\ q.copy = req[r].copy
        /\ q.loaded = account[req[r].id] /\ q.at = "flush"
    BY <1>2, <1>4 DEF Saving
  <2>2. QED BY <1>3, <2>1
<1>5. CASE req[r] \in Patching
  <2>1. q \in Patching /\ q.id = req[r].id /\ q.op = req[r].op /\ q.copy = req[r].copy
        /\ q.loaded = account[req[r].id] /\ q.at = "flush"
    BY <1>2, <1>5 DEF Patching
  <2>2. QED BY <1>3, <2>1
<1>6. QED BY <1>1, <1>4, <1>5

\* A flush takes a request on and leaves what it holds.
LEMMA FlushedRequest ==
    ASSUME TypeOK, NEW r \in Requests, FlushAccount(r)
    PROVE  LET q == [req[r] EXCEPT !.at = IF req[r].op = "patch" THEN "profile" ELSE "commit"] IN
           /\ req' = [req EXCEPT ![r] = q] /\ UNCHANGED <<account, profile>>
           /\ req[r] \in Saving \union Patching /\ q \in Saving \union Patching
           /\ q.at \in {"profile", "commit"}
           /\ q.id = req[r].id /\ q.op = req[r].op /\ q.copy = req[r].copy
           /\ q.loaded = req[r].loaded
<1> DEFINE q == [req[r] EXCEPT !.at = IF req[r].op = "patch" THEN "profile" ELSE "commit"]
<1>1. req[r] \in Saving \union Patching
  BY RequestKinds DEF FlushAccount
<1>2. req' = [req EXCEPT ![r] = q] /\ UNCHANGED <<account, profile>>
  BY DEF FlushAccount
<1>3. CASE req[r] \in Saving
  <2>1. req[r].op # "patch"
    BY <1>3 DEF Saving
  <2>2. q = [req[r] EXCEPT !.at = "commit"]
    BY <2>1
  <2>3. q \in Saving /\ q.at = "commit" /\ q.id = req[r].id /\ q.op = req[r].op
        /\ q.copy = req[r].copy /\ q.loaded = req[r].loaded
    BY <1>3, <2>2 DEF Saving
  <2>4. QED BY <1>1, <1>2, <2>3
<1>4. CASE req[r] \in Patching
  <2>1. req[r].op = "patch"
    BY <1>4 DEF Patching
  <2>2. q = [req[r] EXCEPT !.at = "profile"]
    BY <2>1
  <2>3. q \in Patching /\ q.at = "profile" /\ q.id = req[r].id /\ q.op = req[r].op
        /\ q.copy = req[r].copy /\ q.loaded = req[r].loaded
    BY <1>4, <2>2 DEF Patching
  <2>4. QED BY <1>1, <1>2, <2>3
<1>5. QED BY <1>1, <1>3, <1>4

\* What reading the profile leaves in hand.
LEMMA ProfiledRequest ==
    ASSUME TypeOK, NEW r \in Requests, PatchReadProfile(r)
    PROVE  \E q \in Patched :
              /\ req' = [req EXCEPT ![r] = q] /\ UNCHANGED <<account, profile>>
              /\ req[r] \in Patching /\ req[r].at = "profile"
              /\ q.id = req[r].id /\ q.copy = req[r].copy /\ q.loaded = req[r].loaded
              /\ q.held = profile[q.id]
              /\ q.held # NoRow => \A f \in {"phone", "avatar"} :
                                      q.wanted[f] # q.held[f] => f \in q.sent
<1>1. req[r] \in Patching /\ req[r].at = "profile"
  BY RequestKinds DEF PatchReadProfile
<1>2. /\ req[r].id \in Ids /\ req[r].sent \in SUBSET {"name", "phone"} /\ req[r].phone \in Phones
      /\ req[r].copy \in Accounts /\ req[r].loaded \in Accounts \union {NoRow}
  BY <1>1 DEF Patching
<1> DEFINE w == WithFields(Held(req[r].id), req[r].sent, req[r].phone)
           q == [at |-> "commit", op |-> "patch", id |-> req[r].id, sent |-> req[r].sent,
                 copy |-> req[r].copy, loaded |-> req[r].loaded, held |-> profile[req[r].id],
                 wanted |-> w]
<1>3. /\ w \in Profiles
      /\ \A f \in {"phone", "avatar"} : w[f] # Held(req[r].id)[f] => f \in req[r].sent
  <2>1. Held(req[r].id) \in Profiles
    BY <1>2, HeldProfile
  <2>2. QED BY <1>2, <2>1, FieldsOfProfiles
<1>4. profile[req[r].id] \in Profiles \union {NoRow}
  BY <1>2 DEF TypeOK
<1>5. q \in Patched
  BY <1>2, <1>3, <1>4 DEF Patched
<1>6. req' = [req EXCEPT ![r] = q] /\ UNCHANGED <<account, profile>>
  BY DEF PatchReadProfile, Goto
<1>7. profile[req[r].id] # NoRow => Held(req[r].id) = profile[req[r].id]
  BY <1>2, HeldProfile
<1> HIDE DEF w
<1>8. QED BY <1>1, <1>3, <1>5, <1>6, <1>7

\* Reading the profile for images leaves it in hand, the avatar replaced.
LEMMA ImagedRequest ==
    ASSUME TypeOK, NEW r \in Requests, NEW id \in Ids, ImagesReadProfile(r, id)
    PROVE  \E q \in Imaging :
              /\ req' = [req EXCEPT ![r] = q] /\ UNCHANGED <<account, profile>>
              /\ q.id = id /\ account[id] # NoRow /\ q.held = profile[id]
              /\ q.held # NoRow => \A f \in {"phone", "avatar"} :
                                      q.wanted[f] # q.held[f] => f \in q.sent
<1> DEFINE w == WithFields(Held(id), {"avatar"}, Null)
           q == [at |-> "commit", op |-> "images", id |-> id, sent |-> {"avatar"},
                 held |-> profile[id], wanted |-> w]
<1>1. /\ w \in Profiles
      /\ \A f \in {"phone", "avatar"} : w[f] # Held(id)[f] => f \in {"avatar"}
  BY HeldProfile, FieldsOfProfiles
<1>2. profile[id] \in Profiles \union {NoRow}
  BY DEF TypeOK
<1>3. q \in Imaging
  BY <1>1, <1>2 DEF Imaging
<1>4. req' = [req EXCEPT ![r] = q] /\ UNCHANGED <<account, profile>> /\ account[id] # NoRow
  BY DEF ImagesReadProfile, Goto
<1>5. profile[id] # NoRow => Held(id) = profile[id]
  BY HeldProfile
<1> HIDE DEF w
<1>6. QED BY <1>1, <1>3, <1>4, <1>5

\* What a commit writes.
LEMMA CommittedRows ==
    ASSUME RowInv, NEW r \in Requests, Commit(r)
    PROVE  LET i == req[r].id IN
           /\ i \in Ids /\ req[r] \in Saving \union Patched \union Imaging
           /\ req' = [req EXCEPT ![r] = Idle]
           /\ account' = [account EXCEPT ![i] = SavedAccount(req[r])]
           /\ profile' = [profile EXCEPT ![i] = SavedProfile(req[r])]
           /\ SavedAccount(req[r]) \in Accounts \union {NoRow}
           /\ account[i] # NoRow => SavedAccount(req[r]) # NoRow
           /\ SavedProfile(req[r]) \in Profiles \union {NoRow}
           /\ profile[i] # NoRow => SavedProfile(req[r]) # NoRow
           /\ SavedProfile(req[r]) # NoRow => account[i] # NoRow
<1> DEFINE i == req[r].id
<1>1. req[r] \in Saving \union Patched \union Imaging /\ i \in Ids
  BY RequestKinds, RequestFields DEF RowInv, Commit, Phases, Copying
<1>2. account[i] \in Accounts \union {NoRow} /\ profile[i] \in Profiles \union {NoRow}
  BY <1>1 DEF RowInv, TypeOK
<1>3. /\ SavedAccount(req[r]) \in Accounts \union {NoRow}
      /\ account[i] # NoRow => SavedAccount(req[r]) # NoRow
  <2>1. CASE req[r] \in Imaging
    BY <2>1, <1>2, RequestFields DEF SavedAccount
  <2>2. CASE req[r] \in Saving \union Patched
    <3>1. /\ req[r].copy \in Accounts /\ req[r].loaded \in Accounts \union {NoRow}
          /\ req[r].loaded # NoRow => account[i] # NoRow
      BY <2>2, RequestFields DEF Copying, RowInv, RowsStay
    <3>2. NoRow \notin Accounts
      BY UserAssumption
    <3>3. req[r].loaded # NoRow => Flush(req[r].loaded, req[r].copy, account[i]) \in Accounts
      BY <3>1, <1>2, FlushedRows
    <3>4. QED BY <3>1, <3>2, <3>3, <1>2 DEF SavedAccount
  <2>3. QED BY <1>1, <2>1, <2>2
<1>4. /\ SavedProfile(req[r]) \in Profiles \union {NoRow}
      /\ profile[i] # NoRow => SavedProfile(req[r]) # NoRow
      /\ SavedProfile(req[r]) # NoRow => account[i] # NoRow
  <2>1. profile[i] # NoRow => account[i] # NoRow
    BY <1>1 DEF RowInv, TypeOK
  <2>2. CASE req[r] \in Saving
    BY <2>1, <2>2, <1>2, RequestFields DEF SavedProfile
  <2>3. CASE req[r] \in Patched \union Imaging
    <3>1. /\ req[r].wanted \in Profiles /\ req[r].held \in Profiles \union {NoRow}
          /\ req[r].held # NoRow => profile[i] # NoRow
          /\ req[r] # Idle
      BY <2>3, RequestFields DEF RowInv, FieldsSent
    <3>2. NoRow \notin Profiles
      BY UserAssumption
    <3>3. req[r].held # NoRow => Flush(req[r].held, req[r].wanted, profile[i]) \in Profiles
      BY <3>1, <1>2, FlushedRows
    <3>4. req[r].op # "register"
      BY <2>3 DEF Patched, Imaging
    <3>5. account[i] # NoRow
      BY <3>1, <3>4 DEF RowInv, TypeOK
    <3>6. QED BY <3>1, <3>2, <3>3, <3>5, <1>2 DEF SavedProfile
  <2>4. QED BY <1>1, <2>2, <2>3
<1>5. /\ req' = [req EXCEPT ![r] = Idle]
      /\ account' = [account EXCEPT ![i] = SavedAccount(req[r])]
      /\ profile' = [profile EXCEPT ![i] = SavedProfile(req[r])]
  BY DEF Commit, Goto
<1>6. QED BY <1>1, <1>3, <1>4, <1>5

----------------------------------------------------------------------------
(* Types hold *)

\* Rows stay, and requests go by rows that are there: at first, and after every
\* action.
LEMMA RowInvHolds == Spec => []RowInv
<1>1. Init => RowInv
  <2> SUFFICES ASSUME Init PROVE RowInv
    OBVIOUS
  <2>1. \A r \in Requests : req[r] = Idle /\ Idle \notin Copying \union Patched \union Imaging
    BY RequestFields DEF Init
  <2>2. TypeOK
    BY DEF Init, TypeOK
  <2>3. QED BY <2>1, <2>2 DEF RowInv, RowsStay, FieldsSent
<1>2. RowInv /\ [Next]_vars => RowInv'
  <2> SUFFICES ASSUME RowInv, [Next]_vars PROVE RowInv'
    OBVIOUS
  <2>0. /\ TypeOK
        /\ Idle \in Phases /\ Idle \notin Copying \union Patched \union Imaging
    BY RequestFields DEF RowInv, Phases
  <2>1. ASSUME NEW r \in Requests, NEW id \in Ids, NEW row \in Accounts, RegisterCheck(r, id, row)
        PROVE  RowInv'
    <3> DEFINE q == [at |-> "merge", op |-> "register", id |-> id, sent |-> {}, copy |-> row,
                     loaded |-> NoRow]
    <3>1. q \in Saving
      BY DEF Saving
    <3>2. q \in Phases /\ q \notin Patched \union Imaging
      BY <3>1, RequestFields DEF Phases, Copying
    <3>3. req' = [req EXCEPT ![r] = q] /\ UNCHANGED <<account, profile>>
      BY <2>1 DEF RegisterCheck, Goto
    <3>4. QED BY <3>2, <3>3, RequestReads
  <2>2. ASSUME NEW r \in Requests, NEW id \in Ids, NEW sent \in SUBSET {"name", "phone"},
               NEW name \in Names, NEW phone \in Phones, PatchGetMe(r, id, sent, name, phone)
        PROVE  RowInv'
    <3> DEFINE n == IF "name" \in sent THEN name ELSE account[id].name
               q == [at |-> "find", op |-> "patch", id |-> id, sent |-> sent, phone |-> phone,
                     name |-> n]
    <3>1. account[id] \in Accounts /\ req' = [req EXCEPT ![r] = q]
          /\ UNCHANGED <<account, profile>>
      BY <2>0, <2>2 DEF PatchGetMe, Goto, TypeOK
    <3>2. n \in Names
      BY <3>1 DEF Accounts
    <3>3. q \in Finding
      BY <3>2 DEF Finding
    <3>4. q \in Phases /\ q \notin Copying \union Patched \union Imaging
      BY <3>3, RequestFields DEF Phases, Copying
    <3>5. account[id] # NoRow
      BY <2>2 DEF PatchGetMe
    <3>6. QED BY <3>1, <3>4, <3>5, RequestReads
  <2>3. ASSUME NEW r \in Requests, PatchFind(r) PROVE RowInv'
    <3>1. req[r] \in Finding /\ req[r] # Idle
      BY <2>0, <2>3, RequestKinds, RequestFields DEF PatchFind, Idle
    <3>2. /\ req[r].id \in Ids /\ req[r].sent \in SUBSET {"name", "phone"}
          /\ req[r].phone \in Phones /\ req[r].name \in Names /\ req[r].op # "register"
      BY <3>1 DEF Finding
    <3>3. account[req[r].id] \in Accounts /\ account[req[r].id] # NoRow
      BY <2>0, <3>1, <3>2 DEF TypeOK
    <3> DEFINE c == [account[req[r].id] EXCEPT !.name = req[r].name]
               q == [at |-> "merge", op |-> "patch", id |-> req[r].id, sent |-> req[r].sent,
                     phone |-> req[r].phone, loaded |-> NoRow, copy |-> c]
    <3>4. c \in Accounts
      BY <3>2, <3>3 DEF Accounts
    <3>5. q \in Patching
      BY <3>2, <3>4 DEF Patching
    <3>6. q \in Phases /\ q \notin Patched \union Imaging
      BY <3>5, RequestFields DEF Phases, Copying
    <3>7. req' = [req EXCEPT ![r] = q] /\ UNCHANGED <<account, profile>>
      BY <2>3 DEF PatchFind, Goto
    <3>8. QED BY <3>3, <3>6, <3>7, RequestReads
  <2>4. ASSUME NEW r \in Requests, NEW id \in Ids, NEW current \in Passwords,
               NEW new \in Passwords, PasswordFind(r, id, current, new)
        PROVE  RowInv'
    <3>1. account[id] \in Accounts /\ account[id] # NoRow
      BY <2>0, <2>4 DEF PasswordFind, TypeOK
    <3> DEFINE c == [account[id] EXCEPT !.password = new]
               q == [at |-> "merge", op |-> "password", id |-> id, sent |-> {"password"},
                     loaded |-> NoRow, copy |-> c]
    <3>2. c \in Accounts
      BY <3>1 DEF Accounts
    <3>3. q \in Saving
      BY <3>2 DEF Saving
    <3>4. q \in Phases /\ q \notin Patched \union Imaging
      BY <3>3, RequestFields DEF Phases, Copying
    <3>5. req' = [req EXCEPT ![r] = q] /\ UNCHANGED <<account, profile>>
      BY <2>4 DEF PasswordFind, Goto
    <3>6. QED BY <3>1, <3>4, <3>5, RequestReads
  <2>5. ASSUME NEW r \in Requests, MergeSelect(r) PROVE RowInv'
    <3>1. req[r].at = "merge"
      BY <2>5 DEF MergeSelect
    <3> DEFINE q == [req[r] EXCEPT !.at = "flush", !.loaded = account[req[r].id]]
    <3>2. /\ req' = [req EXCEPT ![r] = q] /\ UNCHANGED <<account, profile>>
          /\ q \in Saving \union Patching /\ q.loaded = account[q.id]
          /\ q.id = req[r].id /\ q.op = req[r].op
      BY <2>0, <2>5, <3>1, MergedRequest
    <3> HIDE DEF q
    <3>3. q \in Phases /\ q \notin Patched \union Imaging
      BY <3>2, RequestFields DEF Phases, Copying
    <3>4. req[r] # Idle
      BY <3>1 DEF Idle
    <3>5. q.op # "register" => account[q.id] # NoRow
      BY <2>0, <3>2, <3>4 DEF TypeOK
    <3>6. QED BY <3>2, <3>3, <3>5, RequestReads
  <2>6. ASSUME NEW r \in Requests, FlushAccount(r) PROVE RowInv'
    <3> DEFINE q == [req[r] EXCEPT !.at = IF req[r].op = "patch" THEN "profile" ELSE "commit"]
    <3>1. /\ req' = [req EXCEPT ![r] = q] /\ UNCHANGED <<account, profile>>
          /\ req[r] \in Saving \union Patching /\ q \in Saving \union Patching
          /\ q.id = req[r].id /\ q.op = req[r].op /\ q.loaded = req[r].loaded
      BY <2>0, <2>6, FlushedRequest
    <3> HIDE DEF q
    <3>2. q \in Phases /\ q \notin Patched \union Imaging /\ req[r] # Idle /\ req[r] \in Copying
      BY <3>1, RequestFields DEF Phases, Copying
    <3>3. q.op # "register" => account[q.id] # NoRow
      BY <2>0, <3>1, <3>2 DEF TypeOK
    <3>4. q.loaded # NoRow => account[q.id] # NoRow
      BY <3>1, <3>2 DEF RowInv, RowsStay
    <3>5. QED BY <3>1, <3>2, <3>3, <3>4, RequestReads
  <2>7. ASSUME NEW r \in Requests, PatchReadProfile(r) PROVE RowInv'
    <3>1. PICK q \in Patched :
              /\ req' = [req EXCEPT ![r] = q] /\ UNCHANGED <<account, profile>>
              /\ req[r] \in Patching
              /\ q.id = req[r].id /\ q.copy = req[r].copy /\ q.loaded = req[r].loaded
              /\ q.held = profile[q.id]
              /\ q.held # NoRow => \A f \in {"phone", "avatar"} :
                                      q.wanted[f] # q.held[f] => f \in q.sent
      BY <2>0, <2>7, ProfiledRequest
    <3>2. req[r] \in Copying /\ req[r] # Idle /\ req[r].op # "register" /\ q \in Phases
      BY <3>1, RequestFields DEF Copying, Patching, Phases
    <3>3. account[q.id] # NoRow
      BY <2>0, <3>1, <3>2 DEF TypeOK
    <3>4. QED BY <3>1, <3>2, <3>3, RequestReads
  <2>8. ASSUME NEW r \in Requests, NEW id \in Ids, ImagesReadProfile(r, id) PROVE RowInv'
    <3>1. PICK q \in Imaging :
              /\ req' = [req EXCEPT ![r] = q] /\ UNCHANGED <<account, profile>>
              /\ q.id = id /\ account[id] # NoRow /\ q.held = profile[id]
              /\ q.held # NoRow => \A f \in {"phone", "avatar"} :
                                      q.wanted[f] # q.held[f] => f \in q.sent
      BY <2>0, <2>8, ImagedRequest
    <3>2. q \in Phases
      BY DEF Phases
    <3>3. QED BY <3>1, <3>2, RequestReads
  <2>9. ASSUME NEW r \in Requests, Commit(r) PROVE RowInv'
    <3> DEFINE i == req[r].id
    <3>1. /\ i \in Ids /\ req' = [req EXCEPT ![r] = Idle]
          /\ account' = [account EXCEPT ![i] = SavedAccount(req[r])]
          /\ profile' = [profile EXCEPT ![i] = SavedProfile(req[r])]
          /\ SavedAccount(req[r]) \in Accounts \union {NoRow}
          /\ account[i] # NoRow => SavedAccount(req[r]) # NoRow
          /\ SavedProfile(req[r]) \in Profiles \union {NoRow}
          /\ profile[i] # NoRow => SavedProfile(req[r]) # NoRow
          /\ SavedProfile(req[r]) # NoRow => account[i] # NoRow
      BY <2>9, CommittedRows
    <3>2. /\ account' \in [Ids -> Accounts \union {NoRow}]
          /\ profile' \in [Ids -> Profiles \union {NoRow}]
          /\ \A j \in Ids : account[j] # NoRow => account'[j] # NoRow
          /\ \A j \in Ids : profile[j] # NoRow => profile'[j] # NoRow
          /\ \A j \in Ids : profile'[j] # NoRow => account'[j] # NoRow
      BY <2>0, <3>1 DEF TypeOK
    <3>3. QED BY <2>0, <3>1, <3>2, RequestGoesByRows
  <2>10. ASSUME NEW r \in Requests, Rollback(r) PROVE RowInv'
    <3>1. req' = [req EXCEPT ![r] = Idle] /\ UNCHANGED <<account, profile>>
      BY <2>10 DEF Rollback, Goto
    <3>2. QED BY <2>0, <3>1, RequestReads
  <2>11. CASE UNCHANGED vars
    BY <2>11 DEF vars, RowInv, TypeOK, RowsStay, FieldsSent
  <2>12. QED
    BY <2>1, <2>2, <2>3, <2>4, <2>5, <2>6, <2>7, <2>8, <2>9, <2>10, <2>11 DEF Next
<1>3. QED BY <1>1, <1>2, PTL DEF Spec

\* Accounts, profiles and requests keep their shapes, no profile outlives its
\* account, and no request changes an account that is not there.
THEOREM AccountsTypeCorrect == Spec => []TypeOK
<1>1. RowInv => TypeOK
  BY DEF RowInv
<1>2. QED BY <1>1, RowInvHolds, PTL

----------------------------------------------------------------------------
(* Logins stay unique *)

\* What a writer holds, and the login it leaves.
LEMMA WriterSaves ==
    ASSUME RowInv, NEW r \in Requests, Writer(r)
    PROVE  LET q == req[r] IN
           /\ q \in Copying /\ q.id \in Ids
           /\ q.copy \in Accounts /\ q.loaded \in Accounts \union {NoRow}
           /\ q.loaded # NoRow => account[q.id] \in Accounts
           /\ SavedAccount(q) \in Accounts
           /\ SavedLogin(r) = IF q.loaded # NoRow /\ q.copy.login = q.loaded.login
                              THEN account[q.id].login ELSE q.copy.login
<1> DEFINE q == req[r]
<1>1. q \in Phases /\ "copy" \in DOMAIN q /\ q.copy # q.loaded
  BY RequestKinds DEF RowInv, Writer, Flushed, Writes
<1>2. q \in Copying /\ q.id \in Ids /\ q.copy \in Accounts /\ q.loaded \in Accounts \union {NoRow}
  BY <1>1, RequestFields DEF Phases
<1>3. q.loaded # NoRow => account[q.id] \in Accounts
  BY <1>2 DEF RowInv, RowsStay, TypeOK
<1>4. CASE q.loaded = NoRow
  BY <1>1, <1>2, <1>4 DEF SavedAccount, SavedLogin
<1>5. CASE q.loaded # NoRow
  <2>1. SavedAccount(q) = Flush(q.loaded, q.copy, account[q.id])
    BY <1>1, <1>5 DEF SavedAccount
  <2>2. QED BY <1>2, <1>3, <1>5, <2>1, FlushedRows DEF SavedLogin
<1>6. QED BY <1>2, <1>3, <1>4, <1>5

\* No account changes and no lock is taken.
LEMMA LocksStay ==
    ASSUME LoginInv, UNCHANGED account,
           \A p \in Requests : Writer(p)' =>
              /\ Writer(p)
              /\ req'[p].id = req[p].id /\ req'[p].copy = req[p].copy
              /\ req'[p].loaded = req[p].loaded
    PROVE  LoginInv'
<1>1. \A p \in Requests : Writer(p)' => SavedLogin(p)' = SavedLogin(p)
  BY DEF Writer, Flushed, SavedLogin, SavedAccount
<1>2. LocksHold'
  BY DEF LoginInv, LocksHold
<1>3. LoginsReserved'
  BY <1>1 DEF LoginInv, LoginsReserved
<1>4. QED BY <1>2, <1>3 DEF LoginInv, LoginsUnique

\* A request goes to a phase in which it holds no lock.
LEMMA LocksDropped ==
    ASSUME TypeOK, LoginInv, NEW r \in Requests, NEW q, req' = [req EXCEPT ![r] = q],
           q.at \notin {"profile", "commit"} \/ "copy" \notin DOMAIN q \/ q.copy = q.loaded,
           UNCHANGED account
    PROVE  LoginInv'
<1>1. req'[r] = q /\ \A p \in Requests \ {r} : req'[p] = req[p]
  BY DEF TypeOK
<1>2. ~Writer(r)'
  BY <1>1 DEF Writer, Flushed, Writes
<1>3. \A p \in Requests \ {r} : Writer(p)' => Writer(p)
  BY <1>1 DEF Writer, Flushed, Writes
<1>4. QED BY <1>1, <1>2, <1>3, LocksStay

\* The flush checks the row and the login of a request that takes their locks.
LEMMA LocksTaken ==
    ASSUME RowInv, LoginInv, NEW r \in Requests, FlushAccount(r), Writes(r)
    PROVE  LoginInv'
<1> DEFINE q == [req[r] EXCEPT !.at = IF req[r].op = "patch" THEN "profile" ELSE "commit"]
<1>1. /\ req' = [req EXCEPT ![r] = q] /\ UNCHANGED <<account, profile>>
      /\ req[r] \in Copying /\ q \in Copying /\ q.at \in {"profile", "commit"}
      /\ q.id = req[r].id /\ q.copy = req[r].copy /\ q.loaded = req[r].loaded
  BY FlushedRequest DEF RowInv, Copying
<1> HIDE DEF q
<1>2. req'[r] = q /\ \A p \in Requests \ {r} : req'[p] = req[p]
  BY <1>1 DEF RowInv, TypeOK
<1>3. /\ q.id \in Ids /\ q.copy \in Accounts /\ q.loaded \in Accounts \union {NoRow}
      /\ "copy" \in DOMAIN q /\ q.copy # q.loaded
      /\ q.loaded # NoRow => account[q.id] \in Accounts
      /\ q.loaded = NoRow => account[q.id] = NoRow
  <2>1. q.id \in Ids /\ q.copy \in Accounts /\ q.loaded \in Accounts \union {NoRow}
        /\ "copy" \in DOMAIN q
    BY <1>1, RequestFields DEF Phases
  <2>2. q.loaded # NoRow => account[q.id] \in Accounts
    BY <1>1, <2>1 DEF RowInv, RowsStay, TypeOK
  <2>3. q.copy # q.loaded /\ (q.loaded = NoRow => account[q.id] = NoRow)
    BY <1>1 DEF Writes, FlushAccount
  <2>4. QED BY <2>1, <2>2, <2>3
<1>4. \A p \in Requests \ {r} : (Writer(p)' <=> Writer(p)) /\ SavedLogin(p)' = SavedLogin(p)
  BY <1>1, <1>2 DEF Writer, Flushed, Writes, SavedLogin, SavedAccount
<1>5. /\ \A p \in Requests \ {r} : Writer(p) => req[p].id # q.id
      /\ \A i \in Ids \ {q.id} : account[i] # NoRow => account[i].login # q.copy.login
      /\ \A p \in Requests \ {r} : Writer(p) => req[p].copy.login # q.copy.login
  BY <1>1 DEF FlushAccount, RowFree, LoginFree, Writer
<1>6. SavedLogin(r)' = IF q.loaded # NoRow /\ q.copy.login = q.loaded.login
                       THEN account[q.id].login ELSE q.copy.login
  <2>1. SavedAccount(req[r])' = IF q.loaded = NoRow THEN q.copy
                                ELSE Flush(q.loaded, q.copy, account[q.id])
    BY <1>1, <1>2, <1>3 DEF SavedAccount
  <2>2. QED BY <1>3, <2>1, FlushedRows DEF SavedLogin
<1>7. \A i \in Ids \ {q.id} : account[i] # NoRow => account[i].login # SavedLogin(r)'
  BY <1>3, <1>5, <1>6, UserAssumption DEF LoginInv, LoginsUnique
<1>8. \A p \in Requests \ {r} : Writer(p) => SavedLogin(p) # SavedLogin(r)'
  <2> SUFFICES ASSUME NEW p \in Requests \ {r}, Writer(p) PROVE SavedLogin(p) # SavedLogin(r)'
    OBVIOUS
  <2>1. /\ req[p].id \in Ids
        /\ req[p].loaded # NoRow => account[req[p].id] \in Accounts
        /\ SavedLogin(p) = IF req[p].loaded # NoRow /\ req[p].copy.login = req[p].loaded.login
                           THEN account[req[p].id].login ELSE req[p].copy.login
    BY WriterSaves
  <2>2. CASE q.loaded # NoRow /\ q.copy.login = q.loaded.login
    <3>1. account[q.id] # NoRow /\ q.id \in Ids \ {req[p].id}
      BY <1>3, <1>5, <2>2, UserAssumption
    <3>2. account[q.id].login # SavedLogin(p)
      BY <3>1 DEF LoginInv, LoginsReserved
    <3>3. QED BY <1>6, <2>2, <3>2
  <2>3. CASE ~(q.loaded # NoRow /\ q.copy.login = q.loaded.login)
    <3>1. SavedLogin(r)' = q.copy.login
      BY <1>6, <2>3
    <3>2. req[p].copy.login # q.copy.login
      BY <1>5
    <3>3. req[p].loaded # NoRow => account[req[p].id].login # q.copy.login
      BY <1>5, <2>1, UserAssumption
    <3>4. QED BY <2>1, <3>1, <3>2, <3>3
  <2>4. QED BY <2>2, <2>3
<1>9. LocksHold'
  BY <1>1, <1>2, <1>3, <1>4, <1>5 DEF LoginInv, LocksHold
<1>10. LoginsReserved'
  BY <1>1, <1>2, <1>4, <1>7, <1>8 DEF LoginInv, LoginsReserved
<1>11. QED BY <1>1, <1>9, <1>10 DEF LoginInv, LoginsUnique

\* The commit writes the login that was reserved.
LEMMA LoginWritten ==
    ASSUME RowInv, LoginInv, NEW r \in Requests, Commit(r)
    PROVE  LoginInv'
<1> DEFINE i == req[r].id
<1>1. /\ i \in Ids /\ req' = [req EXCEPT ![r] = Idle]
      /\ account' = [account EXCEPT ![i] = SavedAccount(req[r])]
  BY CommittedRows
<1>2. CASE ~Writer(r)
  <2>1. "copy" \notin DOMAIN req[r] \/ req[r].copy = req[r].loaded
    BY <1>2 DEF Commit, Writer, Flushed, Writes
  <2>2. SavedAccount(req[r]) = account[i]
    BY <2>1 DEF SavedAccount
  <2>3. UNCHANGED account
    BY <1>1, <2>2 DEF RowInv, TypeOK
  <2>4. QED BY <1>1, <2>3, LocksDropped DEF RowInv, Idle
<1>3. CASE Writer(r)
  <2>1. /\ \A p \in Requests \ {r} : req'[p] = req[p]
        /\ ~Writer(r)'
    BY <1>1 DEF RowInv, TypeOK, Writer, Flushed, Idle
  <2>2. account'[i] = SavedAccount(req[r]) /\ \A j \in Ids \ {i} : account'[j] = account[j]
    BY <1>1 DEF RowInv, TypeOK
  <2>3. account'[i].login = SavedLogin(r) /\ account'[i] # NoRow
    BY <1>3, <2>2, WriterSaves, UserAssumption DEF SavedLogin
  <2>4. \A p \in Requests \ {r} : Writer(p) => req[p].id \in Ids \ {i}
    BY <1>3, WriterSaves DEF LoginInv, LocksHold
  <2>5. \A p \in Requests \ {r} : /\ Writer(p)' <=> Writer(p)
                                  /\ Writer(p) => SavedLogin(p)' = SavedLogin(p)
    BY <2>1, <2>2, <2>4 DEF Writer, Flushed, Writes, SavedLogin, SavedAccount
  <2>6. LocksHold'
    BY <2>1, <2>2, <2>4, <2>5 DEF LoginInv, LocksHold
  <2>7. LoginsReserved'
    <3> SUFFICES ASSUME NEW p \in Requests, Writer(p)'
                 PROVE  /\ \A j \in Ids \ {req'[p].id} :
                              account'[j] # NoRow => account'[j].login # SavedLogin(p)'
                        /\ \A q \in Requests \ {p} : Writer(q)' => SavedLogin(q)' # SavedLogin(p)'
      BY DEF LoginsReserved
    <3>1. p # r /\ Writer(p) /\ SavedLogin(p)' = SavedLogin(p) /\ req'[p].id = req[p].id
      BY <2>1, <2>5
    <3>2. SavedLogin(r) # SavedLogin(p)
      BY <1>3, <3>1 DEF LoginInv, LoginsReserved
    <3>3. \A j \in Ids \ {req[p].id} : account[j] # NoRow => account[j].login # SavedLogin(p)
      BY <3>1 DEF LoginInv, LoginsReserved
    <3>4. \A q \in Requests \ {p} : Writer(q)' => SavedLogin(q)' # SavedLogin(p)'
      BY <2>1, <2>5, <3>1 DEF LoginInv, LoginsReserved
    <3>5. QED BY <2>2, <2>3, <3>1, <3>2, <3>3, <3>4
  <2>8. LoginsUnique'
    <3>1. \A j \in Ids \ {i} : account[j] # NoRow => account[j].login # SavedLogin(r)
      BY <1>3 DEF LoginInv, LoginsReserved
    <3>2. QED BY <1>1, <2>2, <2>3, <3>1 DEF LoginInv, LoginsUnique
  <2>9. QED BY <2>6, <2>7, <2>8 DEF LoginInv
<1>4. QED BY <1>2, <1>3

\* No two accounts share a login id: what a flush has checked stays free until
\* its commit, whatever the other requests flush and commit meanwhile.
THEOREM LoginsStayUnique == Spec => []LoginsUnique
<1>1. Init => LoginInv
  <2> SUFFICES ASSUME Init PROVE LoginInv
    OBVIOUS
  <2>1. \A r \in Requests : ~Writer(r)
    BY DEF Init, Writer, Flushed, Idle
  <2>2. QED BY <2>1 DEF Init, LoginInv, LocksHold, LoginsReserved, LoginsUnique
<1>2. RowInv /\ LoginInv /\ [Next]_vars => LoginInv'
  <2> SUFFICES ASSUME RowInv, LoginInv, [Next]_vars PROVE LoginInv'
    OBVIOUS
  <2>0. TypeOK
    BY DEF RowInv
  <2>1. ASSUME NEW r \in Requests, NEW id \in Ids, NEW row \in Accounts, RegisterCheck(r, id, row)
        PROVE  LoginInv'
    BY <2>0, <2>1, LocksDropped DEF RegisterCheck, Goto
  <2>2. ASSUME NEW r \in Requests, NEW id \in Ids, NEW sent \in SUBSET {"name", "phone"},
               NEW name \in Names, NEW phone \in Phones, PatchGetMe(r, id, sent, name, phone)
        PROVE  LoginInv'
    <3> DEFINE q == [at |-> "find", op |-> "patch", id |-> id, sent |-> sent, phone |-> phone,
                     name |-> IF "name" \in sent THEN name ELSE account[id].name]
    <3>1. req' = [req EXCEPT ![r] = q] /\ UNCHANGED account
      BY <2>2 DEF PatchGetMe, Goto
    <3>2. q.at = "find"
      OBVIOUS
    <3> HIDE DEF q
    <3>3. QED BY <2>0, <3>1, <3>2, LocksDropped
  <2>3. ASSUME NEW r \in Requests, PatchFind(r) PROVE LoginInv'
    BY <2>0, <2>3, LocksDropped DEF PatchFind, Goto
  <2>4. ASSUME NEW r \in Requests, NEW id \in Ids, NEW current \in Passwords,
               NEW new \in Passwords, PasswordFind(r, id, current, new)
        PROVE  LoginInv'
    BY <2>0, <2>4, LocksDropped DEF PasswordFind, Goto
  <2>5. ASSUME NEW r \in Requests, MergeSelect(r) PROVE LoginInv'
    <3> DEFINE q == [req[r] EXCEPT !.at = "flush", !.loaded = account[req[r].id]]
    <3>1. req' = [req EXCEPT ![r] = q] /\ UNCHANGED account /\ q.at = "flush"
      BY <2>0, <2>5, MergedRequest DEF MergeSelect
    <3> HIDE DEF q
    <3>2. QED BY <2>0, <3>1, LocksDropped
  <2>6. ASSUME NEW r \in Requests, FlushAccount(r) PROVE LoginInv'
    <3>1. CASE Writes(r)
      BY <2>6, <3>1, LocksTaken
    <3>2. CASE ~Writes(r)
      <4> DEFINE q == [req[r] EXCEPT !.at = IF req[r].op = "patch" THEN "profile" ELSE "commit"]
      <4>1. req' = [req EXCEPT ![r] = q] /\ UNCHANGED account /\ q.copy = q.loaded
        BY <2>0, <2>6, <3>2, FlushedRequest DEF Writes
      <4> HIDE DEF q
      <4>2. QED BY <2>0, <4>1, LocksDropped
    <3>3. QED BY <3>1, <3>2
  <2>7. ASSUME NEW r \in Requests, PatchReadProfile(r) PROVE LoginInv'
    <3>1. PICK q \in Patched :
              /\ req' = [req EXCEPT ![r] = q] /\ UNCHANGED <<account, profile>>
              /\ req[r] \in Patching /\ req[r].at = "profile"
              /\ q.id = req[r].id /\ q.copy = req[r].copy /\ q.loaded = req[r].loaded
      BY <2>0, <2>7, ProfiledRequest
    <3>2. req'[r] = q /\ \A p \in Requests \ {r} : req'[p] = req[p]
      BY <2>0, <3>1 DEF TypeOK
    <3>3. Flushed(r)
      BY <3>1, RequestFields DEF Flushed, Copying
    <3>4. Writer(r)' => Writer(r)
      BY <3>1, <3>2, <3>3 DEF Writer, Writes
    <3>5. \A p \in Requests \ {r} : Writer(p)' => Writer(p)
      BY <3>2 DEF Writer, Flushed, Writes
    <3>6. QED BY <3>1, <3>2, <3>4, <3>5, LocksStay
  <2>8. ASSUME NEW r \in Requests, NEW id \in Ids, ImagesReadProfile(r, id) PROVE LoginInv'
    <3>1. PICK q \in Imaging : req' = [req EXCEPT ![r] = q] /\ UNCHANGED <<account, profile>>
      BY <2>0, <2>8, ImagedRequest
    <3>2. QED BY <2>0, <3>1, RequestFields, LocksDropped
  <2>9. ASSUME NEW r \in Requests, Commit(r) PROVE LoginInv'
    BY <2>9, LoginWritten
  <2>10. ASSUME NEW r \in Requests, Rollback(r) PROVE LoginInv'
    BY <2>0, <2>10, LocksDropped DEF Rollback, Goto, Idle
  <2>11. CASE UNCHANGED vars
    BY <2>11, LocksStay DEF vars, Writer, Flushed, Writes
  <2>12. QED
    BY <2>1, <2>2, <2>3, <2>4, <2>5, <2>6, <2>7, <2>8, <2>9, <2>10, <2>11 DEF Next
<1>3. LoginInv => LoginsUnique
  BY DEF LoginInv
<1>4. QED BY <1>1, <1>2, <1>3, RowInvHolds, PTL DEF Spec

----------------------------------------------------------------------------
(* Profiles and patches *)

\* A commit writes those columns of a profile that differ from the one it read,
\* and these were sent; no other step writes profiles.
THEOREM ProfilesMerge == Spec => ProfileKeepsOtherFields
<1>1. RowInv /\ [Next]_vars =>
        [\A i \in Ids : profile[i] # NoRow =>
          \A f \in {"phone", "avatar"} : profile'[i][f] # profile[i][f] =>
             \E r \in Requests : req[r] # Idle /\ req[r].id = i /\ f \in req[r].sent
                                 /\ req'[r] = Idle]_vars
  <2> SUFFICES ASSUME RowInv, [Next]_vars, NEW i \in Ids, profile[i] # NoRow,
                      NEW f \in {"phone", "avatar"}, profile'[i][f] # profile[i][f]
               PROVE  \E r \in Requests : req[r] # Idle /\ req[r].id = i /\ f \in req[r].sent
                                          /\ req'[r] = Idle
    OBVIOUS
  <2>1. PICK r \in Requests : Commit(r)
    <3>1. profile' # profile
      OBVIOUS
    <3>2. QED
      BY <3>1 DEF Next, vars, RegisterCheck, PatchGetMe, PatchFind, PasswordFind, MergeSelect,
                  FlushAccount, PatchReadProfile, ImagesReadProfile, Rollback
  <2>2. /\ req[r].id \in Ids /\ req[r] \in Saving \union Patched \union Imaging
        /\ req' = [req EXCEPT ![r] = Idle]
        /\ profile' = [profile EXCEPT ![req[r].id] = SavedProfile(req[r])]
    BY <2>1, CommittedRows
  <2>3. req[r].id = i /\ SavedProfile(req[r])[f] # profile[i][f] /\ profile[i] \in Profiles
    BY <2>2 DEF RowInv, TypeOK
  <2>4. req[r] \in Patched \union Imaging
    BY <2>2, <2>3, RequestFields DEF SavedProfile
  <2>5. /\ req[r] # Idle /\ "wanted" \in DOMAIN req[r] /\ req[r].wanted \in Profiles
        /\ req[r].held \in Profiles \union {NoRow}
    BY <2>4, RequestFields
  <2>6. req[r].held # NoRow
    BY <2>1, <2>3, <2>5 DEF Commit
  <2>7. SavedProfile(req[r])[f] = IF req[r].wanted[f] = req[r].held[f] THEN profile[i][f]
                                                                       ELSE req[r].wanted[f]
    BY <2>3, <2>5, <2>6, FlushedRows DEF SavedProfile
  <2>8. f \in req[r].sent
    BY <2>3, <2>4, <2>6, <2>7 DEF RowInv, FieldsSent
  <2>9. req'[r] = Idle
    BY <2>2 DEF RowInv, TypeOK
  <2>10. QED BY <2>3, <2>5, <2>8, <2>9
<1>2. QED BY <1>1, RowInvHolds, PTL DEF Spec, ProfileKeepsOtherFields

\* Only a commit changes accounts, and it writes the profile with them: the
\* phone a PATCH sent, unless that phone is the one the PATCH had read.
THEOREM PatchesAreAtomic == Spec => PatchIsAllOrNothing
<1>1. RowInv /\ [Next]_vars =>
        [\A r \in Requests :
          (/\ req[r] # Idle /\ req'[r] = Idle
           /\ req[r].at = "commit" /\ req[r].op = "patch"
           /\ "phone" \in req[r].sent /\ account' # account)
            => /\ profile'[req[r].id] # NoRow
               /\ \/ profile'[req[r].id].phone = req[r].wanted.phone
                  \/ /\ req[r].held # NoRow
                     /\ req[r].held.phone = req[r].wanted.phone]_vars
  <2> SUFFICES ASSUME RowInv, [Next]_vars, NEW r \in Requests,
                      req[r] # Idle, req'[r] = Idle, req[r].at = "commit", req[r].op = "patch",
                      account' # account
               PROVE  /\ profile'[req[r].id] # NoRow
                      /\ \/ profile'[req[r].id].phone = req[r].wanted.phone
                         \/ /\ req[r].held # NoRow
                            /\ req[r].held.phone = req[r].wanted.phone
    OBVIOUS
  <2>1. PICK q \in Requests : Commit(q)
    BY DEF Next, vars, RegisterCheck, PatchGetMe, PatchFind, PasswordFind, MergeSelect,
           FlushAccount, PatchReadProfile, ImagesReadProfile, Rollback
  <2>2. req' = [req EXCEPT ![q] = Idle]
    BY <2>1 DEF Commit, Goto
  <2>3. q = r
    BY <2>2 DEF RowInv, TypeOK
  <2>4. req[r] \in Patched
    BY RequestKinds DEF RowInv, Saving, Imaging
  <2>5. /\ "wanted" \in DOMAIN req[r] /\ req[r].wanted \in Profiles
        /\ req[r].held \in Profiles \union {NoRow} /\ req[r].id \in Ids
    BY <2>4, RequestFields DEF Phases, Copying
  <2>6. profile'[req[r].id] = SavedProfile(req[r])
    BY <2>1, <2>3, <2>5, CommittedRows DEF RowInv, TypeOK
  <2>7. CASE req[r].held = NoRow
    BY <2>5, <2>6, <2>7, UserAssumption DEF SavedProfile
  <2>8. CASE req[r].held # NoRow
    <3>1. profile[req[r].id] \in Profiles
      BY <2>4, <2>5, <2>8 DEF RowInv, TypeOK, FieldsSent
    <3>2. SavedProfile(req[r]) = Flush(req[r].held, req[r].wanted, profile[req[r].id])
      BY <2>5, <2>8 DEF SavedProfile
    <3>3. /\ SavedProfile(req[r]) \in Profiles
          /\ SavedProfile(req[r])["phone"] = IF req[r].wanted["phone"] = req[r].held["phone"]
                                             THEN profile[req[r].id]["phone"]
                                             ELSE req[r].wanted["phone"]
      BY <2>5, <2>8, <3>1, <3>2, FlushedRows
    <3>4. QED BY <2>6, <2>8, <3>3, UserAssumption
  <2>9. QED BY <2>7, <2>8
<1>2. QED BY <1>1, RowInvHolds, PTL DEF Spec, PatchIsAllOrNothing

=============================================================================
