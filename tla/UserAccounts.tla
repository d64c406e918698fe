----------------------------- MODULE UserAccounts -----------------------------
(***************************************************************************)
(* Accounts and profiles: registration (src/src/auth/application/service/  *)
(* auth_service.py), PATCH /users/me, /users/me/password and               *)
(* /users/me/images (src/src/auth/adapter/http/router/user_router.py).     *)
(*                                                                         *)
(* UserRepositoryImpl.save does not write the row it found.  find_by_id    *)
(* copies the row into a User; merge SELECTs the row again, assigns every  *)
(* attribute of that copy to it and flushes the columns that differ.  The  *)
(* SELECTs, the flush (which locks the row) and the commit are steps of    *)
(* their own, with other requests in between.                              *)
(*                                                                         *)
(* All accounts are of one union; the unique index is on (login_id, union).*)
(* Columns only registration sets (role, union_id, created_at) behave like *)
(* login_id, and is_withdrawn is never set; they are left out.             *)
(***************************************************************************)
EXTENDS RowStore

CONSTANTS
    Requests,
    Ids,         \* the values of UserId.generate: "usr_" and four hex digits
    Logins, Passwords, Names, Phones,
    Null,        \* SQL NULL of a profile column
    NoRow        \* the row of an unused id

Accounts == [login : Logins, password : Passwords, name : Names]
Avatars  == {Null, "cdn_url"}      \* <cdn>/avatar/<user id>: one value per user
Profiles == [phone : Phones \union {Null}, avatar : Avatars]

ASSUME UserAssumption == NoRow \notin Accounts \union Profiles

VARIABLES
    account,     \* committed rows of table users
    profile,     \* committed rows of table user_profiles
    req          \* what each request does and has read

vars == <<account, profile, req>>

Idle == [at |-> "idle"]
BlankProfile == [phone |-> Null, avatar |-> Null]

Init ==
    /\ account = [i \in Ids |-> NoRow]
    /\ profile = [i \in Ids |-> NoRow]
    /\ req = [r \in Requests |-> Idle]

Goto(r, next) == req' = [req EXCEPT ![r] = next]

----------------------------------------------------------------------------
(* What the requests read before they save *)

\* register and create_user: no account with this login id is visible; a row
\* with a fresh id is to be saved.
RegisterCheck(r, id, row) ==
    /\ req[r] = Idle
    /\ \A i \in Ids : account[i] # NoRow => account[i].login # row.login
    /\ Goto(r, [at |-> "merge", op |-> "register", id |-> id, sent |-> {}, copy |-> row,
                loaded |-> NoRow])
    /\ UNCHANGED <<account, profile>>

\* PATCH /users/me, get_me: without a name in the body the current one is used.
PatchGetMe(r, id, sent, name, phone) ==
    /\ req[r] = Idle
    /\ account[id] # NoRow
    /\ Goto(r, [at |-> "find", op |-> "patch", id |-> id, sent |-> sent, phone |-> phone,
                name |-> IF "name" \in sent THEN name ELSE account[id].name])
    /\ UNCHANGED <<account, profile>>

\* PATCH /users/me, update_profile: find_by_id and user.name = name.
PatchFind(r) ==
    /\ req[r].at = "find"
    /\ Goto(r, [at |-> "merge", op |-> "patch", id |-> req[r].id, sent |-> req[r].sent,
                phone |-> req[r].phone, loaded |-> NoRow,
                copy |-> [account[req[r].id] EXCEPT !.name = req[r].name]])
    /\ UNCHANGED <<account, profile>>

\* change_password: find_by_id, verify, user.hashed_password = ...
PasswordFind(r, id, current, new) ==
    /\ req[r] = Idle
    /\ account[id] # NoRow
    /\ account[id].password = current
    /\ Goto(r, [at |-> "merge", op |-> "password", id |-> id, sent |-> {"password"},
                loaded |-> NoRow, copy |-> [account[id] EXCEPT !.password = new]])
    /\ UNCHANGED <<account, profile>>

----------------------------------------------------------------------------
(* UserRepositoryImpl.save *)

\* merge: SELECT by primary key; the copy is laid over what it returns.
MergeSelect(r) ==
    /\ req[r].at = "merge"
    /\ req' = [req EXCEPT ![r].at = "flush", ![r].loaded = account[req[r].id]]
    /\ UNCHANGED <<account, profile>>

\* A flushed change locks its row, and its login, until the request ends.
Flushed(q) == req[q].at \in {"profile", "commit"} /\ "copy" \in DOMAIN req[q]
Writes(q)  == req[q].copy # req[q].loaded

RowFree(r) ==
    \A q \in Requests : (Flushed(q) /\ Writes(q)) => q = r \/ req[q].id # req[r].id

\* Faulty: there is no unique index on (login_id, union_id).
LoginAlwaysFree(r) == TRUE

\* uq_users_login_id_union_id: no other row, committed or flushed, has the login.
LoginFree(r) ==
    /\ \A i \in Ids \ {req[r].id} : account[i] # NoRow => account[i].login # req[r].copy.login
    /\ \A q \in Requests : Flushed(q) /\ Writes(q) /\ req[q].id # req[r].id
                             => req[q].copy.login # req[r].copy.login

\* INSERT or UPDATE.  A request that meets a row in the way of its INSERT, or
\* a taken login, cannot go on and rolls back.
FlushAccount(r) ==
    /\ req[r].at = "flush"
    /\ Writes(r) => RowFree(r) /\ LoginFree(r)
    /\ req[r].loaded = NoRow => account[req[r].id] = NoRow
    /\ req' = [req EXCEPT ![r].at = IF req[r].op = "patch" THEN "profile" ELSE "commit"]
    /\ UNCHANGED <<account, profile>>

----------------------------------------------------------------------------
(* user_profiles and the commit *)

\* Faulty: the column gets the upload itself instead of its URL.
WithUpload(p, sent, phone) ==
    [p EXCEPT !.phone = IF "phone" \in sent THEN phone ELSE @,
              !.avatar = IF "avatar" \in sent THEN "upload" ELSE @]

WithFields(p, sent, phone) ==
    [p EXCEPT !.phone = IF "phone" \in sent THEN phone ELSE @,
              !.avatar = IF "avatar" \in sent THEN "cdn_url" ELSE @]

Held(id) == IF profile[id] = NoRow THEN BlankProfile ELSE profile[id]

\* update_my_profile: session.get of the profile, or a new one, then the fields.
PatchReadProfile(r) ==
    LET q == req[r] IN
    /\ q.at = "profile"
    /\ Goto(r, [at |-> "commit", op |-> "patch", id |-> q.id, sent |-> q.sent,
                copy |-> q.copy, loaded |-> q.loaded, held |-> profile[q.id],
                wanted |-> WithFields(Held(q.id), q.sent, q.phone)])
    /\ UNCHANGED <<account, profile>>

\* update_my_images with an avatar: the same, of a user that exists.
ImagesReadProfile(r, id) ==
    /\ req[r] = Idle
    /\ account[id] # NoRow
    /\ Goto(r, [at |-> "commit", op |-> "images", id |-> id, sent |-> {"avatar"},
                held |-> profile[id], wanted |-> WithFields(Held(id), {"avatar"}, Null)])
    /\ UNCHANGED <<account, profile>>

SavedAccount(q) ==
    IF "copy" \notin DOMAIN q \/ q.copy = q.loaded THEN account[q.id]
    ELSE IF q.loaded = NoRow THEN q.copy
    ELSE Flush(q.loaded, q.copy, account[q.id])

\* Faulty: the profile row is written back as a whole.
SavedWholeProfile(q) == IF "wanted" \notin DOMAIN q THEN profile[q.id] ELSE q.wanted

SavedProfile(q) ==
    IF "wanted" \notin DOMAIN q THEN profile[q.id]
    ELSE IF q.held = NoRow THEN q.wanted
    ELSE Flush(q.held, q.wanted, profile[q.id])

\* Faulty: a profile INSERT that lost the race is dropped and the rest committed.
CommitDespiteConflict(r) ==
    LET q == req[r] IN
    /\ q.at = "commit"
    /\ account' = [account EXCEPT ![q.id] = SavedAccount(q)]
    /\ profile' = [profile EXCEPT ![q.id] =
                     IF "wanted" \in DOMAIN q /\ q.held = NoRow /\ @ # NoRow THEN @
                     ELSE SavedProfile(q)]
    /\ Goto(r, Idle)

\* Both tables in one transaction.  An INSERT of a profile that another request
\* has inserted meanwhile fails, and the request rolls back.
Commit(r) ==
    LET q == req[r] IN
    /\ q.at = "commit"
    /\ ("wanted" \in DOMAIN q /\ q.held = NoRow) => profile[q.id] = NoRow
    /\ account' = [account EXCEPT ![q.id] = SavedAccount(q)]
    /\ profile' = [profile EXCEPT ![q.id] = SavedProfile(q)]
    /\ Goto(r, Idle)

\* A failed flush or commit, or the death of the worker.
Rollback(r) ==
    /\ req[r] # Idle
    /\ Goto(r, Idle)
    /\ UNCHANGED <<account, profile>>

Next ==
    \E r \in Requests :
       \/ \E id \in Ids, row \in Accounts : RegisterCheck(r, id, row)
       \/ \E id \in Ids, sent \in SUBSET {"name", "phone"}, name \in Names, phone \in Phones :
             PatchGetMe(r, id, sent, name, phone)
       \/ PatchFind(r)
       \/ \E id \in Ids, current, new \in Passwords : PasswordFind(r, id, current, new)
       \/ MergeSelect(r)
       \/ FlushAccount(r)
       \/ PatchReadProfile(r)
       \/ \E id \in Ids : ImagesReadProfile(r, id)
       \/ Commit(r)
       \/ Rollback(r)

Spec == Init /\ [][Next]_vars

----------------------------------------------------------------------------
(* Properties *)

Finding  == [at : {"find"}, op : {"patch"}, id : Ids, sent : SUBSET {"name", "phone"},
             phone : Phones, name : Names]
Saving   == [at : {"merge", "flush", "commit"}, op : {"register", "password"}, id : Ids,
             sent : SUBSET {"password"}, copy : Accounts, loaded : Accounts \union {NoRow}]
Patching == [at : {"merge", "flush", "profile"}, op : {"patch"}, id : Ids,
             sent : SUBSET {"name", "phone"}, phone : Phones, copy : Accounts,
             loaded : Accounts \union {NoRow}]
Patched  == [at : {"commit"}, op : {"patch"}, id : Ids, sent : SUBSET {"name", "phone"},
             copy : Accounts, loaded : Accounts \union {NoRow},
             held : Profiles \union {NoRow}, wanted : Profiles]
Imaging  == [at : {"commit"}, op : {"images"}, id : Ids, sent : {{"avatar"}},
             held : Profiles \union {NoRow}, wanted : Profiles]

\* Tables hold rows; a profile, and a request that changes an account, is about
\* an account that exists; requests hold what their handlers read.
TypeOK ==
    /\ account \in [Ids -> Accounts \union {NoRow}]
    /\ profile \in [Ids -> Profiles \union {NoRow}]
    /\ \A i \in Ids : profile[i] # NoRow => account[i] # NoRow
    /\ req \in [Requests -> {Idle} \union Finding \union Saving \union Patching
                            \union Patched \union Imaging]
    /\ \A r \in Requests :
          req[r] # Idle /\ req[r].op # "register" => account[req[r].id] # NoRow

\* No two accounts share a login id, although the check for it and the INSERT
\* are apart, two registrations may pass the check together, and a generated id
\* may hit an existing account.
LoginsUnique ==
    \A i, j \in Ids :
        account[i] # NoRow /\ account[j] # NoRow /\ account[i].login = account[j].login => i = j

\* A profile column changes only by a commit of a request that sent it: PATCH
\* /me and /me/images overlap without undoing each other, including their race
\* to create the row.
ProfileKeepsOtherFields ==
    [][\A i \in Ids : profile[i] # NoRow =>
          \A f \in {"phone", "avatar"} : profile'[i][f] # profile[i][f] =>
             \E r \in Requests : req[r] # Idle /\ req[r].id = i /\ f \in req[r].sent
                                 /\ req'[r] = Idle]_vars

\* A PATCH that changes an account and sent a phone leaves that phone in the
\* profile, unless it was there when the PATCH read the profile: then no column
\* is written, and another request's phone may stand.  One whose profile INSERT
\* lost the race changes neither table.
PatchIsAllOrNothing ==
    [][\A r \in Requests :
          (/\ req[r] # Idle /\ req'[r] = Idle
           /\ req[r].at = "commit" /\ req[r].op = "patch"
           /\ "phone" \in req[r].sent /\ account' # account)
            => /\ profile'[req[r].id] # NoRow
               /\ \/ profile'[req[r].id].phone = req[r].wanted.phone
                  \/ /\ req[r].held # NoRow
                     /\ req[r].held.phone = req[r].wanted.phone]_vars

\* As documented, PATCH /users/me updates the fields that were sent only.
PatchWritesSentFieldsOnly ==
    [][\A r \in Requests :
          (req[r] # Idle /\ req'[r] = Idle /\ req[r].op = "patch") =>
             \A f \in {"login", "password", "name"} :
                f \notin req[r].sent => account'[req[r].id][f] = account[req[r].id][f]]_vars
=============================================================================
