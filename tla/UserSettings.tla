----------------------------- MODULE UserSettings -----------------------------
(***************************************************************************)
(* What a user keeps beside the account: notification settings, the        *)
(* inbox of notifications and the link to a member                         *)
(* (src/src/auth/adapter/http/router/user_router.py,                       *)
(* src/src/notification/adapter/http/router/notification_router.py).       *)
(*                                                                         *)
(* Each request runs one statement and then commits; other requests commit *)
(* in between.  A statement sees the rows committed when it starts, so     *)
(* `seen` is what a request goes by.  Rows of settings are inserted and    *)
(* deleted in whole batches, one batch for each body stored.  That a       *)
(* DELETE or UPDATE waits for the locks of another one only orders the     *)
(* two commits, and either order leaves the same rows.                     *)
(***************************************************************************)
EXTENDS Naturals, FiniteSets

CONSTANTS
    Requests,     \* requests in progress at once
    Users,
    Members,
    Bodies,       \* the non-empty bodies of PUT /me/notifications
    Default,      \* the three default settings
    Nothing,      \* the empty body
    Notes,        \* ids of notifications
    Null,         \* no row
    MaxBatch      \* a bound: batches of settings ever stored

ASSUME SettingsAssumption ==
    /\ MaxBatch \in Nat
    /\ Default \notin Bodies /\ Nothing \notin Bodies \union {Default}
    /\ Null \notin Members /\ Null \notin [user : Users, read : BOOLEAN]

Batches == [number : 1..MaxBatch, body : Bodies \union {Default}]
NoteRows == [user : Users, read : BOOLEAN]

VARIABLES
    settings,    \* table notification_settings: the batches of each user
    batches,     \* batches stored so far (autoincrement)
    note,        \* table notifications
    link,        \* table user_member_links
    req          \* the request's statement

vars == <<settings, batches, note, link, req>>

Idle == [op |-> "idle"]

Init ==
    /\ settings = [u \in Users |-> {}]
    /\ batches = 0
    /\ note = [n \in Notes |-> Null]
    /\ link = [u \in Users |-> Null]
    /\ req = [r \in Requests |-> Idle]

Begin(r, statement) ==
    /\ req[r] = Idle
    /\ req' = [req EXCEPT ![r] = statement]
    /\ UNCHANGED <<settings, batches, note, link>>

End(r) == req' = [req EXCEPT ![r] = Idle]

----------------------------------------------------------------------------
(* Notification settings *)

\* Faulty: the defaults are stored before they are asked for, without a batch
\* of their own.
SelectSettingsEarly(r, u) ==
    /\ settings[u] = {}
    /\ req[r] = Idle
    /\ settings' = [settings EXCEPT ![u] = {[number |-> batches, body |-> Default]}]
    /\ UNCHANGED <<batches, note, link, req>>

\* get_notification_settings of a user who has none.
SelectSettings(r, u) ==
    /\ settings[u] = {}
    /\ Begin(r, [op |-> "settings", user |-> u, seen |-> {}, body |-> Default])

\* update_notification_settings: the DELETE.
DeleteSettings(r, u, body) ==
    Begin(r, [op |-> "settings", user |-> u, seen |-> settings[u], body |-> body])

\* Faulty: the settings the body does not name are kept.
CommitMoreSettings(r) ==
    LET u == req[r].user  b == batches + 1 IN
    /\ req[r].op = "settings"
    /\ b <= MaxBatch
    /\ settings' = [settings EXCEPT ![u] = @ \union {[number |-> b, body |-> req[r].body]}]
    /\ batches' = b
    /\ End(r)
    /\ UNCHANGED <<note, link>>

\* The INSERTs and the commit of both; an empty body inserts nothing.
CommitSettings(r) ==
    LET u == req[r].user  b == batches + 1 IN
    /\ req[r].op = "settings"
    /\ \/ /\ req[r].body = Nothing
          /\ settings' = [settings EXCEPT ![u] = @ \ req[r].seen]
          /\ UNCHANGED batches
       \/ /\ req[r].body # Nothing
          /\ b <= MaxBatch
          /\ settings' = [settings EXCEPT
                            ![u] = (@ \ req[r].seen) \union {[number |-> b, body |-> req[r].body]}]
          /\ batches' = b
    /\ End(r)
    /\ UNCHANGED <<note, link>>

----------------------------------------------------------------------------
(* The inbox.  Notifications come from outside this program. *)

Arrive(n, u) ==
    /\ note[n] = Null
    /\ note' = [note EXCEPT ![n] = [user |-> u, read |-> FALSE]]
    /\ UNCHANGED <<settings, batches, link, req>>

Unread(u) == {n \in Notes : note[n] = [user |-> u, read |-> FALSE]}

\* read_all_notifications: the UPDATE of what is unread when it starts.
UpdateUnread(r, u) ==
    Begin(r, [op |-> "read", user |-> u, seen |-> Unread(u)])

\* read_notification: 404 when it is not there or not the user's; nothing is
\* written when it was read already.
GetNote(r, u, n) ==
    /\ note[n] # Null
    /\ note[n].user = u
    /\ Begin(r, [op |-> "read", user |-> u, seen |-> {n} \intersect Unread(u)])

CommitRead(r) ==
    /\ req[r].op = "read"
    /\ note' = [n \in Notes |-> IF n \in req[r].seen THEN [note[n] EXCEPT !.read = TRUE]
                                                     ELSE note[n]]
    /\ End(r)
    /\ UNCHANGED <<settings, batches, link>>

----------------------------------------------------------------------------
(* The member link *)

\* link_user_member of an administrator: the SELECT of merge.
SelectLink(r, u, m) ==
    Begin(r, [op |-> "link", user |-> u, member |-> m, seen |-> link[u]])

\* Faulty: there is no unique constraint on member_id.
LinkAnyMember(u, m) == TRUE

\* The unique constraint on member_id.
MemberFree(u, m) == \A v \in Users \ {u} : link[v] # m

\* Faulty: an INSERT of a user who has a row by now replaces it.
CommitLinkOver(r) ==
    LET u == req[r].user IN
    /\ req[r].op = "link"
    /\ MemberFree(u, req[r].member)
    /\ link' = [link EXCEPT ![u] = req[r].member]
    /\ End(r)
    /\ UNCHANGED <<settings, batches, note>>

\* Its INSERT or UPDATE and the commit.  The row of another user with that
\* member, or a row of that user inserted since the SELECT, makes it fail; a
\* SELECT that found the same member leaves nothing to write.
CommitLink(r) ==
    LET u == req[r].user IN
    /\ req[r].op = "link"
    /\ \/ /\ req[r].seen = req[r].member
          /\ UNCHANGED link
       \/ /\ req[r].seen # req[r].member
          /\ req[r].seen = Null => link[u] = Null
          /\ MemberFree(u, req[r].member)
          /\ link' = [link EXCEPT ![u] = req[r].member]
    /\ End(r)
    /\ UNCHANGED <<settings, batches, note>>

----------------------------------------------------------------------------

\* A constraint or the connection fails, or the worker dies: rolled back.
Rollback(r) ==
    /\ req[r] # Idle
    /\ End(r)
    /\ UNCHANGED <<settings, batches, note, link>>

Next ==
    \/ \E n \in Notes, u \in Users : Arrive(n, u)
    \/ \E r \in Requests :
          \/ \E u \in Users :
                \/ SelectSettings(r, u)
                \/ \E body \in Bodies \union {Nothing} : DeleteSettings(r, u, body)
                \/ UpdateUnread(r, u)
                \/ \E n \in Notes : GetNote(r, u, n)
                \/ \E m \in Members : SelectLink(r, u, m)
          \/ CommitSettings(r)
          \/ CommitRead(r)
          \/ CommitLink(r)
          \/ Rollback(r)

Spec == Init /\ [][Next]_vars

----------------------------------------------------------------------------
(* Properties *)

\* The tables hold rows of the models, batches numbered as they were stored, and
\* each request in progress goes by rows that were there.
TypeOK ==
    /\ batches \in 0..MaxBatch
    /\ settings \in [Users -> SUBSET [number : 1..batches, body : Bodies \union {Default}]]
    /\ note \in [Notes -> NoteRows \union {Null}]
    /\ link \in [Users -> Members \union {Null}]
    /\ DOMAIN req = Requests
    /\ \A r \in Requests :
         \/ req[r] = Idle
         \/ /\ req[r].op = "settings" /\ req[r].user \in Users
            /\ req[r].body \in Bodies \union {Default, Nothing}
            /\ req[r].seen \subseteq [number : 1..batches, body : Bodies \union {Default}]
         \/ /\ req[r].op = "read" /\ req[r].user \in Users
            /\ req[r].seen \subseteq {n \in Notes : note[n] # Null}
         \/ /\ req[r].op = "link" /\ req[r].user \in Users
            /\ req[r].member \in Members /\ req[r].seen \in Members \union {Null}

\* A user's settings are one body, the last one stored or the defaults: a PUT
\* replaces them whole, and a GET adds defaults to none.  Two bodies at once
\* come only of a request that overlapped with the storing of the other.
OnlyOverlapsDuplicate ==
    [][\A u \in Users :
         settings'[u] # settings[u] /\ Cardinality(settings'[u]) > 1 =>
           \E r \in Requests : /\ req[r].op = "settings" /\ req[r].user = u
                               /\ req'[r] = Idle
                               /\ req[r].seen # settings[u]]_vars

\* No member is linked to two users, however the linking requests overlap.
LinksInjective ==
    \A u, v \in Users : link[u] # Null /\ link[u] = link[v] => u = v

\* A link is replaced only by a request that saw a link: of two first links of
\* one user that overlap, the second fails instead of overwriting the first.
FirstLinkStands ==
    [][\A u \in Users : link[u] # Null /\ link'[u] # link[u] =>
         \E r \in Requests : /\ req[r].op = "link" /\ req[r].user = u /\ req'[r] = Idle
                             /\ req[r].seen # Null]_vars
=============================================================================
