-------------------------- MODULE UserSettingsProofs --------------------------
(***************************************************************************)
(* The member link and the notification settings, for every number of      *)
(* users, members and requests.                                            *)
(***************************************************************************)
EXTENDS UserSettings, FiniteSetTheorems, TLAPS

\* Rows of settings when b batches are stored.
Settings(b) == [number : 1..b, body : Bodies \union {Default}]

\* The rows a statement in progress goes by are among b batches and the
\* notifications `there`.
Statement(s, b, there) ==
    \/ s = Idle
    \/ /\ s.op = "settings" /\ s.user \in Users
       /\ s.body \in Bodies \union {Default, Nothing}
       /\ s.seen \subseteq Settings(b)
    \/ /\ s.op = "read" /\ s.user \in Users
       /\ s.seen \subseteq there
    \/ /\ s.op = "link" /\ s.user \in Users
       /\ s.member \in Members /\ s.seen \in Members \union {Null}

There == {n \in Notes : note[n] # Null}

\* TypeOK in terms of these, before and after a step.
LEMMA TypeOKIs ==
    /\ TypeOK <=> /\ batches \in 0..MaxBatch
                  /\ settings \in [Users -> SUBSET Settings(batches)]
                  /\ note \in [Notes -> NoteRows \union {Null}]
                  /\ link \in [Users -> Members \union {Null}]
                  /\ DOMAIN req = Requests
                  /\ \A r \in Requests : Statement(req[r], batches, There)
    /\ TypeOK' <=> /\ batches' \in 0..MaxBatch
                   /\ settings' \in [Users -> SUBSET Settings(batches')]
                   /\ note' \in [Notes -> NoteRows \union {Null}]
                   /\ link' \in [Users -> Members \union {Null}]
                   /\ DOMAIN req' = Requests
                   /\ \A r \in Requests : Statement(req'[r], batches', There')
BY DEF TypeOK, Statement, Settings, There

\* What a request goes by stays among more batches and notifications.
LEMMA StatementStays ==
    ASSUME NEW s, NEW b \in Nat, NEW c \in Nat, b <= c, NEW there, NEW then,
           there \subseteq then, Statement(s, b, there)
    PROVE  Statement(s, c, then) /\ Settings(b) \subseteq Settings(c)
<1>1. Settings(b) \subseteq Settings(c)
  BY DEF Settings
<1>2. QED BY <1>1 DEF Statement

\* A request goes from one statement to another, or idle: the others go by rows
\* that are still there.
LEMMA StatementsHold ==
    ASSUME TypeOK, NEW r \in Requests, NEW s,
           req' = [req EXCEPT ![r] = s], batches \in Nat, batches' \in Nat, batches <= batches',
           There \subseteq There', Statement(s, batches', There')
    PROVE  DOMAIN req' = Requests /\ \A q \in Requests : Statement(req'[q], batches', There')
<1>1. DOMAIN req = Requests /\ \A q \in Requests : Statement(req[q], batches, There)
  BY TypeOKIs
<1>2. SUFFICES ASSUME NEW q \in Requests PROVE Statement(req'[q], batches', There')
  BY <1>1
<1>3. CASE q = r
  BY <1>1, <1>3
<1>4. CASE q # r
  BY <1>1, <1>4, StatementStays
<1>5. QED BY <1>3, <1>4

\* The tables hold rows of the models, and what requests go by was stored.
THEOREM SettingsTypeCorrect == Spec => []TypeOK
<1>1. Init => TypeOK
  BY SettingsAssumption DEF Init, TypeOK, Idle
<1>2. TypeOK /\ [Next]_vars => TypeOK'
  <2> SUFFICES ASSUME TypeOK, [Next]_vars PROVE TypeOK'
    OBVIOUS
  <2>0. /\ batches \in 0..MaxBatch /\ batches \in Nat /\ MaxBatch \in Nat
        /\ settings \in [Users -> SUBSET Settings(batches)]
        /\ note \in [Notes -> NoteRows \union {Null}]
        /\ link \in [Users -> Members \union {Null}]
        /\ DOMAIN req = Requests
        /\ \A r \in Requests : Statement(req[r], batches, There)
    BY TypeOKIs, SettingsAssumption
  <2>1. ASSUME NEW n \in Notes, NEW u \in Users, Arrive(n, u) PROVE TypeOK'
    <3>1. [user |-> u, read |-> FALSE] \in NoteRows
      BY DEF NoteRows
    <3>2. note' \in [Notes -> NoteRows \union {Null}]
      BY <2>0, <2>1, <3>1 DEF Arrive
    <3>3. \A m \in Notes : note[m] # Null => note'[m] # Null
      BY <2>0, <2>1 DEF Arrive
    <3>4. UNCHANGED <<settings, batches, link, req>>
      BY <2>1 DEF Arrive
    <3>5. There \subseteq There'
      BY <3>3 DEF There
    <3>6. \A r \in Requests : Statement(req'[r], batches', There')
      BY <2>0, <3>4, <3>5, StatementStays
    <3>7. QED BY <2>0, <3>2, <3>4, <3>6, TypeOKIs
  <2> DEFINE Begins(r, s) == /\ req' = [req EXCEPT ![r] = s]
                             /\ UNCHANGED <<settings, batches, note, link>>
  <2>2. ASSUME NEW r \in Requests, NEW s, Begins(r, s), Statement(s, batches, There) PROVE TypeOK'
    <3>1. There' = There
      BY <2>2 DEF There
    <3>2. /\ req' = [req EXCEPT ![r] = s] /\ settings' = settings /\ batches' = batches
          /\ note' = note /\ link' = link
      BY <2>2
    <3>3. DOMAIN req' = Requests /\ \A q \in Requests : Statement(req'[q], batches', There')
      BY <2>0, <2>2, <3>1, <3>2, StatementsHold
    <3>4. QED BY <2>0, <3>1, <3>2, <3>3, TypeOKIs
  <2>3. \A b, there : Statement(Idle, b, there)
    BY DEF Statement
  <2>4. ASSUME NEW r \in Requests, NEW u \in Users, SelectSettings(r, u) PROVE TypeOK'
    <3> DEFINE s == [op |-> "settings", user |-> u, seen |-> {}, body |-> Default]
    <3>1. Statement(s, batches, There)
      BY DEF Statement
    <3>2. Begins(r, s)
      BY <2>4 DEF SelectSettings, Begin
    <3>3. QED BY <2>2, <3>1, <3>2
  <2>5. ASSUME NEW r \in Requests, NEW u \in Users, NEW body \in Bodies \union {Nothing},
               DeleteSettings(r, u, body)
        PROVE  TypeOK'
    <3> DEFINE s == [op |-> "settings", user |-> u, seen |-> settings[u], body |-> body]
    <3>1. Statement(s, batches, There)
      BY <2>0 DEF Statement
    <3>2. Begins(r, s)
      BY <2>5 DEF DeleteSettings, Begin
    <3>3. QED BY <2>2, <3>1, <3>2
  <2>6. ASSUME NEW r \in Requests, NEW u \in Users, UpdateUnread(r, u) PROVE TypeOK'
    <3> DEFINE s == [op |-> "read", user |-> u, seen |-> Unread(u)]
    <3>1. Unread(u) \subseteq There
      <4>1. [user |-> u, read |-> FALSE] \in [user : Users, read : BOOLEAN]
        OBVIOUS
      <4>2. QED BY <4>1, SettingsAssumption DEF Unread, There
    <3>2. Statement(s, batches, There)
      BY <3>1 DEF Statement
    <3>3. Begins(r, s)
      BY <2>6 DEF UpdateUnread, Begin
    <3>4. QED BY <2>2, <3>2, <3>3
  <2>7. ASSUME NEW r \in Requests, NEW u \in Users, NEW n \in Notes, GetNote(r, u, n)
        PROVE  TypeOK'
    <3> DEFINE s == [op |-> "read", user |-> u, seen |-> {n} \intersect Unread(u)]
    <3>1. {n} \intersect Unread(u) \subseteq There
      BY <2>7 DEF GetNote, There
    <3>2. Statement(s, batches, There)
      BY <3>1 DEF Statement
    <3>3. Begins(r, s)
      BY <2>7 DEF GetNote, Begin
    <3>4. QED BY <2>2, <3>2, <3>3
  <2>8. ASSUME NEW r \in Requests, NEW u \in Users, NEW m \in Members, SelectLink(r, u, m)
        PROVE  TypeOK'
    <3> DEFINE s == [op |-> "link", user |-> u, member |-> m, seen |-> link[u]]
    <3>1. Statement(s, batches, There)
      BY <2>0 DEF Statement
    <3>2. Begins(r, s)
      BY <2>8 DEF SelectLink, Begin
    <3>3. QED BY <2>2, <3>1, <3>2
  <2>9. ASSUME NEW r \in Requests, CommitSettings(r) PROVE TypeOK'
    <3> DEFINE u == req[r].user
               new == [number |-> batches + 1, body |-> req[r].body]
    <3>1. u \in Users /\ req[r].body \in Bodies \union {Default, Nothing}
      BY <2>0, <2>9 DEF CommitSettings, Statement, Idle
    <3>2. batches' \in 0..MaxBatch /\ batches \in Nat /\ batches' \in Nat
          /\ batches <= batches' /\ Settings(batches) \subseteq Settings(batches')
      BY <2>0, <2>9 DEF CommitSettings, Settings
    <3>3. DOMAIN req' = Requests /\ \A q \in Requests : Statement(req'[q], batches', There')
      <4>1. req' = [req EXCEPT ![r] = Idle] /\ note' = note
        BY <2>9 DEF CommitSettings, End
      <4>2. There' = There
        BY <4>1 DEF There
      <4>3. QED BY <2>0, <2>3, <3>2, <4>1, <4>2, StatementsHold
    <3>4. settings' \in [Users -> SUBSET Settings(batches')]
      <4>1. CASE req[r].body = Nothing
        <5>1. settings' = [settings EXCEPT ![u] = @ \ req[r].seen]
          BY <2>9, <4>1 DEF CommitSettings
        <5>2. QED BY <2>0, <3>1, <3>2, <5>1
      <4>2. CASE req[r].body # Nothing
        <5>1. settings' = [settings EXCEPT ![u] = (@ \ req[r].seen) \union {new}]
              /\ batches' = batches + 1
          BY <2>9, <4>2 DEF CommitSettings
        <5>2. new \in Settings(batches')
          BY <2>0, <3>1, <4>2, <5>1 DEF Settings
        <5> HIDE DEF new
        <5>3. QED BY <2>0, <3>1, <3>2, <5>1, <5>2
      <4>3. QED BY <4>1, <4>2
    <3>5. QED BY <2>0, <2>9, <3>2, <3>3, <3>4, TypeOKIs DEF CommitSettings
  <2>10. ASSUME NEW r \in Requests, CommitRead(r) PROVE TypeOK'
    <3>1. req[r].seen \subseteq There
      BY <2>0, <2>10 DEF CommitRead, Statement, Idle
    <3>2. ASSUME NEW n \in req[r].seen PROVE [note[n] EXCEPT !.read = TRUE] \in NoteRows
      <4>1. note[n] \in NoteRows
        BY <2>0, <3>1, <3>2 DEF There
      <4>2. QED BY <4>1 DEF NoteRows
    <3>3. \A n \in Notes : note'[n] = IF n \in req[r].seen THEN [note[n] EXCEPT !.read = TRUE]
                                                           ELSE note[n]
      BY <2>10 DEF CommitRead
    <3>4. note' \in [Notes -> NoteRows \union {Null}]
      BY <2>0, <2>10, <3>2 DEF CommitRead
    <3>5. \A n \in Notes : note[n] # Null => note'[n] # Null
      BY <3>2, <3>3, SettingsAssumption DEF NoteRows
    <3>6. /\ settings' = settings /\ batches' = batches /\ link' = link
          /\ req' = [req EXCEPT ![r] = Idle]
      BY <2>10 DEF CommitRead, End
    <3>7. There \subseteq There'
      BY <3>5 DEF There
    <3>8. DOMAIN req' = Requests /\ \A q \in Requests : Statement(req'[q], batches', There')
      <4>1. batches \in Nat /\ batches' \in Nat /\ batches <= batches'
        BY <2>0, <3>6
      <4>2. Statement(Idle, batches', There') /\ req' = [req EXCEPT ![r] = Idle]
        BY <2>3, <3>6
      <4>3. QED BY <3>7, <4>1, <4>2, StatementsHold
    <3>9. QED BY <2>0, <3>4, <3>6, <3>8, TypeOKIs
  <2>11. ASSUME NEW r \in Requests, CommitLink(r) PROVE TypeOK'
    <3>1. req[r].user \in Users /\ req[r].member \in Members
      BY <2>0, <2>11 DEF CommitLink, Statement, Idle
    <3>2. link' \in [Users -> Members \union {Null}]
      BY <2>0, <2>11, <3>1 DEF CommitLink
    <3>3. /\ settings' = settings /\ batches' = batches /\ note' = note /\ req' = [req EXCEPT ![r] = Idle]
      BY <2>11 DEF CommitLink, End
    <3>4. There' = There
      BY <3>3 DEF There
    <3>5. DOMAIN req' = Requests /\ \A q \in Requests : Statement(req'[q], batches', There')
      BY <2>0, <2>3, <3>3, <3>4, StatementsHold
    <3>6. QED BY <2>0, <3>2, <3>3, <3>5, TypeOKIs
  <2>12. ASSUME NEW r \in Requests, Rollback(r) PROVE TypeOK'
    <3>1. Begins(r, Idle)
      BY <2>12 DEF Rollback, End
    <3>2. QED BY <2>2, <2>3, <3>1
  <2>13. CASE UNCHANGED vars
    <3>1. There' = There
      BY <2>13 DEF vars, There
    <3>2. QED BY <2>0, <2>13, <3>1, TypeOKIs DEF vars
  <2>14. QED
    BY <2>1, <2>4, <2>5, <2>6, <2>7, <2>8, <2>9, <2>10, <2>11, <2>12, <2>13 DEF Next
<1>3. QED BY <1>1, <1>2, PTL DEF Spec

\* What a request for a link goes by.
LEMMA LinkRequest ==
    ASSUME TypeOK, NEW r \in Requests, req[r].op = "link"
    PROVE  req[r].user \in Users /\ req[r].member \in Members
BY DEF TypeOK, Idle

\* The unique constraint on member_id, checked at the commit, keeps a member
\* with one user whatever the requests saw before.
THEOREM MembersLinkOnce == Spec => []LinksInjective
<1>1. Init => LinksInjective
  BY DEF Init, LinksInjective
<1>2. TypeOK /\ LinksInjective /\ [Next]_vars => LinksInjective'
  <2> SUFFICES ASSUME TypeOK, LinksInjective, [Next]_vars PROVE LinksInjective'
    OBVIOUS
  <2>1. ASSUME NEW r \in Requests, CommitLink(r), link' # link PROVE LinksInjective'
    <3>1. req[r].user \in Users /\ req[r].member \in Members
      BY <2>1, LinkRequest DEF CommitLink
    <3>2. /\ link' = [link EXCEPT ![req[r].user] = req[r].member]
          /\ MemberFree(req[r].user, req[r].member)
      BY <2>1 DEF CommitLink
    <3>3. link \in [Users -> Members \union {Null}]
      BY DEF TypeOK
    <3>4. QED BY <3>1, <3>2, <3>3 DEF LinksInjective, MemberFree
  <2>2. CASE link' = link
    BY <2>2 DEF LinksInjective
  <2>3. QED
    BY <2>1, <2>2 DEF Next, vars, Arrive, SelectSettings, DeleteSettings, UpdateUnread, GetNote,
       SelectLink, CommitSettings, CommitRead, Rollback, Begin
<1>3. QED BY <1>1, <1>2, SettingsTypeCorrect, PTL DEF Spec

\* Two first links of one user: the second INSERT fails on the primary key.
THEOREM FirstLinksStand == Spec => FirstLinkStands
<1>1. TypeOK /\ [Next]_vars =>
        [\A u \in Users : link[u] # Null /\ link'[u] # link[u] =>
           \E r \in Requests : /\ req[r].op = "link" /\ req[r].user = u /\ req'[r] = Idle
                               /\ req[r].seen # Null]_vars
  <2> SUFFICES ASSUME TypeOK, Next, NEW u \in Users, link[u] # Null, link'[u] # link[u]
               PROVE  \E r \in Requests : /\ req[r].op = "link" /\ req[r].user = u
                                          /\ req'[r] = Idle /\ req[r].seen # Null
    OBVIOUS
  <2>1. PICK r \in Requests : CommitLink(r)
    BY DEF Next, Arrive, SelectSettings, DeleteSettings, UpdateUnread, GetNote, SelectLink,
       CommitSettings, CommitRead, Rollback, Begin
  <2>2. req[r].op = "link" /\ req[r].user \in Users
    BY <2>1, LinkRequest DEF CommitLink
  <2>3. /\ link' = [link EXCEPT ![req[r].user] = req[r].member]
        /\ req[r].seen = Null => link[req[r].user] = Null
    BY <2>1 DEF CommitLink
  <2>4. link \in [Users -> Members \union {Null}] /\ DOMAIN req = Requests
    BY DEF TypeOK
  <2>5. req[r].user = u
    BY <2>2, <2>3, <2>4
  <2>6. req'[r] = Idle
    BY <2>1, <2>4 DEF CommitLink, End
  <2>7. QED BY <2>2, <2>3, <2>5, <2>6
<1>2. QED BY <1>1, SettingsTypeCorrect, PTL DEF Spec, FirstLinkStands

\* A request that stores settings and saw all that were stored leaves one batch
\* at most: two at once take an overlap.
THEOREM DuplicatesOverlap == Spec => OnlyOverlapsDuplicate
<1>1. TypeOK /\ [Next]_vars =>
        [\A u \in Users :
           settings'[u] # settings[u] /\ Cardinality(settings'[u]) > 1 =>
             \E r \in Requests : /\ req[r].op = "settings" /\ req[r].user = u
                                 /\ req'[r] = Idle
                                 /\ req[r].seen # settings[u]]_vars
  <2> SUFFICES ASSUME TypeOK, Next, NEW u \in Users,
                      settings'[u] # settings[u], Cardinality(settings'[u]) > 1
               PROVE  \E r \in Requests : /\ req[r].op = "settings" /\ req[r].user = u
                                          /\ req'[r] = Idle /\ req[r].seen # settings[u]
    OBVIOUS
  <2>1. PICK r \in Requests : CommitSettings(r)
    BY DEF Next, Arrive, SelectSettings, DeleteSettings, UpdateUnread, GetNote, SelectLink,
       CommitLink, CommitRead, Rollback, Begin
  <2>2. /\ settings \in [Users -> SUBSET [number : 1..batches, body : Bodies \union {Default}]]
        /\ DOMAIN req = Requests
    BY DEF TypeOK
  <2>3. req[r].op = "settings" /\ req'[r] = Idle
    BY <2>1, <2>2 DEF CommitSettings, End
  <2>4. PICK more : /\ settings' = [settings EXCEPT ![req[r].user] = (@ \ req[r].seen) \union more]
                    /\ more = {} \/ \E x : more = {x}
    <3>1. CASE req[r].body = Nothing
      <4>1. settings' = [settings EXCEPT ![req[r].user] = (@ \ req[r].seen) \union {}]
        BY <2>1, <3>1 DEF CommitSettings
      <4>2. QED BY <4>1
    <3>2. CASE req[r].body # Nothing
      BY <2>1, <3>2 DEF CommitSettings
    <3>3. QED BY <3>1, <3>2
  <2>5. req[r].user = u /\ settings'[u] = (settings[u] \ req[r].seen) \union more
    BY <2>2, <2>4
  <2>6. ASSUME req[r].seen = settings[u] PROVE FALSE
    <3>1. settings'[u] = more
      BY <2>5, <2>6
    <3>2. Cardinality(more) \in {0, 1}
      BY <2>4, FS_EmptySet, FS_Singleton
    <3>3. QED BY <3>1, <3>2
  <2>7. QED BY <2>3, <2>5, <2>6
<1>2. QED BY <1>1, SettingsTypeCorrect, PTL DEF Spec, OnlyOverlapsDuplicate
=============================================================================
