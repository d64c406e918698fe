---------------------------- MODULE MentoringProofs ----------------------------
(***************************************************************************)
(* The mentoring endpoints implement DecisionLog, keep rejected matches    *)
(* free of tasks and keep unions apart, for every number of requests.      *)
(***************************************************************************)
EXTENDS Mentoring, TLAPS

\* An UPDATE takes a task to a task and writes the columns that the request
\* changed.
LEMMA FlushedTask ==
    ASSUME NEW l \in TaskRows, NEW w \in TaskRows, NEW n \in TaskRows
    PROVE  /\ Flush(l, w, n) \in TaskRows
           /\ \A f \in {"match", "title", "completed"} :
                 Flush(l, w, n)[f] = IF w[f] = l[f] THEN n[f] ELSE w[f]
<1>1. DOMAIN n = {"match", "title", "completed"}
  BY DEF TaskRows
<1>2. Flush(l, w, n) =
        [f \in {"match", "title", "completed"} |-> IF w[f] = l[f] THEN n[f] ELSE w[f]]
  BY <1>1 DEF Flush
<1>3. Flush(l, w, n) = [match     |-> IF w.match = l.match THEN n.match ELSE w.match,
                        title     |-> IF w.title = l.title THEN n.title ELSE w.title,
                        completed |-> IF w.completed = l.completed THEN n.completed ELSE w.completed]
  BY <1>2
<1>4. QED BY <1>2, <1>3 DEF TaskRows

\* A patched task is a task of the same match that differs from the loaded one
\* in the fields of the body only.
LEMMA PatchedTask ==
    ASSUME NEW row \in TaskRows, NEW fields \in SUBSET {"title", "completed"},
           NEW title \in Titles, NEW done \in BOOLEAN
    PROVE  LET w == Patched(row, fields, title, done)
           IN  /\ w \in TaskRows
               /\ w.match = row.match
               /\ \A f \in {"title", "completed"} : w[f] # row[f] => f \in fields
BY DEF Patched, TaskRows

\* What a stored match owes its members' union.
UnionsMatch ==
    \A m \in Matches : match[m] # NoRow =>
        UnionOf[match[m].mentee] = match[m].union /\ UnionOf[match[m].mentor] = match[m].union

\* What a request in progress was checked for and still holds.
RequestsChecked ==
    \A r \in Requests :
        /\ req[r].op = "decide" =>
              /\ match[req[r].match].union = req[r].caller.union
              /\ req[r].to = "APPROVED" => req[r].caller.role # "MEMBER"
        /\ req[r].op = "create_task" => req[r].row.match = req[r].match
        /\ req[r].op = "update_task" =>
              /\ req[r].wanted.match = req[r].loaded.match
              /\ \A f \in {"title", "completed"} :
                    req[r].wanted[f] # req[r].loaded[f] => f \in req[r].fields

\* The inductive invariant: types, unions of members, and what requests hold.
Inv == TypeOK /\ UnionsMatch /\ RequestsChecked

\* A match is never removed, and never changes but in its status.
LEMMA CommittedDecision ==
    ASSUME Inv, NEW r \in Requests, CommitDecision(r)
    PROVE  /\ req[r] \in Deciding
           /\ match[req[r].match] \in MatchRows
           /\ match' = [match EXCEPT ![req[r].match] =
                          [union |-> @.union, mentee |-> @.mentee, mentor |-> @.mentor,
                           status |-> req[r].to]]
           /\ match'[req[r].match] \in MatchRows
<1>1. req[r] \in Deciding
  BY DEF Inv, TypeOK, CommitDecision, Idle, Deciding, AddingTask, Patching
<1>2. match[req[r].match] \in MatchRows
  BY <1>1 DEF Inv, TypeOK, Deciding
<1>3. [match[req[r].match] EXCEPT !.status = req[r].to] =
        [union |-> match[req[r].match].union, mentee |-> match[req[r].match].mentee,
         mentor |-> match[req[r].match].mentor, status |-> req[r].to]
  BY <1>2 DEF MatchRows
<1>4. QED BY <1>1, <1>2, <1>3 DEF CommitDecision, Deciding, MatchRows, Inv, TypeOK

\* The invariant holds at first and every step of every endpoint keeps it.
LEMMA InvHolds == Spec => []Inv
<1>1. Init => Inv
  BY DEF Init, Inv, TypeOK, UnionsMatch, RequestsChecked, Idle
<1>2. Inv /\ [Next]_vars => Inv'
  <2> SUFFICES ASSUME Inv, [Next]_vars PROVE Inv'
    OBVIOUS
  <2>0. /\ match \in [Matches -> MatchRows \union {NoRow}]
        /\ task \in [Tasks -> TaskRows \union {NoRow}]
        /\ req \in [Requests -> {Idle} \union Deciding \union AddingTask \union Patching]
        /\ NoRow \notin MatchRows /\ NoRow \notin TaskRows
    BY MentoringAssumption DEF Inv, TypeOK, MatchRows, TaskRows, Decisions
  <2>1. ASSUME NEW c \in Callers, NEW m \in Matches, NEW mentee \in Members, NEW mentor \in Members,
               CreateMatch(c, m, mentee, mentor)
        PROVE  Inv'
    <3> DEFINE new == [union |-> c.union, mentee |-> mentee, mentor |-> mentor, status |-> "PENDING"]
    <3>1. new \in MatchRows
      BY DEF Callers, MatchRows
    <3>2. match' = [match EXCEPT ![m] = new] /\ match[m] = NoRow /\ UNCHANGED <<task, req>>
      BY <2>1 DEF CreateMatch
    <3>3. TypeOK'
      BY <2>0, <3>1, <3>2 DEF Inv, TypeOK
    <3>4. UnionsMatch'
      BY <2>0, <2>1, <3>1, <3>2 DEF Inv, UnionsMatch, CreateMatch
    <3>5. \A r \in Requests : req[r].op = "decide" => req[r].match # m
      BY <3>2 DEF Inv, TypeOK
    <3>6. RequestsChecked'
      <4>1. \A r \in Requests : req[r].op = "decide" => req[r].match \in Matches
        BY <2>0 DEF Idle, Deciding, AddingTask, Patching
      <4>2. QED BY <2>0, <3>2, <3>5, <4>1 DEF Inv, RequestsChecked
    <3>7. QED BY <3>3, <3>4, <3>6 DEF Inv
  <2>2. ASSUME NEW r \in Requests, NEW c \in Callers, NEW m \in Matches, NEW d \in Decisions,
               ReadForDecision(r, c, m, d)
        PROVE  Inv'
    <3> DEFINE new == [op |-> "decide", caller |-> c, match |-> m, to |-> d]
    <3>1. req' = [req EXCEPT ![r] = new] /\ UNCHANGED <<match, task>>
      BY <2>2 DEF ReadForDecision
    <3>2. new \in Deciding
      BY DEF Deciding
    <3>3. match[m] # NoRow /\ match[m].union = c.union /\ (d = "APPROVED" => c.role # "MEMBER")
      BY <2>2 DEF ReadForDecision, Owned, MayDecide
    <3>4. TypeOK'
      BY <2>0, <3>1, <3>2, <3>3 DEF Inv, TypeOK
    <3>5. UnionsMatch' /\ RequestsChecked'
      BY <2>0, <3>1, <3>3 DEF Inv, UnionsMatch, RequestsChecked
    <3>6. QED BY <3>4, <3>5 DEF Inv
  <2>3. ASSUME NEW r \in Requests, CommitDecision(r) PROVE Inv'
    <3> DEFINE m == req[r].match
    <3>1. /\ req[r] \in Deciding /\ m \in Matches /\ match[m] \in MatchRows
          /\ match' = [match EXCEPT ![m] = [union |-> @.union, mentee |-> @.mentee,
                                            mentor |-> @.mentor, status |-> req[r].to]]
          /\ match'[m] \in MatchRows
      BY <2>3, CommittedDecision DEF Deciding
    <3>2. req' = [req EXCEPT ![r] = Idle] /\ UNCHANGED task
      BY <2>3 DEF CommitDecision
    <3>3. \A y \in Matches : /\ match'[y] = NoRow <=> match[y] = NoRow
                             /\ match[y] # NoRow => /\ match'[y].union = match[y].union
                                                    /\ match'[y].mentee = match[y].mentee
                                                    /\ match'[y].mentor = match[y].mentor
      BY <2>0, <3>1
    <3>4. match' \in [Matches -> MatchRows \union {NoRow}]
      BY <2>0, <3>1
    <3>5. \A q \in Requests : req'[q] = req[q] \/ req'[q] = Idle
      BY <2>0, <3>2
    <3>6. \A q \in Requests : req[q].op \in {"decide", "create_task"} => req[q].match \in Matches
      BY <2>0 DEF Idle, Deciding, AddingTask, Patching
    <3>7. TypeOK'
      BY <2>0, <3>2, <3>3, <3>4, <3>5, <3>6 DEF Inv, TypeOK, Idle
    <3>8. UnionsMatch'
      BY <3>3 DEF Inv, UnionsMatch
    <3>9. RequestsChecked'
      BY <3>3, <3>5, <3>6 DEF Inv, TypeOK, RequestsChecked, Idle
    <3>10. QED BY <3>7, <3>8, <3>9 DEF Inv
  <2>4. ASSUME NEW r \in Requests, NEW c \in Callers, NEW m \in Matches, NEW row \in TaskRows,
               ReadForNewTask(r, c, m, row)
        PROVE  Inv'
    <3> DEFINE new == [op |-> "create_task", match |-> m, row |-> row]
    <3>1. req' = [req EXCEPT ![r] = new] /\ UNCHANGED <<match, task>>
      BY <2>4 DEF ReadForNewTask
    <3>2. new \in AddingTask /\ match[m] # NoRow /\ row.match = m
      BY <2>4 DEF AddingTask, ReadForNewTask, Owned
    <3>3. TypeOK'
      BY <2>0, <3>1, <3>2 DEF Inv, TypeOK
    <3>4. UnionsMatch' /\ RequestsChecked'
      BY <2>0, <3>1, <3>2 DEF Inv, UnionsMatch, RequestsChecked
    <3>5. QED BY <3>3, <3>4 DEF Inv
  <2>5. ASSUME NEW r \in Requests, NEW t \in Tasks, CommitNewTask(r, t) PROVE Inv'
    <3>1. req[r] \in AddingTask
      BY <2>0, <2>5 DEF CommitNewTask, Idle, Deciding, AddingTask, Patching
    <3>2. task' = [task EXCEPT ![t] = req[r].row] /\ req' = [req EXCEPT ![r] = Idle] /\ UNCHANGED match
      BY <2>5 DEF CommitNewTask
    <3>3. req[r].row \in TaskRows
      BY <3>1 DEF AddingTask
    <3>4. TypeOK'
      BY <2>0, <3>2, <3>3 DEF Inv, TypeOK, Idle
    <3>5. UnionsMatch' /\ RequestsChecked'
      BY <2>0, <3>2 DEF Inv, UnionsMatch, RequestsChecked, Idle
    <3>6. QED BY <3>4, <3>5 DEF Inv
  <2>6. ASSUME NEW r \in Requests, NEW c \in Callers, NEW m \in Matches, NEW t \in Tasks,
               NEW fields \in SUBSET {"title", "completed"}, NEW title \in Titles, NEW done \in BOOLEAN,
               ReadForTaskPatch(r, c, m, t, fields, title, done)
        PROVE  Inv'
    <3> DEFINE w   == Patched(task[t], fields, title, done)
               new == [op |-> "update_task", task |-> t, fields |-> fields, loaded |-> task[t],
                       wanted |-> w]
    <3>1. req' = [req EXCEPT ![r] = new] /\ UNCHANGED <<match, task>>
      BY <2>6 DEF ReadForTaskPatch
    <3>2. task[t] \in TaskRows
      BY <2>0, <2>6 DEF ReadForTaskPatch
    <3>3. /\ w \in TaskRows /\ w.match = task[t].match
          /\ \A f \in {"title", "completed"} : w[f] # task[t][f] => f \in fields
      BY <3>2, PatchedTask
    <3> HIDE DEF w
    <3>4. new \in Patching
      BY <3>2, <3>3 DEF Patching
    <3>5. TypeOK'
      BY <2>0, <3>1, <3>2, <3>4 DEF Inv, TypeOK
    <3>6. UnionsMatch' /\ RequestsChecked'
      BY <2>0, <3>1, <3>3 DEF Inv, UnionsMatch, RequestsChecked
    <3>7. QED BY <3>5, <3>6 DEF Inv
  <2>7. ASSUME NEW r \in Requests, CommitTaskPatch(r) PROVE Inv'
    <3> DEFINE t == req[r].task
               new == Flush(req[r].loaded, req[r].wanted, task[t])
    <3>1. req[r] \in Patching
      BY <2>0, <2>7 DEF CommitTaskPatch, Idle, Deciding, AddingTask, Patching
    <3>2. t \in Tasks /\ task[t] \in TaskRows
      BY <2>0, <2>7, <3>1 DEF Inv, TypeOK, CommitTaskPatch, Patching
    <3>3. new \in TaskRows
      BY <3>1, <3>2, FlushedTask DEF Patching
    <3>4. task' = [task EXCEPT ![t] = new] /\ req' = [req EXCEPT ![r] = Idle] /\ UNCHANGED match
      BY <2>7 DEF CommitTaskPatch
    <3> HIDE DEF new
    <3>5. TypeOK'
      BY <2>0, <3>2, <3>3, <3>4 DEF Inv, TypeOK, Idle
    <3>6. UnionsMatch' /\ RequestsChecked'
      BY <2>0, <3>4 DEF Inv, UnionsMatch, RequestsChecked, Idle
    <3>7. QED BY <3>5, <3>6 DEF Inv
  <2>8. ASSUME NEW r \in Requests, Rollback(r) PROVE Inv'
    BY <2>0, <2>8 DEF Rollback, Inv, TypeOK, UnionsMatch, RequestsChecked, Idle
  <2>9. CASE UNCHANGED vars
    BY <2>9 DEF vars, Inv, TypeOK, UnionsMatch, RequestsChecked
  <2>10. QED BY <2>1, <2>2, <2>3, <2>4, <2>5, <2>6, <2>7, <2>8, <2>9 DEF Next
<1>3. QED BY <1>1, <1>2, PTL DEF Spec

\* Matches, tasks and requests in progress keep their types, and a request that
\* is to write a row finds it.
THEOREM MentoringTypeCorrect == Spec => []TypeOK
BY InvHolds, PTL DEF Inv

----------------------------------------------------------------------------
(* The refinement *)

LogStatus == [m \in Matches |-> IF match[m] = NoRow THEN "ABSENT" ELSE match[m].status]
LogClaim  == [r \in Requests |-> IF req[r].op = "decide"
                                 THEN [item |-> req[r].match, decision |-> req[r].to]
                                 ELSE NoRow]

\* A request that decides holds a claim.
LEMMA ClaimOfDeciding ==
    ASSUME Inv, NEW r \in Requests, req[r].op = "decide"
    PROVE  /\ req[r] \in Deciding
           /\ LogClaim[r] = [item |-> req[r].match, decision |-> req[r].to]
           /\ LogClaim[r] # NoRow
<1>1. req[r] \in Deciding
  BY DEF Inv, TypeOK, Idle, Deciding, AddingTask, Patching
<1>2. LogClaim[r] = [item |-> req[r].match, decision |-> req[r].to]
  BY DEF LogClaim
<1>3. [item |-> req[r].match, decision |-> req[r].to] \in
        [item : Matches, decision : {"APPROVED", "REJECTED"}]
  BY <1>1 DEF Deciding, Decisions
<1>4. QED BY <1>1, <1>2, <1>3, MentoringAssumption

\* approve_match and reject_match refine DecisionLog; the steps of tasks and of
\* create_task stutter.
THEOREM MentoringImplementsDecisionLog == Spec => ImplementsDecisionLog
<1>1. Init => Log!Init
  BY DEF Init, Log!Init, Idle
<1>2. Inv /\ [Next]_vars => [Log!Next]_(Log!vars)
  <2> SUFFICES ASSUME Inv, [Next]_vars PROVE Log!Next \/ UNCHANGED <<LogStatus, LogClaim>>
    BY DEF Log!vars, LogStatus, LogClaim
  <2>0. /\ match \in [Matches -> MatchRows \union {NoRow}]
        /\ req \in [Requests -> {Idle} \union Deciding \union AddingTask \union Patching]
        /\ NoRow \notin MatchRows
    BY MentoringAssumption DEF Inv, TypeOK, MatchRows, Decisions
  <2>1. ASSUME NEW c \in Callers, NEW m \in Matches, NEW mentee \in Members, NEW mentor \in Members,
               CreateMatch(c, m, mentee, mentor)
        PROVE  Log!Next
    <3> DEFINE new == [union |-> c.union, mentee |-> mentee, mentor |-> mentor, status |-> "PENDING"]
    <3>1. new \in MatchRows
      BY DEF Callers, MatchRows
    <3>2. match' = [match EXCEPT ![m] = new] /\ match[m] = NoRow /\ UNCHANGED req
      BY <2>1 DEF CreateMatch
    <3>3. LogStatus' = [LogStatus EXCEPT ![m] = "PENDING"] /\ LogStatus[m] = "ABSENT"
      BY <2>0, <3>1, <3>2 DEF LogStatus
    <3>4. UNCHANGED LogClaim
      BY <3>2 DEF LogClaim
    <3>5. Log!Create(m)
      BY <3>3, <3>4 DEF Log!Create, LogStatus, LogClaim
    <3>6. QED BY <3>5 DEF Log!Next
  <2>2. ASSUME NEW r \in Requests, NEW c \in Callers, NEW m \in Matches, NEW d \in Decisions,
               ReadForDecision(r, c, m, d)
        PROVE  Log!Next
    <3>1. /\ req[r] = Idle /\ match[m] # NoRow /\ match[m].status = "PENDING"
          /\ req' = [req EXCEPT ![r] = [op |-> "decide", caller |-> c, match |-> m, to |-> d]]
          /\ UNCHANGED match
      BY <2>2 DEF ReadForDecision, Owned
    <3>2. LogStatus[m] = "PENDING" /\ LogStatus' = LogStatus
      BY <3>1 DEF LogStatus
    <3>3. LogClaim[r] = NoRow
      BY <3>1 DEF LogClaim, Idle
    <3>4. LogClaim' = [LogClaim EXCEPT ![r] = [item |-> m, decision |-> d]]
      <4>1. req'[r].op = "decide" /\ req'[r].match = m /\ req'[r].to = d
        BY <2>0, <3>1
      <4>2. \A q \in Requests : q # r => req'[q] = req[q]
        BY <2>0, <3>1
      <4>3. QED BY <4>1, <4>2 DEF LogClaim
    <3>5. Log!Claim(r, m, d)
      BY <3>2, <3>3, <3>4 DEF Log!Claim, LogStatus, LogClaim
    <3>6. QED BY <3>5 DEF Log!Next
  <2>3. ASSUME NEW r \in Requests, CommitDecision(r) PROVE Log!Next
    <3> DEFINE m == req[r].match
    <3>1. /\ req[r] \in Deciding /\ match[m] \in MatchRows
          /\ match' = [match EXCEPT ![m] = [union |-> @.union, mentee |-> @.mentee,
                                            mentor |-> @.mentor, status |-> req[r].to]]
          /\ match'[m] \in MatchRows
      BY <2>3, CommittedDecision
    <3>2. m \in Matches /\ req[r].op = "decide"
      BY <3>1 DEF Deciding
    <3>3. req' = [req EXCEPT ![r] = Idle]
      BY <2>3 DEF CommitDecision
    <3>4. LogStatus' = [LogStatus EXCEPT ![m] = req[r].to]
      BY <2>0, <3>1, <3>2 DEF LogStatus
    <3>5. LogClaim' = [LogClaim EXCEPT ![r] = NoRow]
      BY <2>0, <3>3 DEF LogClaim, Idle
    <3>6. LogClaim[r] = [item |-> m, decision |-> req[r].to] /\ LogClaim[r] # NoRow
      BY <3>2, ClaimOfDeciding
    <3>7. Log!Decide(r)
      BY <3>4, <3>5, <3>6 DEF Log!Decide, LogStatus, LogClaim
    <3>8. QED BY <3>7 DEF Log!Next
  <2>4. ASSUME UNCHANGED match,
               \A r \in Requests : req'[r].op = "decide" \/ req[r].op = "decide" => req'[r] = req[r]
        PROVE  UNCHANGED <<LogStatus, LogClaim>>
    BY <2>4 DEF LogStatus, LogClaim
  <2>5. ASSUME NEW r \in Requests, NEW c \in Callers, NEW m \in Matches, NEW row \in TaskRows,
               ReadForNewTask(r, c, m, row)
        PROVE  UNCHANGED <<LogStatus, LogClaim>>
    BY <2>0, <2>4, <2>5 DEF ReadForNewTask, Idle
  <2>6. ASSUME NEW r \in Requests, NEW t \in Tasks, CommitNewTask(r, t)
        PROVE  UNCHANGED <<LogStatus, LogClaim>>
    BY <2>0, <2>4, <2>6 DEF CommitNewTask, Idle
  <2>7. ASSUME NEW r \in Requests, NEW c \in Callers, NEW m \in Matches, NEW t \in Tasks,
               NEW fields \in SUBSET {"title", "completed"}, NEW title \in Titles, NEW done \in BOOLEAN,
               ReadForTaskPatch(r, c, m, t, fields, title, done)
        PROVE  UNCHANGED <<LogStatus, LogClaim>>
    BY <2>0, <2>4, <2>7 DEF ReadForTaskPatch, Idle
  <2>8. ASSUME NEW r \in Requests, CommitTaskPatch(r) PROVE UNCHANGED <<LogStatus, LogClaim>>
    BY <2>0, <2>4, <2>8 DEF CommitTaskPatch, Idle
  <2>9. ASSUME NEW r \in Requests, Rollback(r) PROVE Log!Next \/ UNCHANGED <<LogStatus, LogClaim>>
    <3>1. req' = [req EXCEPT ![r] = Idle] /\ UNCHANGED match
      BY <2>9 DEF Rollback
    <3>2. CASE req[r].op = "decide"
      <4>1. LogClaim' = [LogClaim EXCEPT ![r] = NoRow] /\ LogStatus' = LogStatus
        BY <2>0, <3>1 DEF LogClaim, LogStatus, Idle
      <4>2. LogClaim[r] # NoRow
        BY <3>2, ClaimOfDeciding
      <4>3. Log!Abandon(r)
        BY <4>1, <4>2 DEF Log!Abandon, LogStatus, LogClaim
      <4>4. QED BY <4>3 DEF Log!Next
    <3>3. CASE req[r].op # "decide"
      BY <2>0, <2>4, <3>1, <3>3 DEF Idle
    <3>4. QED BY <3>2, <3>3
  <2>10. CASE UNCHANGED vars
    BY <2>10 DEF vars, LogStatus, LogClaim
  <2>11. QED BY <2>1, <2>2, <2>3, <2>5, <2>6, <2>7, <2>8, <2>9, <2>10 DEF Next
<1>3. QED BY <1>1, <1>2, InvHolds, PTL DEF Spec, ImplementsDecisionLog, Log!Spec

\* The steps of the log, in terms of its two variables.
LEMMA LogSteps ==
    ASSUME [Log!Next]_(Log!vars)
    PROVE  \/ \E m \in Matches :
                 /\ LogStatus[m] = "ABSENT"
                 /\ LogStatus' = [LogStatus EXCEPT ![m] = "PENDING"]
                 /\ LogClaim' = LogClaim
           \/ \E r \in Requests, m \in Matches, d \in Decisions :
                 /\ LogClaim[r] = NoRow /\ LogStatus[m] = "PENDING"
                 /\ LogStatus' = LogStatus
                 /\ LogClaim' = [LogClaim EXCEPT ![r] = [item |-> m, decision |-> d]]
           \/ \E r \in Requests :
                 /\ LogClaim[r] # NoRow
                 /\ LogStatus' \in {LogStatus, [LogStatus EXCEPT ![LogClaim[r].item] =
                                                                      LogClaim[r].decision]}
                 /\ LogClaim' = [LogClaim EXCEPT ![r] = NoRow]
           \/ LogStatus' = LogStatus /\ LogClaim' = LogClaim
<1>1. CASE Log!Next
  BY <1>1 DEF Log!Next, Log!Create, Log!Claim, Log!Decide, Log!Abandon, LogStatus, LogClaim
<1>2. CASE UNCHANGED Log!vars
  BY <1>2 DEF Log!vars, LogStatus, LogClaim
<1>3. QED BY <1>1, <1>2

\* The statuses and claims of matches keep the types of the log.
LEMMA LogTypeCorrect == Log!Spec => []Log!TypeOK
<1> DEFINE Typed ==
      /\ LogStatus \in [Matches -> Decisions \union {"ABSENT", "PENDING"}]
      /\ LogClaim \in [Requests -> [item : Matches, decision : Decisions] \union {NoRow}]
<1>1. Log!Init => Log!TypeOK
  BY DEF Log!Init, Log!TypeOK
<1>2. Log!TypeOK /\ [Log!Next]_(Log!vars) => Log!TypeOK'
  <2> SUFFICES ASSUME Log!TypeOK, [Log!Next]_(Log!vars) PROVE Log!TypeOK'
    OBVIOUS
  <2>1. Typed
    BY DEF Log!TypeOK, Log!Claims, LogStatus, LogClaim
  <2>2. Typed'
    BY <2>1, LogSteps
  <2>3. QED BY <2>2 DEF Log!TypeOK, Log!Claims, LogStatus, LogClaim
<1>3. QED BY <1>1, <1>2, PTL DEF Log!Spec

\* An approval or rejection that no unfinished request could overwrite is final:
\* a match is neither reopened nor decided again.
THEOREM MatchesSettle == Spec => Log!SettledIsFinal
<1> DEFINE Over(x) == /\ LogStatus[x] \in Decisions
                      /\ \A r \in Requests : ~(LogClaim[r] # NoRow /\ LogClaim[r].item = x)
<1>1. Log!TypeOK /\ [Log!Next]_(Log!vars) =>
        [\A x \in Matches : Log!Settled(x) =>
            LogStatus'[x] = LogStatus[x] /\ Log!Settled(x)']_(Log!vars)
  <2> SUFFICES ASSUME Log!TypeOK, [Log!Next]_(Log!vars),
                      NEW x \in Matches, Log!Settled(x)
               PROVE  LogStatus'[x] = LogStatus[x] /\ Log!Settled(x)'
    OBVIOUS
  <2>1. /\ LogStatus \in [Matches -> Decisions \union {"ABSENT", "PENDING"}]
        /\ LogClaim \in [Requests -> [item : Matches, decision : Decisions] \union {NoRow}]
    BY DEF Log!TypeOK, Log!Claims, LogStatus, LogClaim
  <2>2. Over(x)
    BY DEF Log!Settled, Log!Claimed, LogStatus, LogClaim
  <2>3. LogStatus'[x] = LogStatus[x] /\ Over(x)'
    BY <2>1, <2>2, LogSteps DEF Decisions
  <2>4. QED BY <2>3 DEF Log!Settled, Log!Claimed, LogStatus, LogClaim
<1>2. Log!Spec => Log!SettledIsFinal
  BY <1>1, LogTypeCorrect, PTL DEF Log!Spec, Log!SettledIsFinal, LogStatus
<1>3. QED BY <1>2, MentoringImplementsDecisionLog, PTL DEF ImplementsDecisionLog

----------------------------------------------------------------------------
(* Action properties *)

\* A match changes only by the commit of a request that decides it and was
\* checked against its union, in which its members are.
THEOREM DecidersAreOfTheUnion == Spec => DecidedByOwnUnion
<1> DEFINE A(m) == match[m] # NoRow /\ match'[m] # match[m] =>
          \E r \in Requests :
             /\ req[r].op = "decide" /\ req[r].match = m
             /\ req[r].caller.union = UnionOf[match[m].mentee]
             /\ req[r].caller.union = UnionOf[match[m].mentor]
             /\ match'[m].status = "APPROVED" => req[r].caller.role # "MEMBER"
<1>1. Inv /\ [Next]_vars => [\A m \in Matches : A(m)]_vars
  <2> SUFFICES ASSUME Inv, Next, NEW m \in Matches, match[m] # NoRow, match'[m] # match[m]
               PROVE  A(m)
    OBVIOUS
  <2>0. match \in [Matches -> MatchRows \union {NoRow}]
    BY DEF Inv, TypeOK
  <2>1. ASSUME NEW c \in Callers, NEW y \in Matches, NEW mentee \in Members, NEW mentor \in Members,
               CreateMatch(c, y, mentee, mentor)
        PROVE  FALSE
    BY <2>0, <2>1 DEF CreateMatch
  <2>2. ASSUME NEW r \in Requests, CommitDecision(r) PROVE A(m)
    <3>1. /\ req[r] \in Deciding /\ match[req[r].match] \in MatchRows
          /\ match' = [match EXCEPT ![req[r].match] =
                         [union |-> @.union, mentee |-> @.mentee, mentor |-> @.mentor,
                          status |-> req[r].to]]
      BY <2>2, CommittedDecision
    <3>2. req[r].match = m
      BY <2>0, <3>1
    <3>3. req[r].op = "decide" /\ match'[m].status = req[r].to
      BY <2>0, <3>1, <3>2 DEF Deciding
    <3>4. /\ match[m].union = req[r].caller.union
          /\ req[r].to = "APPROVED" => req[r].caller.role # "MEMBER"
      BY <3>2, <3>3 DEF Inv, RequestsChecked
    <3>5. UnionOf[match[m].mentee] = match[m].union /\ UnionOf[match[m].mentor] = match[m].union
      BY DEF Inv, UnionsMatch
    <3>6. QED BY <3>2, <3>3, <3>4, <3>5
  <2>3. QED
    BY <2>1, <2>2
    DEF Next, ReadForDecision, ReadForNewTask, CommitNewTask, ReadForTaskPatch, CommitTaskPatch, Rollback
<1>2. QED BY <1>1, InvHolds, PTL DEF Spec, DecidedByOwnUnion

\* A field of a task changes only by the commit of a PATCH that names it:
\* overlapping PATCHes of different fields both take effect.
THEOREM PatchesMerge == Spec => PatchKeepsOtherFields
<1> DEFINE A(t) == task[t] # NoRow =>
          \A f \in {"title", "completed"} : task'[t][f] # task[t][f] =>
             \E r \in Requests : /\ req[r].op = "update_task" /\ req[r].task = t
                                 /\ f \in req[r].fields
                                 /\ req'[r] = Idle
<1>1. Inv /\ [Next]_vars => [\A t \in Tasks : A(t)]_vars
  <2> SUFFICES ASSUME Inv, Next, NEW t \in Tasks, task[t] # NoRow, NEW f \in {"title", "completed"},
                      task'[t][f] # task[t][f]
               PROVE  \E r \in Requests : /\ req[r].op = "update_task" /\ req[r].task = t
                                          /\ f \in req[r].fields
                                          /\ req'[r] = Idle
    OBVIOUS
  <2>0. /\ task \in [Tasks -> TaskRows \union {NoRow}]
        /\ req \in [Requests -> {Idle} \union Deciding \union AddingTask \union Patching]
    BY DEF Inv, TypeOK
  <2>1. ASSUME NEW r \in Requests, NEW y \in Tasks, CommitNewTask(r, y) PROVE FALSE
    BY <2>0, <2>1 DEF CommitNewTask
  <2>2. ASSUME NEW r \in Requests, CommitTaskPatch(r)
        PROVE  /\ req[r].op = "update_task" /\ req[r].task = t
               /\ f \in req[r].fields
               /\ req'[r] = Idle
    <3>1. req[r].op = "update_task" /\ req[r] \in Patching
      BY <2>0, <2>2 DEF CommitTaskPatch, Idle, Deciding, AddingTask, Patching
    <3>2. req[r].task = t
      BY <2>0, <2>2 DEF CommitTaskPatch
    <3>3. task'[t] = Flush(req[r].loaded, req[r].wanted, task[t])
      BY <2>0, <2>2, <3>2 DEF CommitTaskPatch
    <3>4. req[r].wanted[f] # req[r].loaded[f]
      <4>1. req[r].loaded \in TaskRows /\ req[r].wanted \in TaskRows /\ task[t] \in TaskRows
        BY <2>0, <3>1 DEF Patching
      <4>2. QED BY <3>3, <4>1, FlushedTask
    <3>5. f \in req[r].fields
      BY <3>1, <3>4 DEF Inv, RequestsChecked
    <3>6. QED BY <2>0, <2>2, <3>1, <3>2, <3>5 DEF CommitTaskPatch
  <2>3. QED
    BY <2>1, <2>2
    DEF Next, CreateMatch, ReadForDecision, CommitDecision, ReadForNewTask, ReadForTaskPatch, Rollback
<1>2. QED BY <1>1, InvHolds, PTL DEF Spec, PatchKeepsOtherFields

\* A rejected match with no request left that decides it or adds a task to it.
Shut(m) ==
    /\ match[m] # NoRow /\ match[m].status = "REJECTED"
    /\ \A r \in Requests : req[r].op \in {"decide", "create_task"} => req[r].match # m
    /\ \A t \in Tasks : task[t] # NoRow => task[t].match # m

\* RejectionSticks speaks of matches that are shut.
LEMMA ShutMeansSettled ==
    ASSUME Inv, NEW m \in Matches
    PROVE  (Log!Settled(m) /\ match[m].status = "REJECTED" /\ ~HasTasks(m)) <=> Shut(m)
<1>1. \A r \in Requests : Log!Claimed(r, m) <=> req[r].op = "decide" /\ req[r].match = m
  <2> SUFFICES ASSUME NEW r \in Requests
               PROVE  Log!Claimed(r, m) <=> req[r].op = "decide" /\ req[r].match = m
    OBVIOUS
  <2>1. Log!Claimed(r, m) <=> LogClaim[r] # NoRow /\ LogClaim[r].item = m
    BY DEF Log!Claimed, LogClaim
  <2>2. CASE req[r].op = "decide"
    <3>1. LogClaim[r] = [item |-> req[r].match, decision |-> req[r].to] /\ LogClaim[r] # NoRow
      BY <2>2, ClaimOfDeciding
    <3>2. LogClaim[r].item = req[r].match
      BY <3>1
    <3>3. QED BY <2>1, <2>2, <3>1, <3>2
  <2>3. CASE req[r].op # "decide"
    BY <2>1, <2>3 DEF LogClaim
  <2>4. QED BY <2>2, <2>3
<1>2. Log!Settled(m) <=> /\ LogStatus[m] \in Decisions
                         /\ \A r \in Requests : ~(req[r].op = "decide" /\ req[r].match = m)
  BY <1>1 DEF Log!Settled, LogStatus
<1>3. LogStatus[m] \in Decisions /\ match[m].status = "REJECTED"
        <=> match[m] # NoRow /\ match[m].status = "REJECTED"
  BY DEF LogStatus, Decisions
<1>4. QED BY <1>2, <1>3 DEF Shut, HasTasks

\* Neither a late decision nor a late create_task, each going by the status it
\* loaded, reopens a shut match or hangs a task on it: no such request is left,
\* and new ones are refused.
THEOREM RejectedStaysRejected == Spec => RejectionSticks
<1> DEFINE Stuck(m) == Log!Settled(m) /\ match[m].status = "REJECTED" /\ ~HasTasks(m)
           AllShut  == \A m \in Matches : Stuck(m) <=> Shut(m)
<1>1. Inv => AllShut
  BY ShutMeansSettled
<1>2. Inv /\ [Next]_vars => [\A m \in Matches : Shut(m) => Shut(m)']_vars
  <2> SUFFICES ASSUME Inv, Next, NEW m \in Matches, Shut(m) PROVE Shut(m)'
    OBVIOUS
  <2>0. /\ match \in [Matches -> MatchRows \union {NoRow}]
        /\ task \in [Tasks -> TaskRows \union {NoRow}]
        /\ req \in [Requests -> {Idle} \union Deciding \union AddingTask \union Patching]
        /\ NoRow \notin MatchRows /\ NoRow \notin TaskRows
    BY MentoringAssumption DEF Inv, TypeOK, MatchRows, TaskRows, Decisions
  <2>1. ASSUME NEW c \in Callers, NEW y \in Matches, NEW mentee \in Members, NEW mentor \in Members,
               CreateMatch(c, y, mentee, mentor)
        PROVE  Shut(m)'
    BY <2>0, <2>1 DEF CreateMatch, Shut
  <2>2. ASSUME NEW r \in Requests, NEW c \in Callers, NEW y \in Matches, NEW d \in Decisions,
               ReadForDecision(r, c, y, d)
        PROVE  Shut(m)'
    <3>1. y # m
      BY <2>2 DEF ReadForDecision, Shut
    <3>2. QED BY <2>0, <2>2, <3>1 DEF ReadForDecision, Shut
  <2>3. ASSUME NEW r \in Requests, CommitDecision(r) PROVE Shut(m)'
    <3>1. req[r].match # m
      BY <2>3 DEF CommitDecision, Shut
    <3>2. match'[m] = match[m]
      BY <2>0, <2>3, <3>1 DEF CommitDecision
    <3>3. QED BY <2>0, <2>3, <3>2 DEF CommitDecision, Shut, Idle
  <2>4. ASSUME NEW r \in Requests, NEW c \in Callers, NEW y \in Matches, NEW row \in TaskRows,
               ReadForNewTask(r, c, y, row)
        PROVE  Shut(m)'
    <3>1. y # m
      BY <2>4 DEF ReadForNewTask, Shut
    <3>2. QED BY <2>0, <2>4, <3>1 DEF ReadForNewTask, Shut
  <2>5. ASSUME NEW r \in Requests, NEW t \in Tasks, CommitNewTask(r, t) PROVE Shut(m)'
    <3>1. req[r].match # m /\ req[r].row.match = req[r].match
      BY <2>5 DEF CommitNewTask, Shut, Inv, RequestsChecked
    <3>2. task'[t].match # m
      BY <2>0, <2>5, <3>1 DEF CommitNewTask
    <3>3. \A y \in Tasks : y # t => task'[y] = task[y]
      BY <2>0, <2>5 DEF CommitNewTask
    <3>4. QED BY <2>0, <2>5, <3>2, <3>3 DEF CommitNewTask, Shut, Idle
  <2>6. ASSUME NEW r \in Requests, NEW c \in Callers, NEW y \in Matches, NEW t \in Tasks,
               NEW fields \in SUBSET {"title", "completed"}, NEW title \in Titles, NEW done \in BOOLEAN,
               ReadForTaskPatch(r, c, y, t, fields, title, done)
        PROVE  Shut(m)'
    BY <2>0, <2>6 DEF ReadForTaskPatch, Shut
  <2>7. ASSUME NEW r \in Requests, CommitTaskPatch(r) PROVE Shut(m)'
    <3> DEFINE t == req[r].task
    <3>1. req[r] \in Patching /\ req[r].op = "update_task"
      BY <2>0, <2>7 DEF CommitTaskPatch, Idle, Deciding, AddingTask, Patching
    <3>2. t \in Tasks /\ task[t] \in TaskRows
      BY <2>0, <3>1 DEF Inv, TypeOK, Patching
    <3>3. req[r].wanted.match = req[r].loaded.match
      BY <3>1 DEF Inv, RequestsChecked
    <3>4. Flush(req[r].loaded, req[r].wanted, task[t])["match"] = task[t].match
      BY <3>1, <3>2, <3>3, FlushedTask DEF Patching
    <3>5. task'[t].match = task[t].match /\ \A y \in Tasks : y # t => task'[y] = task[y]
      BY <2>0, <2>7, <3>2, <3>4 DEF CommitTaskPatch
    <3>6. QED BY <2>0, <2>7, <3>2, <3>5 DEF CommitTaskPatch, Shut, Idle
  <2>8. ASSUME NEW r \in Requests, Rollback(r) PROVE Shut(m)'
    BY <2>0, <2>8 DEF Rollback, Shut, Idle
  <2>9. QED BY <2>1, <2>2, <2>3, <2>4, <2>5, <2>6, <2>7, <2>8 DEF Next
<1>3. AllShut /\ AllShut' /\ [\A m \in Matches : Shut(m) => Shut(m)']_vars
        => [\A m \in Matches : Stuck(m) => Stuck(m)']_vars
  <2> HIDE DEF Stuck
  <2> QED OBVIOUS
<1>4. QED BY <1>1, <1>2, <1>3, InvHolds, PTL DEF Spec, RejectionSticks
=============================================================================
