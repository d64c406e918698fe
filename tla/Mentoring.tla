------------------------------- MODULE Mentoring -------------------------------
(***************************************************************************)
(* Mentoring matches and their tasks                                       *)
(* (src/src/mentoring/adapter/http/router/mentoring_router.py).            *)
(*                                                                         *)
(* A request loads its rows, checks them and commits; other requests       *)
(* commit between the load and the commit.  approve, reject, create_task   *)
(* and update_task are therefore two steps each.  create_match reads only  *)
(* members, which no request changes, and is one step.  Requests that are  *)
(* refused (400, 403, 404, 409) and the read-only endpoints change nothing *)
(* and are no steps.                                                       *)
(***************************************************************************)
EXTENDS RowStore

CONSTANTS
    Requests,   \* requests in progress at once
    Matches,    \* match ids
    Tasks,      \* task ids
    Titles,     \* task titles (description and due date behave alike)
    Unions,
    Members,
    UnionOf,    \* members' union: [Members -> Unions]
    NoRow       \* the row of an unused id

ASSUME MentoringAssumption ==
    /\ UnionOf \in [Members -> Unions]
    /\ NoRow \notin [union : Unions, mentee : Members, mentor : Members,
                     status : {"PENDING", "APPROVED", "REJECTED"}]
    /\ NoRow \notin [match : Matches, title : Titles, completed : BOOLEAN]
    /\ NoRow \notin [item : Matches, decision : {"APPROVED", "REJECTED"}]

Roles     == {"UNION_ADMIN", "CONSULTANT", "MEMBER"}
Callers   == [union : Unions, role : Roles]
Decisions == {"APPROVED", "REJECTED"}
MatchRows == [union : Unions, mentee : Members, mentor : Members,
              status : {"PENDING"} \union Decisions]
TaskRows  == [match : Matches, title : Titles, completed : BOOLEAN]

VARIABLES
    match,      \* table mentoring_matches
    task,       \* table mentoring_tasks
    req         \* what each request has loaded and is about to commit

vars == <<match, task, req>>

Idle == [op |-> "idle"]

Init ==
    /\ match = [m \in Matches |-> NoRow]
    /\ task = [t \in Tasks |-> NoRow]
    /\ req = [r \in Requests |-> Idle]

----------------------------------------------------------------------------

\* Faulty: the union is not compared.
Found(c, m) == match[m] # NoRow

\* get_owned_match: the row exists and is of the caller's union.
Owned(c, m) == match[m] # NoRow /\ match[m].union = c.union

\* Faulty: the status is not one the other endpoints know.
CreateMatchRequested(c, m, mentee, mentor) ==
    /\ match[m] = NoRow
    /\ mentee # mentor
    /\ UnionOf[mentee] = c.union /\ UnionOf[mentor] = c.union
    /\ match' = [match EXCEPT ![m] = [union |-> c.union, mentee |-> mentee,
                                      mentor |-> mentor, status |-> "REQUESTED"]]
    /\ UNCHANGED <<task, req>>

CreateMatch(c, m, mentee, mentor) ==
    /\ match[m] = NoRow
    /\ mentee # mentor
    /\ UnionOf[mentee] = c.union /\ UnionOf[mentor] = c.union
    /\ match' = [match EXCEPT ![m] = [union |-> c.union, mentee |-> mentee,
                                      mentor |-> mentor, status |-> "PENDING"]]
    /\ UNCHANGED <<task, req>>

\* approve_match and reject_match up to the commit.
MayDecide(c, d) == d = "APPROVED" => c.role \in {"UNION_ADMIN", "CONSULTANT"}

\* Faulty: a decided match may be decided again.
ReadForRedecision(r, c, m, d) ==
    /\ req[r] = Idle
    /\ MayDecide(c, d)
    /\ Owned(c, m)
    /\ req' = [req EXCEPT ![r] = [op |-> "decide", caller |-> c, match |-> m, to |-> d]]
    /\ UNCHANGED <<match, task>>

ReadForDecision(r, c, m, d) ==
    /\ req[r] = Idle
    /\ MayDecide(c, d)
    /\ Owned(c, m)
    /\ match[m].status = "PENDING"
    /\ req' = [req EXCEPT ![r] = [op |-> "decide", caller |-> c, match |-> m, to |-> d]]
    /\ UNCHANGED <<match, task>>

\* Their commit: the status differs from the one loaded, so it is written.
CommitDecision(r) ==
    /\ req[r].op = "decide"
    /\ match' = [match EXCEPT ![req[r].match].status = req[r].to]
    /\ req' = [req EXCEPT ![r] = Idle]
    /\ UNCHANGED task

\* Faulty: the status of the match is not looked at.
ReadForAnyNewTask(r, c, m, row) ==
    /\ req[r] = Idle
    /\ Owned(c, m)
    /\ row.match = m
    /\ req' = [req EXCEPT ![r] = [op |-> "create_task", match |-> m, row |-> row]]
    /\ UNCHANGED <<match, task>>

ReadForNewTask(r, c, m, row) ==
    /\ req[r] = Idle
    /\ Owned(c, m)
    /\ match[m].status = "APPROVED"
    /\ row.match = m
    /\ req' = [req EXCEPT ![r] = [op |-> "create_task", match |-> m, row |-> row]]
    /\ UNCHANGED <<match, task>>

CommitNewTask(r, t) ==
    /\ req[r].op = "create_task"
    /\ task[t] = NoRow
    /\ task' = [task EXCEPT ![t] = req[r].row]
    /\ req' = [req EXCEPT ![r] = Idle]
    /\ UNCHANGED match

\* update_task assigns the fields the body sets; whether the match is still
\* approved is not asked.
Patched(row, fields, title, completed) ==
    [row EXCEPT !.title = IF "title" \in fields THEN title ELSE @,
                !.completed = IF "completed" \in fields THEN completed ELSE @]

ReadForTaskPatch(r, c, m, t, fields, title, completed) ==
    /\ req[r] = Idle
    /\ Owned(c, m)
    /\ task[t] # NoRow /\ task[t].match = m
    /\ req' = [req EXCEPT ![r] =
                 [op |-> "update_task", task |-> t, fields |-> fields, loaded |-> task[t],
                  wanted |-> Patched(task[t], fields, title, completed)]]
    /\ UNCHANGED <<match, task>>

\* Faulty: the whole row is written back.
CommitWholeTask(r) ==
    /\ req[r].op = "update_task"
    /\ task' = [task EXCEPT ![req[r].task] = req[r].wanted]
    /\ req' = [req EXCEPT ![r] = Idle]
    /\ UNCHANGED match

CommitTaskPatch(r) ==
    /\ req[r].op = "update_task"
    /\ task' = [task EXCEPT ![req[r].task] = Flush(req[r].loaded, req[r].wanted, @)]
    /\ req' = [req EXCEPT ![r] = Idle]
    /\ UNCHANGED match

\* The commit fails or the worker dies: get_db_session rolls back.
Rollback(r) ==
    /\ req[r] # Idle
    /\ req' = [req EXCEPT ![r] = Idle]
    /\ UNCHANGED <<match, task>>

Next ==
    \/ \E c \in Callers, m \in Matches, mentee, mentor \in Members :
          CreateMatch(c, m, mentee, mentor)
    \/ \E r \in Requests :
          \/ \E c \in Callers, m \in Matches, d \in Decisions : ReadForDecision(r, c, m, d)
          \/ CommitDecision(r)
          \/ \E c \in Callers, m \in Matches, row \in TaskRows : ReadForNewTask(r, c, m, row)
          \/ \E t \in Tasks : CommitNewTask(r, t)
          \/ \E c \in Callers, m \in Matches, t \in Tasks,
                fields \in SUBSET {"title", "completed"}, title \in Titles, done \in BOOLEAN :
                ReadForTaskPatch(r, c, m, t, fields, title, done)
          \/ CommitTaskPatch(r)
          \/ Rollback(r)

Spec == Init /\ [][Next]_vars

----------------------------------------------------------------------------
(* Properties *)

Deciding   == [op : {"decide"}, caller : Callers, match : Matches, to : Decisions]
AddingTask == [op : {"create_task"}, match : Matches, row : TaskRows]
Patching   == [op : {"update_task"}, task : Tasks, fields : SUBSET {"title", "completed"},
               loaded : TaskRows, wanted : TaskRows]

\* Tables hold rows and requests hold what they have loaded; a request that is
\* to write an existing row will find it.
TypeOK ==
    /\ match \in [Matches -> MatchRows \union {NoRow}]
    /\ task \in [Tasks -> TaskRows \union {NoRow}]
    /\ req \in [Requests -> {Idle} \union Deciding \union AddingTask \union Patching]
    /\ \A r \in Requests :
          /\ req[r].op \in {"decide", "create_task"} => match[req[r].match] # NoRow
          /\ req[r].op = "update_task" => task[req[r].task] # NoRow

\* The match endpoints implement DecisionLog.
Log == INSTANCE DecisionLog WITH
    Items   <- Matches,
    Absent  <- "ABSENT",
    Open    <- "PENDING",
    NoClaim <- NoRow,
    status  <- [m \in Matches |-> IF match[m] = NoRow THEN "ABSENT" ELSE match[m].status],
    claim   <- [r \in Requests |-> IF req[r].op = "decide"
                                   THEN [item |-> req[r].match, decision |-> req[r].to]
                                   ELSE NoRow]

\* approve_match and reject_match decide a match the way DecisionLog says:
\* only a request that saw it pending writes, and the last such writer wins.
ImplementsDecisionLog == Log!Spec

HasTasks(m) ==
    \/ \E t \in Tasks : task[t] # NoRow /\ task[t].match = m
    \/ \E r \in Requests : req[r].op = "create_task" /\ req[r].match = m

\* Once a match is rejected, no decision on it is half done and no task has
\* slipped in, neither a late decision nor a late create_task, each going by
\* the status it loaded, ever reopens it or hangs a task on it.
RejectionSticks ==
    [][\A m \in Matches :
          (Log!Settled(m) /\ match[m].status = "REJECTED" /\ ~HasTasks(m))
            => (Log!Settled(m) /\ match[m].status = "REJECTED" /\ ~HasTasks(m))']_vars

\* A match is decided only by a caller of its own union, and approved only by
\* an administrator or consultant, however long ago that caller was checked.
DecidedByOwnUnion ==
    [][\A m \in Matches : match[m] # NoRow /\ match'[m] # match[m] =>
          \E r \in Requests :
             /\ req[r].op = "decide" /\ req[r].match = m
             /\ req[r].caller.union = UnionOf[match[m].mentee]
             /\ req[r].caller.union = UnionOf[match[m].mentor]
             /\ match'[m].status = "APPROVED" => req[r].caller.role # "MEMBER"]_vars

\* Two overlapping PATCHes of different fields of one task both take effect: a
\* PATCH never changes a field its body does not name, although it loaded the
\* row before the other one committed.
PatchKeepsOtherFields ==
    [][\A t \in Tasks : task[t] # NoRow =>
          \A f \in {"title", "completed"} : task'[t][f] # task[t][f] =>
             \E r \in Requests : /\ req[r].op = "update_task" /\ req[r].task = t
                                 /\ f \in req[r].fields
                                 /\ req'[r] = Idle]_vars
=============================================================================
