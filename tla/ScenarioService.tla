---------------------------- MODULE ScenarioService ----------------------------
(***************************************************************************)
(* Crop-change scenarios, the AI advice they ask for and the connection    *)
(* pool they share with the other endpoints                                *)
(* (src/src/scenario/adapter/http/router/scenario_router.py,               *)
(* src/src/infrastructure/ai/gemini_client.py and router.py,               *)
(* src/src/infrastructure/database/session.py).                            *)
(*                                                                         *)
(* A request runs through the phases                                       *)
(*   ask      awaits Gemini (farm advice; new scenarios, when an API key   *)
(*            is configured)                                               *)
(*   connect  awaits a connection of the pool, at its first statement      *)
(*   load     SELECT of its row                                            *)
(*   body     awaits the client's body (PUT of an upload's content only)   *)
(*   commit   flush and commit                                             *)
(*   done     answered with `status`; its connection is back in the pool   *)
(* and then the slot serves another request.                               *)
(***************************************************************************)
EXTENDS Naturals, FiniteSets

CONSTANTS
    Requests,    \* requests for scenarios in progress at once
    Uploads,     \* requests that upload a file's content in progress at once
    PoolSize,    \* connections: pool_size + max_overflow
    Configured,  \* an API key of Gemini is set
    Ids,         \* scenario ids ever drawn (a bound: ids are random and never reused)
    Names,
    Unions,
    Advice,      \* what Gemini may answer
    Null,        \* no advice
    Unused,      \* an id not drawn yet
    Deleted      \* an id whose row was deleted

Rows == [union : Unions, name : Names, advice : Advice \union {Null}]

ASSUME ScenarioAssumption ==
    /\ PoolSize \in Nat \ {0}
    /\ IsFiniteSet(Requests) /\ IsFiniteSet(Uploads)
    /\ Requests \intersect Uploads = {}
    /\ Configured \in BOOLEAN
    /\ Unused \notin Rows /\ Deleted \notin Rows /\ Unused # Deleted
    /\ Null \notin Advice \union Names

VARIABLES
    scn,     \* table scenarios, by id
    req,     \* what each request does
    conn     \* requests that hold a connection

vars == <<scn, req, conn>>

Idle == [pc |-> "idle"]

Init ==
    /\ scn = [i \in Ids |-> Unused]
    /\ req = [r \in Requests \union Uploads |-> Idle]
    /\ conn = {}

----------------------------------------------------------------------------
(* Arrivals *)

Free(r) == req[r].pc \in {"idle", "done"}

\* simulate_scenario, and save_scenario without an id: Gemini is asked before
\* the session is used.
ArriveNew(r, u, n) ==
    /\ Free(r)
    /\ req' = [req EXCEPT ![r] =
                 [pc |-> IF Configured THEN "ask" ELSE "connect", op |-> "new",
                  union |-> u, name |-> n, advice |-> Null]]
    /\ UNCHANGED <<scn, conn>>

\* create_farm_advice, which uses no session.
ArriveForAdvice(r) ==
    /\ Free(r)
    /\ req' = [req EXCEPT ![r] = [pc |-> "ask", op |-> "advice"]]
    /\ UNCHANGED <<scn, conn>>

\* save_scenario with an id, and delete_scenario (n = Null).
ArriveForRow(r, op, u, i, n) ==
    /\ Free(r)
    /\ req' = [req EXCEPT ![r] = [pc |-> "connect", op |-> op, union |-> u, id |-> i, name |-> n]]
    /\ UNCHANGED <<scn, conn>>

\* put_upload_content, of which DataUpload models the rest.
ArriveUpload(r) ==
    /\ Free(r)
    /\ req' = [req EXCEPT ![r] = [pc |-> "connect", op |-> "upload"]]
    /\ UNCHANGED <<scn, conn>>

----------------------------------------------------------------------------
(* Gemini *)

Done(status) == [pc |-> "done", status |-> status]

\* generate_json raises: no API key, timeout, HTTP error, unusable answer.  A
\* scenario goes on without advice, the farm advice ends as a 503.
GeminiFails(r) ==
    /\ req[r].pc = "ask"
    /\ req' = [req EXCEPT ![r] = IF @.op = "new" THEN [@ EXCEPT !.pc = "connect"]
                                 ELSE Done(503)]
    /\ UNCHANGED <<scn, conn>>

\* Faulty: an answer that is no JSON object is passed on.
GeminiAnswersText(r, a) ==
    /\ req[r].pc = "ask"
    /\ req[r].op = "new"
    /\ req' = [req EXCEPT ![r].pc = "connect", ![r].advice = "text"]
    /\ UNCHANGED <<scn, conn>>

\* add_ai_explanation, create_farm_advice: it returns a JSON object.
GeminiAnswers(r, a) ==
    /\ req[r].pc = "ask"
    /\ Configured
    /\ req' = [req EXCEPT ![r] = IF @.op = "new" THEN [@ EXCEPT !.pc = "connect", !.advice = a]
                                 ELSE Done(200)]
    /\ UNCHANGED <<scn, conn>>

----------------------------------------------------------------------------
(* The pool *)

Full == Cardinality(conn) >= PoolSize

Connect(r) ==
    /\ req[r].pc = "connect"
    /\ ~Full
    /\ conn' = conn \union {r}
    /\ req' = [req EXCEPT ![r].pc = IF req[r].op = "new" THEN "commit" ELSE "load"]
    /\ UNCHANGED scn

\* Faulty: a request that waits for a connection waits for ever.
ConnectNoTimeout(r) ==
    /\ req[r].pc = "connect"
    /\ Full
    /\ UNCHANGED vars

\* No connection within the pool's 30 seconds: the request ends as a 500.
ConnectTimeout(r) ==
    /\ req[r].pc = "connect"
    /\ Full
    /\ req' = [req EXCEPT ![r] = Done(500)]
    /\ UNCHANGED <<scn, conn>>

\* The request is answered and its session closed.
Answer(r, reply) ==
    /\ req' = [req EXCEPT ![r] = reply]
    /\ conn' = conn \ {r}

----------------------------------------------------------------------------
(* Statements *)

Stored(i) == scn[i] \notin {Unused, Deleted}

\* Faulty: the union of the row is not compared.
LoadAny(r) ==
    /\ req[r].pc = "load"
    /\ req[r].op # "upload"
    /\ IF Stored(req[r].id)
       THEN /\ req' = [req EXCEPT ![r] = [pc |-> "commit", op |-> @.op, union |-> @.union,
                                          id |-> @.id, name |-> @.name, loaded |-> scn[@.id]]]
            /\ UNCHANGED conn
       ELSE Answer(r, Done(404))
    /\ UNCHANGED scn

Load(r) ==
    /\ req[r].pc = "load"
    /\ req[r].op # "upload"
    /\ IF Stored(req[r].id) /\ scn[req[r].id].union = req[r].union
       THEN /\ req' = [req EXCEPT ![r] = [pc |-> "commit", op |-> @.op, union |-> @.union,
                                          id |-> @.id, name |-> @.name, loaded |-> scn[@.id]]]
            /\ UNCHANGED conn
       ELSE Answer(r, Done(404))
    /\ UNCHANGED scn

\* The upload's row is there; the connection stays out while the body comes.
LoadUpload(r) ==
    /\ req[r].pc = "load"
    /\ req[r].op = "upload"
    /\ req' = [req EXCEPT ![r].pc = "body"]
    /\ UNCHANGED <<scn, conn>>

ReceiveBody(r) ==
    /\ req[r].pc = "body"
    /\ req' = [req EXCEPT ![r].pc = "commit"]
    /\ UNCHANGED <<scn, conn>>

CommitUpload(r) ==
    /\ req[r].pc = "commit"
    /\ req[r].op = "upload"
    /\ Answer(r, Done(200))
    /\ UNCHANGED scn

Created(r, i) ==
    [pc |-> "done", id |-> i, union |-> req[r].union, advice |-> req[r].advice]

\* Faulty: the row is written before the advice is added to its result.
CommitNewBare(r, i) ==
    /\ req[r].pc = "commit"
    /\ req[r].op = "new"
    /\ scn[i] = Unused
    /\ scn' = [scn EXCEPT ![i] = [union |-> req[r].union, name |-> req[r].name, advice |-> Null]]
    /\ Answer(r, Created(r, i))

\* The INSERT of both endpoints.
CommitNew(r, i) ==
    /\ req[r].pc = "commit"
    /\ req[r].op = "new"
    /\ scn[i] = Unused
    /\ scn' = [scn EXCEPT ![i] = [union |-> req[r].union, name |-> req[r].name,
                                  advice |-> req[r].advice]]
    /\ Answer(r, Created(r, i))

\* Faulty: the row is merged, hence inserted when it is gone.
CommitSaveMerged(r) ==
    /\ req[r].pc = "commit"
    /\ req[r].op = "save"
    /\ scn' = [scn EXCEPT ![req[r].id] = [req[r].loaded EXCEPT !.name = req[r].name]]
    /\ Answer(r, Done(201))

\* Faulty: a row that is gone is not noticed.
CommitSaveUnchecked(r) ==
    /\ req[r].pc = "commit"
    /\ req[r].op = "save"
    /\ scn' = IF Stored(req[r].id)
              THEN [scn EXCEPT ![req[r].id].name = req[r].name] ELSE scn
    /\ Answer(r, Done(201))

\* save_scenario with an id.  An UPDATE is sent when the name differs from the
\* loaded one; when it finds no row the request ends as a 500.
CommitSave(r) ==
    LET i == req[r].id IN
    /\ req[r].pc = "commit"
    /\ req[r].op = "save"
    /\ \/ /\ req[r].name = req[r].loaded.name
          /\ Answer(r, Done(201))
          /\ UNCHANGED scn
       \/ /\ req[r].name # req[r].loaded.name
          /\ Stored(i)
          /\ scn' = [scn EXCEPT ![i].name = req[r].name]
          /\ Answer(r, Done(201))
       \/ /\ req[r].name # req[r].loaded.name
          /\ ~Stored(i)
          /\ Answer(r, Done(500))
          /\ UNCHANGED scn

\* A DELETE that finds no row any more is only warned about.
CommitDelete(r) ==
    /\ req[r].pc = "commit"
    /\ req[r].op = "delete"
    /\ scn' = [scn EXCEPT ![req[r].id] = Deleted]
    /\ Answer(r, Done(204))

\* Faulty: a failing request keeps its connection.
FailUnclosed(r) ==
    /\ req[r].pc \in {"load", "body", "commit"}
    /\ req' = [req EXCEPT ![r] = Done(500)]
    /\ UNCHANGED <<scn, conn>>

\* A statement fails (unknown memberId or landId, lost connection), or the
\* client leaves before its body: rolled back, closed, 500.
Fail(r) ==
    /\ req[r].pc \in {"load", "body", "commit"}
    /\ Answer(r, Done(500))
    /\ UNCHANGED scn

----------------------------------------------------------------------------

\* A request for scenarios.
Scenario(r) ==
    \/ GeminiFails(r)
    \/ \E a \in Advice : GeminiAnswers(r, a)
    \/ Connect(r)
    \/ ConnectTimeout(r)
    \/ Load(r)
    \/ \E i \in Ids : CommitNew(r, i)
    \/ CommitSave(r)
    \/ CommitDelete(r)
    \/ Fail(r)

\* A request that uploads content, but for the client's part in it.
Upload(r) ==
    \/ Connect(r)
    \/ ConnectTimeout(r)
    \/ LoadUpload(r)
    \/ CommitUpload(r)
    \/ req[r].pc # "body" /\ Fail(r)

Next ==
    \/ \E r \in Requests :
          \/ Scenario(r)
          \/ \E u \in Unions, n \in Names : ArriveNew(r, u, n)
          \/ ArriveForAdvice(r)
          \/ \E u \in Unions, i \in Ids, n \in Names : ArriveForRow(r, "save", u, i, n)
          \/ \E u \in Unions, i \in Ids : ArriveForRow(r, "delete", u, i, Null)
    \/ \E r \in Uploads :
          \/ Upload(r)
          \/ ArriveUpload(r)
          \/ ReceiveBody(r)
          \/ req[r].pc = "body" /\ Fail(r)

\* Gemini's answer is awaited at most gemini_timeout_seconds, a connection 30
\* seconds, and a statement ends; a client need not do anything.
Fairness ==
    /\ \A r \in Requests : WF_vars(Scenario(r))
    /\ \A r \in Uploads : WF_vars(Upload(r))

Spec == Init /\ [][Next]_vars /\ Fairness

----------------------------------------------------------------------------
(* Properties *)

AnsweredNew ==
    [pc : {"done"}, id : Ids, union : Unions, advice : Advice \union {Null}]
NewRequest ==
    [pc : {"ask", "connect", "commit"}, op : {"new"}, union : Unions,
     name : Names, advice : Advice \union {Null}]
RowRequest ==
    [pc : {"connect", "load"}, op : {"save", "delete"}, union : Unions,
     id : Ids, name : Names \union {Null}]
LoadedRequest ==
    [pc : {"commit"}, op : {"save", "delete"}, union : Unions,
     id : Ids, name : Names \union {Null}, loaded : Rows]
UploadRequest == [pc : {"connect", "load", "body", "commit"}, op : {"upload"}]
AdviceRequest == [pc : {"ask"}, op : {"advice"}]
Answered == [pc : {"done"}, status : {200, 201, 204, 404, 500, 503}]

\* Every request is in a phase its operation has, with the data of that phase.
TypeOK ==
    /\ scn \in [Ids -> Rows \union {Unused, Deleted}]
    /\ conn \subseteq Requests \union Uploads
    /\ req \in [Requests \union Uploads ->
          {Idle} \union NewRequest \union RowRequest \union LoadedRequest
          \union UploadRequest \union AdviceRequest \union AnsweredNew \union Answered]
    /\ \A r \in Requests :
          req[r] \in RowRequest \union LoadedRequest /\ req[r].op = "save" => req[r].name \in Names

\* get_db_session closes its session however the request ends, and neither
\* Gemini nor the client is awaited with a connection in hand, but for the body
\* of an upload: the connections out of the pool are those of the requests at
\* their statements, and never more than the pool has.
ConnectionsAccountedFor ==
    /\ conn = {r \in Requests \union Uploads : req[r].pc \in {"load", "body", "commit"}}
    /\ Cardinality(conn) <= PoolSize

\* What simulate_scenario and save_scenario answered for a new scenario is
\* stored under the id they answered, with or without advice, until somebody
\* deletes it, whatever other requests rename.
AnsweredIsStored ==
    \A r \in Requests : req[r] \in AnsweredNew =>
        LET row == scn[req[r].id] IN
        row = Deleted \/ (row \in Rows /\ row.union = req[r].union /\ row.advice = req[r].advice)

\* A deleted scenario does not come back, also when a save_scenario that loaded
\* it before the deletion commits after it.
DeletedStaysDeleted ==
    [][\A i \in Ids : scn[i] = Deleted => scn'[i] = Deleted]_vars

\* save_scenario answers SAVED to a rename only when the row bears the new name
\* at that moment: a row deleted since its load makes it a 500.
RenameAnsweredIsStored ==
    [][\A r \in Requests :
         req[r].pc = "commit" /\ req[r].op = "save" /\ req'[r].pc = "done" /\ req'[r].status = 201
           => \/ req[r].name = req[r].loaded.name
              \/ scn'[req[r].id] \in Rows /\ scn'[req[r].id].name = req[r].name]_vars

\* A scenario is renamed or deleted only by a request of its own union, which
\* save_scenario and delete_scenario check when they load it, steps earlier.
ChangedByOwnUnion ==
    [][\A i \in Ids : scn[i] \in Rows /\ scn'[i] # scn[i] =>
         \E r \in Requests : /\ req[r].pc = "commit" /\ req[r].op \in {"save", "delete"}
                             /\ req[r].id = i /\ req[r].union = scn[i].union
                             /\ req'[r].pc = "done"]_vars

\* Every request is answered, though bodies of uploads that never come may hold
\* connections for ever and Gemini may fail: only a request that itself waits
\* for a body need not be.
EveryRequestAnswered ==
    \A r \in Requests \union Uploads :
        req[r].pc \in {"ask", "connect", "load", "commit"} ~> req[r].pc \in {"body", "done"}
=============================================================================
