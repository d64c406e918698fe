------------------------------- MODULE Shipping -------------------------------
(***************************************************************************)
(* Decisions on shipping recommendations                                   *)
(* (src/src/shipping/application/service/shipping_service.py).  The row is *)
(* loaded and checked by decide_recommendation and committed when the      *)
(* request's session is torn down; other requests commit in between.  The  *)
(* recommendations themselves are put into the table from outside.         *)
(***************************************************************************)
EXTENDS RowStore

CONSTANTS Requests, Recommendations, Dates, Memos,
          Null,       \* SQL NULL: the body left the field out
          NoClaim     \* of DecisionLog

ASSUME ShippingAssumption ==
    /\ Null \notin Dates \union Memos
    /\ NoClaim \notin [item : Recommendations, decision : {"ACCEPTED", "REJECTED"}]

Decisions == {"ACCEPTED", "REJECTED"}
Rows == [status : {"PENDING"} \union Decisions,
         date : Dates \union {Null}, memo : Memos \union {Null}]

VARIABLES
    row,      \* table shipping_recommendations
    req       \* the row a request has loaded and the row it wants

vars == <<row, req>>

Idle == [op |-> "idle"]

Init ==
    /\ row = [x \in Recommendations |-> [status |-> "PENDING", date |-> Null, memo |-> Null]]
    /\ req = [r \in Requests |-> Idle]

\* Faulty: the status is not looked at.
ReadAnyForDecision(r, x, d, date, memo) ==
    /\ req[r] = Idle
    /\ req' = [req EXCEPT ![r] =
                 [op |-> "decide", item |-> x, loaded |-> row[x],
                  wanted |-> [status |-> d, date |-> date, memo |-> memo]]]
    /\ UNCHANGED row

\* Faulty: a missing memo is filled with the date.
ReadWithDateAsMemo(r, x, d, date, memo) ==
    /\ req[r] = Idle
    /\ row[x].status = "PENDING"
    /\ req' = [req EXCEPT ![r] =
                 [op |-> "decide", item |-> x, loaded |-> row[x],
                  wanted |-> [status |-> d, date |-> date,
                              memo |-> IF memo = Null THEN date ELSE memo]]]
    /\ UNCHANGED row

\* decide_recommendation up to the flush.
ReadForDecision(r, x, d, date, memo) ==
    /\ req[r] = Idle
    /\ row[x].status = "PENDING"
    /\ req' = [req EXCEPT ![r] =
                 [op |-> "decide", item |-> x, loaded |-> row[x],
                  wanted |-> [status |-> d, date |-> date, memo |-> memo]]]
    /\ UNCHANGED row

\* Faulty: date and memo are committed before the status.
CommitDetailsFirst(r) ==
    /\ req[r].op = "decide"
    /\ row' = [row EXCEPT ![req[r].item] =
                 [Flush(req[r].loaded, req[r].wanted, @) EXCEPT !.status = row[req[r].item].status]]
    /\ req' = [req EXCEPT ![r] = Idle]

CommitDecision(r) ==
    /\ req[r].op = "decide"
    /\ row' = [row EXCEPT ![req[r].item] = Flush(req[r].loaded, req[r].wanted, @)]
    /\ req' = [req EXCEPT ![r] = Idle]

\* The commit fails or the worker dies: get_db_session rolls back.
Rollback(r) ==
    /\ req[r] # Idle
    /\ req' = [req EXCEPT ![r] = Idle]
    /\ UNCHANGED row

Next ==
    \E r \in Requests :
       \/ \E x \in Recommendations, d \in Decisions,
             date \in Dates \union {Null}, memo \in Memos \union {Null} :
             ReadForDecision(r, x, d, date, memo)
       \/ CommitDecision(r)
       \/ Rollback(r)

Spec == Init /\ [][Next]_vars

----------------------------------------------------------------------------
(* Properties *)

Deciding == [op : {"decide"}, item : Recommendations, loaded : Rows, wanted : Rows]

\* A request in progress loaded a pending recommendation and wants a decision.
TypeOK ==
    /\ row \in [Recommendations -> Rows]
    /\ req \in [Requests -> {Idle} \union Deciding]

Log == INSTANCE DecisionLog WITH
    Items  <- Recommendations,
    Absent <- "ABSENT",
    Open   <- "PENDING",
    status <- [x \in Recommendations |-> row[x].status],
    claim  <- [r \in Requests |-> IF req[r].op = "decide"
                                  THEN [item |-> req[r].item, decision |-> req[r].wanted.status]
                                  ELSE NoClaim]

\* decide_recommendation decides the way DecisionLog says: only a request that
\* saw the recommendation pending writes, and the last such writer wins.
ImplementsDecisionLog == Log!Spec

\* A decision that no unfinished request could overwrite is final: nothing
\* reopens the recommendation or decides it again.
DecisionsSettle == Log!SettledIsFinal

\* While a recommendation is pending it has no date and no memo, whatever
\* decisions on it failed half way: status, date and memo are one UPDATE.
PendingIsBlank ==
    \A x \in Recommendations :
        row[x].status = "PENDING" => row[x].date = Null /\ row[x].memo = Null
=============================================================================
