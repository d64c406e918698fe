----------------------------- MODULE UnionWeights -----------------------------
(***************************************************************************)
(* The score weights of a union                                            *)
(* (src/src/union/adapter/http/router/weight_router.py).  The row comes    *)
(* into being with the first GET (as the default) or PATCH; a PATCH loads  *)
(* the row, assigns the three weights and commits, and other requests      *)
(* commit in between.                                                      *)
(***************************************************************************)
EXTENDS Naturals, RowStore

CONSTANTS Requests, Unions,
          Total,      \* 100
          Default,    \* the column defaults of UnionWeightOrmModel
          NoRow

Columns == {"production", "shipping", "revenue"}
Weights == [Columns -> 0 .. Total]
Sum(w)  == w["production"] + w["shipping"] + w["revenue"]

\* What update_weights accepts.
Balanced == {w \in Weights : Sum(w) = Total}

ASSUME WeightsAssumption ==
    /\ Total \in Nat
    /\ Default \in Balanced
    /\ NoRow \notin Weights

VARIABLES
    weight,     \* table union_weights, keyed by union
    req         \* what a request has loaded and wants to store

weightVars == <<weight, req>>

Idle == [op |-> "idle"]

WeightsInit ==
    /\ weight = [u \in Unions |-> NoRow]
    /\ req = [r \in Requests |-> Idle]

----------------------------------------------------------------------------

\* get_weights finds no row and adds the default (it only reads otherwise).
ReadMissing(r, u) ==
    /\ req[r] = Idle
    /\ weight[u] = NoRow
    /\ req' = [req EXCEPT ![r] = [op |-> "insert", union |-> u, wanted |-> Default]]
    /\ UNCHANGED weight

\* Faulty: a sum below the total is let through.
AcceptsAtMost(w) == Sum(w) <= Total

Accepts(w) == Sum(w) = Total

\* update_weights up to the commit.
ReadForPatch(r, u, w) ==
    /\ req[r] = Idle
    /\ Accepts(w)
    /\ req' = [req EXCEPT ![r] =
                 IF weight[u] = NoRow
                 THEN [op |-> "insert", union |-> u, wanted |-> w]
                 ELSE [op |-> "update", union |-> u, loaded |-> weight[u], wanted |-> w]]
    /\ UNCHANGED weight

CommitInsert(r) ==
    /\ req[r].op = "insert"
    /\ weight[req[r].union] = NoRow
    /\ weight' = [weight EXCEPT ![req[r].union] = req[r].wanted]
    /\ req' = [req EXCEPT ![r] = Idle]

\* Another request has inserted the union's row: the primary key refuses the
\* INSERT and the request ends as a 500.
InsertConflict(r) ==
    /\ req[r].op = "insert"
    /\ weight[req[r].union] # NoRow
    /\ req' = [req EXCEPT ![r] = Idle]
    /\ UNCHANGED weight

CommitUpdate(r) ==
    /\ req[r].op = "update"
    /\ weight' = [weight EXCEPT ![req[r].union] = Flush(req[r].loaded, req[r].wanted, @)]
    /\ req' = [req EXCEPT ![r] = Idle]

\* The commit fails or the worker dies: get_db_session rolls back.
Rollback(r) ==
    /\ req[r] # Idle
    /\ req' = [req EXCEPT ![r] = Idle]
    /\ UNCHANGED weight

WeightsNext ==
    \E r \in Requests :
       \/ \E u \in Unions : ReadMissing(r, u)
       \/ \E u \in Unions, w \in Weights : ReadForPatch(r, u, w)
       \/ CommitInsert(r)
       \/ InsertConflict(r)
       \/ CommitUpdate(r)
       \/ Rollback(r)

WeightsSpec == WeightsInit /\ [][WeightsNext]_weightVars

----------------------------------------------------------------------------
(* Properties *)

Inserting == [op : {"insert"}, union : Unions, wanted : Balanced]
Updating  == [op : {"update"}, union : Unions, loaded : Weights, wanted : Balanced]

\* Stored weights are within range, requests carry weights that sum up to the
\* total, and a row that is to be updated is there (rows are never deleted).
WeightsTypeOK ==
    /\ weight \in [Unions -> Weights \union {NoRow}]
    /\ req \in [Requests -> {Idle} \union Inserting \union Updating]
    /\ \A r \in Requests : req[r].op = "update" => weight[req[r].union] # NoRow

\* Request r would write to a row that changed since r loaded it.
Stale(r) == req[r].op = "update" /\ req[r].loaded # weight[req[r].union]

\* Only a PATCH that overlapped another one can leave weights that miss the
\* total; every other write, the lazy default and an update over such weights
\* included, leaves them summing up to it.
OnlyStaleWritesUnbalance ==
    [][\A u \in Unions :
          weight'[u] # weight[u] /\ weight'[u] \notin Balanced =>
             \E r \in Requests : Stale(r) /\ req[r].union = u /\ req'[r] = Idle]_weightVars
=============================================================================
