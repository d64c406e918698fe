------------------------------- MODULE Listings -------------------------------
(***************************************************************************)
(* Clients that page through a listing while rows are added to it, alerts  *)
(* dismissed and callers linked to members (get_alerts and dismiss_alert   *)
(* of the dashboard, get_ranking, get_uploads, get_reports and             *)
(* generate_report, get_lands, get_scenarios, link_user_member).           *)
(*                                                                         *)
(* A page is cut out of the rows in their order by OFFSET and LIMIT.       *)
(* The first three run a COUNT first and compute hasNext from it; the      *)
(* others go by whether the page is full, and get_scenarios serves the     *)
(* first page only.  A filter the caller leaves open - the month of a      *)
(* ranking, the member of a MEMBER's lands and scenarios - is looked up    *)
(* anew in the request of every page.  Filters that stay the same (a       *)
(* level, a group, the period of reports) only narrow the table and are    *)
(* left out.  The listings do not interact: a behaviour is about one of    *)
(* them, `list`.                                                           *)
(***************************************************************************)
EXTENDS Naturals, FiniteSets

CONSTANTS
    Items,      \* ids of rows
    MaxStamp,   \* a bound: sort keys (created_at, rank) are 1..MaxStamp
    MaxKind,    \* a bound: months, members or states of a row are 1..MaxKind
    Sizes       \* page sizes asked for

ASSUME ListingAssumption ==
    /\ IsFiniteSet(Items)
    /\ MaxStamp \in Nat
    /\ MaxKind \in Nat \ {0, 1}
    /\ Sizes \subseteq Nat

Unchecked == {"alerts", "ranking"}     \* their size is not validated
Counted   == Unchecked \union {"uploads"}
Owned     == {"lands", "scenarios"}    \* rows belong to members
Lists     == Counted \union Owned \union {"reports"}

\* What a filter tells rows apart by: the status of an alert, the month of a
\* performance, the member of a land or scenario.
Kinds     == 1..MaxKind
Every     == 0                         \* no filter
ACTIVE    == 1
DISMISSED == 2

VARIABLES
    list,        \* the listing this behaviour is about
    stamp,       \* its table: the sort key of each row, 0 for no row
    kind,        \* the kind of each row, 0 for no row
    current,     \* the union's latest month, or the member the caller is linked to; 0 for none
    walk         \* the client's walk through the pages

vars == <<list, stamp, kind, current, walk>>

\* A walk remembers, beside its page and filter: the rows it got, those there when
\* it began, whether it got a row twice, whether rows arrived after its first page,
\* how many rows were moved in a way that can hide one from it, and whether its
\* filter changed between two pages.
NoWalk == [pc |-> "none", size |-> 1, open |-> FALSE, kind |-> Every, switched |-> FALSE,
           page |-> 0, total |-> 0, got |-> {}, start |-> {}, repeated |-> FALSE,
           arrivals |-> FALSE, moves |-> 0]

Init ==
    /\ list \in Lists
    /\ stamp = [i \in Items |-> 0]
    /\ kind = [i \in Items |-> 0]
    /\ current = 0
    /\ walk = NoWalk

----------------------------------------------------------------------------

Rows == {i \in Items : stamp[i] # 0}

\* The rows a query with the filter k selects.
Matching(k) == {i \in Rows : k \in {Every, kind[i]}}

Least(m, n) == IF m <= n THEN m ELSE n

\* The sets of rows that OFFSET `offset` LIMIT `size` may return: rows with the
\* same key come in any order.
Slices(rows, offset, size) ==
    {S \in SUBSET rows :
       \E B \in SUBSET (rows \ S) :
          /\ Cardinality(B) = Least(offset, Cardinality(rows))
          /\ Cardinality(S) = Least(size, Cardinality(rows) - Cardinality(B))
          /\ \A x \in B, y \in rows \ B : stamp[x] >= stamp[y]
          /\ \A x \in S, y \in rows \ (B \union S) : stamp[x] >= stamp[y]}

\* A walk with the filter k, or one that leaves the filter open.
BeginWalk(size, k, open) ==
    /\ walk.pc \in {"none", "done", "stuck", "failed"}
    /\ size = 0 => list \in Unchecked
    /\ k # Every => list \in Owned \union Unchecked /\ ~open
    /\ open => list \in Owned \union {"ranking"}
    /\ list = "ranking" => open \/ k # Every
    /\ walk' = [NoWalk EXCEPT !.pc = IF open THEN "filter"
                                     ELSE IF list \in Counted THEN "count" ELSE "select",
                              !.size = size, !.open = open, !.kind = k,
                              !.start = Matching(k)]
    /\ UNCHANGED <<list, stamp, kind, current>>

\* The open filter of a page is what is current in its request.
Resolve(next) ==
    walk' = [walk EXCEPT !.pc = next, !.kind = current,
                         !.start = IF walk.page = 0 THEN Matching(current) ELSE @,
                         !.switched = @ \/ (walk.page > 0 /\ walk.kind # current)]

\* _latest_period: 404 while the union has no performances.
ReadLatestMonth ==
    /\ list = "ranking"
    /\ walk.pc = "filter"
    /\ IF current = 0 THEN walk' = [walk EXCEPT !.pc = "failed"] ELSE Resolve("count")
    /\ UNCHANGED <<list, stamp, kind, current>>

\* The caller's link; without one no member is asked for.
ReadLink ==
    /\ list \in Owned
    /\ walk.pc = "filter"
    /\ Resolve("select")
    /\ UNCHANGED <<list, stamp, kind, current>>

\* SELECT count(id).
Count(l) ==
    /\ list = l
    /\ walk.pc = "count"
    /\ walk' = [walk EXCEPT !.pc = "select", !.total = Cardinality(Matching(walk.kind))]
    /\ UNCHANGED <<list, stamp, kind, current>>

CountAlerts  == Count("alerts")
CountRanking == Count("ranking")
CountUploads == Count("uploads")

\* Faulty: the last page is left out unless it is full.
FullPages(total, size) == IF total = 0 THEN 0 ELSE total \div size

TotalPages(total, size) == IF total = 0 THEN 0 ELSE (total + size - 1) \div size

\* The next page's request begins with its filter if that is open.
Following(next) == IF walk.open THEN "filter" ELSE next

\* The walk after a page of the rows S.
Turned(S, next) ==
    [walk EXCEPT !.got = @ \union S,
                 !.repeated = @ \/ S \intersect walk.got # {},
                 !.page = @ + 1,
                 !.pc = next]

\* The page, and hasNext from the count; a size of 0 divides by zero when there
\* are rows.
SelectCounted(l) ==
    /\ list = l
    /\ walk.pc = "select"
    /\ IF walk.size = 0 /\ walk.total # 0
       THEN walk' = [walk EXCEPT !.pc = "failed"]
       ELSE \E S \in Slices(Matching(walk.kind), walk.page * walk.size, walk.size) :
               walk' = Turned(S, IF walk.page + 1 < TotalPages(walk.total, walk.size)
                                 THEN Following("count") ELSE "done")
    /\ UNCHANGED <<list, stamp, kind, current>>

SelectAlerts  == SelectCounted("alerts")
SelectRanking == SelectCounted("ranking")
SelectUploads == SelectCounted("uploads")

\* A page from `offset` on; `next` follows when it is full.
SelectFull(l, offset, next) ==
    /\ list = l
    /\ walk.pc = "select"
    /\ \E S \in Slices(Matching(walk.kind), offset, walk.size) :
          walk' = Turned(S, IF Cardinality(S) = walk.size THEN next ELSE "done")
    /\ UNCHANGED <<list, stamp, kind, current>>

\* Faulty: pages overlap by one row.
SelectReportsOverlapping ==
    SelectFull("reports", IF walk.page = 0 THEN 0 ELSE walk.page * walk.size - 1, "select")

\* get_reports, get_lands.
SelectReports == SelectFull("reports", walk.page * walk.size, "select")
SelectLands   == SelectFull("lands", walk.page * walk.size, Following("select"))

\* get_scenarios: the newest rows; a next page is announced but cannot be asked for.
SelectScenarios == SelectFull("scenarios", 0, "stuck")

Walking == walk.pc \in {"filter", "count", "select"}

\* The walk when a row comes under these filters: it may push rows back that were
\* seen, also those of a member whose lands are not listed at the moment but may be
\* again, and the COUNT just read is short by one.
Joined(filters) ==
    [walk EXCEPT
        !.arrivals = @ \/ (walk.got # {} /\ (walk.kind \in filters \/ (walk.open /\ list = "lands"))),
        !.moves = IF list \in Counted /\ walk.pc = "select" /\ walk.kind \in filters THEN @ + 1 ELSE @]

\* A row of kind k appears.  Its key is not the highest when it was taken before that
\* of a row committed earlier.
Add(i, s, k) ==
    /\ stamp[i] = 0
    /\ k # ACTIVE => list \in Owned \union {"ranking"}
    /\ stamp' = [stamp EXCEPT ![i] = s]
    /\ kind' = [kind EXCEPT ![i] = k]
    /\ current' = IF list = "ranking" /\ k > current THEN k ELSE current
    /\ walk' = IF Walking THEN Joined({Every, k}) ELSE walk
    /\ UNCHANGED list

\* generate_report commits.
GenerateReport(i, s) == list = "reports" /\ Add(i, s, ACTIVE)

\* simulate_scenario or create_upload commits; alerts, lands and performances come from outside.
RowArrives(i, s, k) == list # "reports" /\ Add(i, s, k)

\* A performance of another group than the one listed: the union's month is that of any group.
OtherGroupArrives(k) ==
    /\ list = "ranking"
    /\ current < k
    /\ current' = k
    /\ UNCHANGED <<list, stamp, kind, walk>>

\* link_user_member: a link is set or replaced, never removed.
Link(m) ==
    /\ list \in Owned
    /\ current' = m
    /\ UNCHANGED <<list, stamp, kind, walk>>

\* Faulty: an id without a row is not noticed.
DismissUnknown(i) ==
    /\ list = "alerts"
    /\ kind[i] # DISMISSED
    /\ kind' = [kind EXCEPT ![i] = DISMISSED]
    /\ UNCHANGED <<list, stamp, current, walk>>

\* dismiss_alert: the row leaves the listing of ACTIVE and joins that of DISMISSED.
Dismiss(i) ==
    /\ list = "alerts"
    /\ kind[i] = ACTIVE
    /\ kind' = [kind EXCEPT ![i] = DISMISSED]
    /\ walk' = IF ~Walking THEN walk
               ELSE IF walk.kind = ACTIVE THEN [walk EXCEPT !.moves = @ + 1]
               ELSE Joined({DISMISSED})
    /\ UNCHANGED <<list, stamp, current>>

Next ==
    \/ \E size \in Sizes, k \in Kinds \union {Every}, open \in BOOLEAN : BeginWalk(size, k, open)
    \/ ReadLatestMonth
    \/ ReadLink
    \/ CountAlerts
    \/ CountRanking
    \/ CountUploads
    \/ SelectAlerts
    \/ SelectRanking
    \/ SelectUploads
    \/ SelectReports
    \/ SelectLands
    \/ SelectScenarios
    \/ \E i \in Items, s \in 1..MaxStamp : GenerateReport(i, s)
    \/ \E i \in Items, s \in 1..MaxStamp, k \in Kinds : RowArrives(i, s, k)
    \/ \E k \in Kinds : OtherGroupArrives(k) \/ Link(k)
    \/ \E i \in Items : Dismiss(i)

Spec == Init /\ [][Next]_vars

----------------------------------------------------------------------------
(* Properties *)

\* A row has a key and a kind or neither; a walk has got only rows there are, and
\* counts what it was told.
TypeOK ==
    /\ list \in Lists
    /\ stamp \in [Items -> 0..MaxStamp]
    /\ kind \in [Items -> 0..MaxKind]
    /\ \A i \in Items : stamp[i] = 0 <=> kind[i] = 0
    /\ current \in 0..MaxKind
    /\ walk \in [pc : {"none", "filter", "count", "select", "done", "stuck", "failed"},
                 size : Sizes \union {1}, open : BOOLEAN, kind : 0..MaxKind,
                 switched : BOOLEAN, page : Nat, total : 0..Cardinality(Items),
                 got : SUBSET Rows, start : SUBSET Rows, repeated : BOOLEAN,
                 arrivals : BOOLEAN, moves : 0..(2 * Cardinality(Items))]

\* No two rows have the same sort key; otherwise the pages of one quiet table
\* need not even fit together.
Distinct == \A i, j \in Rows : i # j => stamp[i] # stamp[j]

\* A walk that ended at hasNext = false has seen every row that was there when it
\* began - under a status, every one that still has it - but for one row at most for
\* each alert dismissed under status=ACTIVE and for each row that came under its
\* filter between a COUNT and its SELECT (added, or dismissed under status=DISMISSED).
\* In particular reports, and the lands of a member asked for by id, are never
\* skipped.  Only walks that leave their filter open may lose more, and only when the
\* latest month or the linked member was another one at a later page.
SkippedRowsExplained ==
    LET owed == IF walk.open THEN walk.start ELSE walk.start \intersect Matching(walk.kind)
    IN  walk.pc = "done" /\ Distinct /\ walk.size > 0 =>
            (walk.open /\ walk.switched) \/ Cardinality(owed \ walk.got) <= walk.moves

\* A walk sees a row twice only when rows came under its filter after its first page:
\* rows that were added, or under status=DISMISSED alerts that were dismissed.
\* Dismissals under status=ACTIVE, a new latest month or another link alone bring no
\* row back.  (The rows of a ranking are performances: a member's row of the new month
\* is another one than that of the month before.)
RepeatsOnlyAfterArrivals ==
    walk.repeated /\ Distinct => walk.arrivals
=============================================================================
