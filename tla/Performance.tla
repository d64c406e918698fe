------------------------------ MODULE Performance ------------------------------
(***************************************************************************)
(* What the API reads out of the monthly performances of a union's members *)
(* while another system loads them row by row: the analysis of a member    *)
(* (src/src/member/adapter/http/router/member_router.py), the trends of    *)
(* the dashboard (src/src/performance/adapter/http/router/                 *)
(* dashboard_router.py) and the mentor suggestions                         *)
(* (src/src/mentoring/adapter/http/router/mentoring_router.py).            *)
(*                                                                         *)
(* The analysis takes five SELECTs, each of the rows committed when it     *)
(* runs.  Trends and suggestions are one SELECT and hence operators over   *)
(* the table.  Scores are in whole points; averages are kept in multiples  *)
(* of 1/Scale, exactly.                                                    *)
(***************************************************************************)
EXTENDS Naturals, FiniteSets, FiniteSetsExt

CONSTANTS
    Members,
    Periods,      \* months, numbered
    GroupOf,      \* the members' group_name: TOP, MID or LOW
    PerfRows,     \* rows of member_performances
    Legacy,       \* rows of union_trends, by month
    Scale,        \* a multiple of every number of members
    Null          \* no row; a period left out

ASSUME PerformanceAssumption ==
    /\ IsFiniteSet(Members) /\ IsFiniteSet(Periods)
    /\ Scale \in Nat \ {0}
    /\ \A n \in 1..Cardinality(Members) : \E k \in 1..Scale : Scale = n * k
    /\ Periods \subseteq Nat
    /\ GroupOf \in [Members -> {"TOP", "MID", "LOW"}]
    /\ PerfRows \subseteq [score : Nat, production : Nat, productionWeight : Nat,
                           shipping : Nat, shippingWeight : Nat, revenueWeight : Nat]
    /\ Legacy \in [Periods -> Nat \union {Null}]
    /\ Null \notin PerfRows \union Nat

VARIABLES
    perf,     \* table member_performances: [Members \X Periods -> row or Null]
    ask       \* the analysis being read

perfVars == <<perf, ask>>

PerfInit ==
    /\ perf = [x \in Members \X Periods |-> Null]
    /\ ask = [pc |-> "none"]

\* The loader commits a row.
Load(m, p, row) ==
    /\ perf[<<m, p>>] = Null
    /\ perf' = [perf EXCEPT ![<<m, p>>] = row]
    /\ UNCHANGED ask

----------------------------------------------------------------------------
(* get_analysis *)

PeriodsOf(m) == {p \in Periods : perf[<<m, p>>] # Null}

AvailablePeriods == UNION {PeriodsOf(m) : m \in Members}

BeginAnalysis(m, period) ==
    /\ ask.pc \in {"none", "done", "missing", "failed"}
    /\ ask' = [pc |-> IF period = Null THEN "latest" ELSE "row",
               member |-> m, asked |-> period, period |-> period]
    /\ UNCHANGED perf

\* Faulty: the month is that of any union.
LatestOfAnyUnion ==
    /\ ask.pc = "latest"
    /\ \E p \in Periods : ask' = [ask EXCEPT !.pc = "row", !.period = p]
    /\ UNCHANGED perf

\* _latest_period: of the union, not of the member.
LatestPeriod ==
    /\ ask.pc = "latest"
    /\ ask' = IF AvailablePeriods = {} THEN [ask EXCEPT !.pc = "missing"]
              ELSE [ask EXCEPT !.pc = "row", !.period = Max(AvailablePeriods)]
    /\ UNCHANGED perf

\* The member's row of the month; 404 without one.
ReadRow ==
    /\ ask.pc = "row"
    /\ ask' = IF perf[<<ask.member, ask.period>>] = Null THEN [ask EXCEPT !.pc = "missing"]
              ELSE [pc |-> "count", member |-> ask.member, asked |-> ask.asked,
                    period |-> ask.period, row |-> perf[<<ask.member, ask.period>>]]
    /\ UNCHANGED perf

CountRanked ==
    /\ ask.pc = "count"
    /\ ask' = [pc |-> "history", member |-> ask.member, asked |-> ask.asked,
               period |-> ask.period, row |-> ask.row,
               rankTotal |-> Cardinality({m \in Members : perf[<<m, ask.period>>] # Null})]
    /\ UNCHANGED perf

\* Faulty: the history ends before the month shown.
ReadEarlierHistory ==
    /\ ask.pc = "history"
    /\ ask' = [pc |-> "periods", member |-> ask.member, asked |-> ask.asked,
               period |-> ask.period, row |-> ask.row, rankTotal |-> ask.rankTotal,
               history |-> {p \in PeriodsOf(ask.member) : p < ask.period}]
    /\ UNCHANGED perf

ReadHistory ==
    /\ ask.pc = "history"
    /\ ask' = [pc |-> "periods", member |-> ask.member, asked |-> ask.asked,
               period |-> ask.period, row |-> ask.row, rankTotal |-> ask.rankTotal,
               history |-> PeriodsOf(ask.member)]
    /\ UNCHANGED perf

\* The bars divide by the stored weights, before the last SELECT.
DivideByZero ==
    /\ ask.pc = "periods"
    /\ 0 \in {ask.row.productionWeight, ask.row.shippingWeight, ask.row.revenueWeight}
    /\ ask' = [ask EXCEPT !.pc = "failed"]
    /\ UNCHANGED perf

ReadPeriods ==
    /\ ask.pc = "periods"
    /\ 0 \notin {ask.row.productionWeight, ask.row.shippingWeight, ask.row.revenueWeight}
    /\ ask' = [pc |-> "done", member |-> ask.member, asked |-> ask.asked,
               period |-> ask.period, row |-> ask.row, rankTotal |-> ask.rankTotal,
               history |-> ask.history, periods |-> AvailablePeriods]
    /\ UNCHANGED perf

PerfNext ==
    \/ \E m \in Members, p \in Periods, row \in PerfRows : Load(m, p, row)
    \/ \E m \in Members, p \in Periods \union {Null} : BeginAnalysis(m, p)
    \/ LatestPeriod
    \/ ReadRow
    \/ CountRanked
    \/ ReadHistory
    \/ DivideByZero
    \/ ReadPeriods

PerfSpec == PerfInit /\ [][PerfNext]_perfVars

----------------------------------------------------------------------------
(* Values of the analysis, in hundredths *)

Lower(m, n) == IF m <= n THEN m ELSE n

\* A component's value for the bar: its share of its weight, at most 100.
Value(score, weight) == Lower(10000, (score * 10000) \div weight)

----------------------------------------------------------------------------
(* get_trends *)

Group(p, g) == {m \in Members : perf[<<m, p>>] # Null /\ GroupOf[m] = g}

SumOf(metric, p, S) == MapThenSumSet(LAMBDA m : perf[<<m, p>>][metric], S)

GroupRow(metric, p, g) ==
    [period |-> p, group |-> g, count |-> Cardinality(Group(p, g)),
     value |-> (Scale * SumOf(metric, p, Group(p, g))) \div Cardinality(Group(p, g))]

\* The rows of the grouped query: average and number of members, by month and group.
Grouped(metric, from, to) ==
    {GroupRow(metric, x[1], x[2]) :
        x \in {y \in (Periods \intersect from..to) \X {"TOP", "MID", "LOW"} :
                  Group(y[1], y[2]) # {}}}

\* Without any, the stored trends of the union stand in for all groups.
Normalized(metric, from, to) ==
    IF Grouped(metric, from, to) # {} THEN Grouped(metric, from, to)
    ELSE {[period |-> p, group |-> "ALL", count |-> 1, value |-> Scale * Legacy[p]] :
             p \in {q \in Periods \intersect from..to : Legacy[q] # Null}}

\* Faulty: groups count alike, whatever their size.
AverageOfGroups(rows, p) ==
    LET here == {r \in rows : r.period = p}
    IN  MapThenSumSet(LAMBDA r : r.value, here) \div Cardinality(here)

\* The point of the series AVERAGE.
Average(rows, p) ==
    LET here == {r \in rows : r.period = p}
    IN  MapThenSumSet(LAMBDA r : r.value * r.count, here) \div MapThenSumSet(LAMBDA r : r.count, here)

\* The point of TOP or LOW: 0 in a month without members of the group.
GroupPoint(rows, p, g) ==
    LET own == {r \in rows : r.period = p /\ r.group = g}
        all == {r \in rows : r.period = p /\ r.group = "ALL"}
    IN  IF own # {} THEN (CHOOSE r \in own : TRUE).value
        ELSE IF all # {} THEN (CHOOSE r \in all : TRUE).value
        ELSE 0

\* Faulty: the share of the weight of revenue.
HitRateOf30(value) == Lower(100 * Scale, (value * 100) \div 30)

\* The metric shippingHitRate: the share of the default weight of shipping.
HitRate(value) == Lower(100 * Scale, (value * 100) \div 35)

----------------------------------------------------------------------------
(* get_suggestions *)

Candidates(mentee) == {x \in Members \X Periods : perf[x] # Null /\ x[1] # mentee}

\* Faulty: the rows are not ordered.
AnySuggestions(mentee, size) ==
    {S \in SUBSET Candidates(mentee) :
        Cardinality(S) = Lower(size, Cardinality(Candidates(mentee)))}

\* The sets of rows ORDER BY score DESC LIMIT size may return.
Suggestions(mentee, size) ==
    {S \in SUBSET Candidates(mentee) :
        /\ Cardinality(S) = Lower(size, Cardinality(Candidates(mentee)))
        /\ \A x \in S, y \in Candidates(mentee) \ S : perf[x].score >= perf[y].score}

----------------------------------------------------------------------------
(* Properties *)

\* The parts of an analysis fit together though each SELECT sees a later table:
\* the row is that of the month named, the month is in the history and the
\* member is counted, and the months offered include the history.
AnalysisFitsTogether ==
    ask.pc = "done" =>
        /\ ask.row = perf[<<ask.member, ask.period>>]
        /\ ask.asked \in {Null, ask.period}
        /\ ask.period \in ask.history
        /\ ask.history \subseteq ask.periods
        /\ ask.rankTotal \in 1..Cardinality(Members)

\* An analysis without a period is refused to a member only while the union's
\* latest month is loaded in part: another member has it already.
MissingOnlyMidLoad ==
    ask.pc = "missing" /\ ask.asked = Null /\ ask.period # Null =>
        \E m \in Members \ {ask.member} : perf[<<m, ask.period>>] # Null

\* The point of AVERAGE is the mean over the members, not over the groups, and
\* when the stored trends stand in all series coincide.
AverageIsMean ==
    \A p \in Periods :
        LET rows == Normalized("score", p, p)
            all  == {m \in Members : perf[<<m, p>>] # Null}
        IN  rows # {} =>
              IF all # {} THEN Average(rows, p) = (Scale * SumOf("score", p, all)) \div Cardinality(all)
              ELSE \A g \in {"TOP", "LOW"} : GroupPoint(rows, p, g) = Average(rows, p)

\* The hit rate of the dashboard and that of the analysis agree for a group of one
\* member as long as the weight of shipping is the default 35.
HitRatesAgree ==
    \A p \in Periods, g \in {"TOP", "LOW"} : \A m \in Members :
        Group(p, g) = {m} /\ perf[<<m, p>>].shippingWeight = 35 =>
            HitRate(GroupPoint(Normalized("shipping", p, p), p, g)) \div Scale
                = Value(perf[<<m, p>>].shipping, 35) \div 100

\* Who is suggested is another member with a performance, and whoever is left out has
\* never had a higher score, in any month, than the one shown for each suggestion.  As
\* long as every member has one month at most, as many are suggested as asked for or
\* as there are; with more, one member may take the places of several.
SuggestionsAreBest ==
    \A mentee \in Members, size \in 1..2 : \A S \in Suggestions(mentee, size) :
        LET others == {m \in Members \ {mentee} : PeriodsOf(m) # {}}
            named  == {x[1] : x \in S}
        IN  /\ named \subseteq others
            /\ \A x \in S, o \in others \ named : \A p \in PeriodsOf(o) :
                  perf[<<o, p>>].score <= perf[x].score
            /\ (\A m \in Members : Cardinality(PeriodsOf(m)) <= 1) =>
                  Cardinality(named) = Lower(size, Cardinality(others))
=============================================================================
