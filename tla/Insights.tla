------------------------------- MODULE Insights -------------------------------
(***************************************************************************)
(* The calculation of a dashboard's insights: the processed reports of a   *)
(* materialization are read one after the other, their rows go through     *)
(* DashboardInsightAccumulator, and the figures are rendered from what it  *)
(* has accumulated.  Any inconsistency ends the calculation.               *)
(*                                                                         *)
(* Periods are numbered in the order of _period_sort_key; decimals are     *)
(* integers, and a quotient is the pair of its numerator and denominator.  *)
(***************************************************************************)
EXTENDS Integers, FiniteSets, Sequences, FiniteSetsExt, SequencesExt

CONSTANTS Configurations, \* insight configurations: [type, goals, columns]
          JobCount,       \* processed reports, in the order of their identifiers
          Sheets,         \* the sheets <<job, name>> that the profiles list
          Rows(_),        \* the rows that the reports of a type of dashboard hold
          MaxRows,        \* bound: rows of all reports together
          MaxPeriods, MaxDimensionValues, MaxPoints, MaxStatusUpdates,
          MaxAnomalies,   \* 20 in the code
          Window,         \* changes that the forecast averages, 3 in the code
          Null,           \* an empty cell
          Text,           \* a cell that is no decimal number
          Long            \* a text longer than a label may be

VARIABLES conf,     \* the insight configuration
          job,      \* the report being read
          rows,     \* rows read so far, with the one that was refused (history)
          acc,      \* the accumulator
          status,   \* "profile", "rows", "ready", "rendered" or "failed"
          error,    \* the code of DashboardInsightDataError
          result    \* what render returns

vars == <<conf, job, rows, acc, status, error, result>>

-----------------------------------------------------------------------------
(***************************************************************************)
(* The contract of the types of dashboards.                                *)
(***************************************************************************)

Types == {"executive_summary", "financial_performance", "operational_kpi"}

NumericFields == {"expenses", "revenue", "net_cash", "gross_margin", "spend",
                  "cash_balance", "budget"}

NonAdditive == {"net_cash", "cash_balance", "gross_margin"}

DimensionFields == {"location", "category", "department", "vendor"}

Goals == {"improve_cash_flow", "increase_profitability", "reduce_expenses", "grow_revenue",
          "improve_collections_ar", "stay_on_budget", "improve_forecasting",
          "benchmark_against_peers", "improve_operational_efficiency"}

\* Cells of numeric columns may hold anything; a Text is met only there and
\* among the status updates, all else that is short enough being a label.
ASSUME InsightsAssumption ==
    /\ JobCount \in Nat \ {0}
    /\ {MaxRows, MaxPeriods, MaxDimensionValues, MaxPoints, MaxStatusUpdates,
        MaxAnomalies, Window} \subseteq Nat
    /\ Null # Text /\ Null # Long /\ Text # Long
    /\ {Null, Text, Long} \cap Int = {} /\ Null \notin Int \X Int
    /\ \A c \in Configurations : c.type \in Types /\ c.goals \subseteq Goals
    /\ \A type \in Types : \A row \in Rows(type) : \A f \in DOMAIN row.cells :
         /\ f \in NumericFields => row.cells[f] \in Int \cup {Null, Text}
         /\ f \in DimensionFields => row.cells[f] # Text
         /\ f = "period" => row.cells[f] \in Nat \cup {Null, Long}

\* The numeric fields of a type, all of them required.
RequiredNumeric(type) ==
    CASE type = "executive_summary"     -> {"expenses", "revenue", "net_cash", "gross_margin"}
      [] type = "financial_performance" -> {"revenue", "spend", "cash_balance", "budget"}
      [] type = "operational_kpi"       -> {"expenses"}

OutflowField(type) == IF type = "financial_performance" THEN "spend" ELSE "expenses"

\* The dimensions without which a row of the outflow field is refused.
OutflowDimensions(type) ==
    IF type = "operational_kpi" THEN {"department", "vendor"} ELSE {"category", "location"}

\* Faulty variant: locations are not aggregated.
DimensionAggregationsPartly(type) ==
    IF type = "operational_kpi" THEN {<<"expenses", "department">>, <<"expenses", "vendor">>}
    ELSE {<<OutflowField(type), "category">>}

\* The pairs of a field and a dimension that are aggregated.
DimensionAggregations(type) ==
    CASE type = "executive_summary" ->
           {<<"expenses", "category">>, <<"expenses", "location">>}
      [] type = "financial_performance" ->
           {<<"spend", "category">>, <<"spend", "location">>}
      [] type = "operational_kpi" ->
           {<<"expenses", "department">>, <<"expenses", "vendor">>}

\* The dimension whose largest value signals and recommendations cite.
Concentration(type) == IF type = "operational_kpi" THEN "vendor" ELSE "category"

\* validate_insight_configuration_for_type.  columns gives each mapped sheet
\* the fields that are mapped to one of its columns.
Valid(c) ==
    LET outflow == {"period", OutflowField(c.type)} \cup OutflowDimensions(c.type)
        required == {"period"} \cup RequiredNumeric(c.type) \cup OutflowDimensions(c.type)
        optional == IF c.type = "operational_kpi" THEN {"status"} ELSE {}
    IN
    /\ UNION {c.columns[s] : s \in DOMAIN c.columns} \subseteq required \cup optional
    /\ required \subseteq UNION {c.columns[s] : s \in DOMAIN c.columns}
    /\ \A s \in DOMAIN c.columns :
         /\ c.columns[s] \cap NumericFields # {} => "period" \in c.columns[s]
         /\ OutflowField(c.type) \in c.columns[s] => outflow \subseteq c.columns[s]
    /\ \E s \in DOMAIN c.columns : outflow \subseteq c.columns[s]

-----------------------------------------------------------------------------
(***************************************************************************)
(* The accumulator.                                                        *)
(***************************************************************************)

\* Keys are <<field, period>>, <<field, dimension, value>> and
\* <<field, dimension, period, value>>.  For a point-in-time field by_period
\* is also _point_in_time_values.
NoRows == [count      |-> [f \in NumericFields |-> 0],
           total      |-> [f \in NumericFields |-> 0],
           by_period  |-> <<>>,
           by_dim     |-> <<>>,
           points     |-> <<>>,
           unique     |-> [d \in DimensionFields |-> {}],
           owner      |-> <<>>,
           mapped     |-> 0,
           statuses   |-> <<>>]

\* values.get(key, 0)
At(map, key) == IF key \in DOMAIN map THEN map[key] ELSE 0

\* map with the value of each key of more added to it.
Plus(map, more) ==
    [k \in DOMAIN map \cup DOMAIN more |-> At(map, k) + At(more, k)]

Mapped(row) == row.sheet \in DOMAIN conf.columns

\* What observe sees of a row: the mapped cells that are not empty.
Cells(row) ==
    LET fields == {f \in conf.columns[row.sheet] \cap DOMAIN row.cells : row.cells[f] # Null}
    IN  [f \in fields |-> row.cells[f]]

Numbers(row) == DOMAIN Cells(row) \cap NumericFields

Dimensions(row) == DOMAIN Cells(row) \cap DimensionFields

HasPeriod(row) == "period" \in DOMAIN Cells(row)

Period(row) == IF HasPeriod(row) THEN Cells(row)["period"] ELSE Null

\* Faulty variant: a point-in-time value is added whenever it is met.
CountedAlways(row) == Numbers(row)

\* The fields of the row that are added: a point-in-time value only once.
Counted(row) ==
    {f \in Numbers(row) : f \in NonAdditive => <<f, Period(row)>> \notin DOMAIN acc.by_period}

Aggregated(row) ==
    {a \in DimensionAggregations(conf.type) : a[1] \in Counted(row) /\ a[2] \in Dimensions(row)}

AddedByPeriod(row) ==
    [k \in {<<f, Period(row)>> : f \in Counted(row)} |-> Cells(row)[k[1]]]

AddedByDimension(row) ==
    [k \in {<<a[1], a[2], Cells(row)[a[2]]>> : a \in Aggregated(row)} |-> Cells(row)[k[1]]]

AddedPoints(row) ==
    [k \in {<<a[1], a[2], Period(row), Cells(row)[a[2]]>> : a \in Aggregated(row)} |->
       Cells(row)[k[1]]]

\* The accumulator after a row that is not refused.
Observed(row) ==
    [count     |-> [f \in NumericFields |-> acc.count[f] + IF f \in Counted(row) THEN 1 ELSE 0],
     total     |-> [f \in NumericFields |->
                      acc.total[f] + IF f \in Counted(row) THEN Cells(row)[f] ELSE 0],
     by_period |-> Plus(acc.by_period, AddedByPeriod(row)),
     by_dim    |-> Plus(acc.by_dim, AddedByDimension(row)),
     points    |-> Plus(acc.points, AddedPoints(row)),
     unique    |-> [d \in DimensionFields |->
                      acc.unique[d] \cup IF d \in Dimensions(row) THEN {Cells(row)[d]} ELSE {}],
     owner     |-> [k \in DOMAIN acc.owner \cup {<<f, Period(row)>> : f \in Numbers(row)} |->
                      IF k \in DOMAIN acc.owner THEN acc.owner[k] ELSE row.sheet],
     mapped    |-> acc.mapped + IF Numbers(row) = {} THEN 0 ELSE 1,
     statuses  |-> IF "status" \in DOMAIN Cells(row)
                   THEN Append(acc.statuses, [period |-> Period(row), row |-> Len(rows) + 1])
                   ELSE acc.statuses]

\* Faulty variant: several sheets may give one measure for one period.
OverlapsNever(row, key) == FALSE

\* Another sheet has given the measure for the period.
Overlaps(row, key) == key \in DOMAIN acc.owner /\ acc.owner[key] # row.sheet

\* _strict_decimal returns None.
NoDecimal(value) == value = Text

\* The first thing wrong with a number of the row, "none" if nothing is.
NumberError(row, f) ==
    LET key == <<f, Period(row)>>
        value == Cells(row)[f]
    IN
    CASE NoDecimal(value) -> "mapped_numeric_value_invalid"
      [] ~HasPeriod(row) -> "mapped_period_value_missing"
      [] Overlaps(row, key) -> "mapped_measure_period_overlap"
      [] f = OutflowField(conf.type) /\ ~(OutflowDimensions(conf.type) \subseteq Dimensions(row)) ->
           "mapped_required_dimension_value_missing"
      [] f \in NonAdditive /\ key \in DOMAIN acc.by_period /\ acc.by_period[key] # value ->
           "mapped_point_in_time_value_ambiguous"
      [] Cardinality({k \in DOMAIN acc.by_period \cup {key} : k[1] = f}) > MaxPeriods ->
           "mapped_period_cardinality_exceeded"
      [] f \in {a[1] : a \in Aggregated(row)}
           /\ Cardinality(DOMAIN acc.points \cup DOMAIN AddedPoints(row)) > MaxPoints ->
           "mapped_series_cardinality_exceeded"
      [] OTHER -> "none"

\* _observe_unique: the dimensions of which the row has a value too many.
Crowded(row) ==
    {d \in Dimensions(row) : Cardinality(acc.unique[d] \cup {Cells(row)[d]}) > MaxDimensionValues}

\* Labels come first, then the numbers in no fixed order (_NUMERIC_FIELDS is a
\* frozenset), then the status update.
LabelErrors(row) ==
    {"mapped_text_value_too_large" :
       f \in {g \in DOMAIN Cells(row) \cap ({"period"} \cup DimensionFields) : Cells(row)[g] = Long}}
    \cup
    {"mapped_dimension_cardinality_exceeded" : d \in Crowded(row)}

NumberErrors(row) == {NumberError(row, f) : f \in Numbers(row)} \ {"none"}

StatusErrors(row) ==
    IF "status" \notin DOMAIN Cells(row) THEN {}
    ELSE IF Len(acc.statuses) >= MaxStatusUpdates THEN {"mapped_status_update_limit_exceeded"}
    ELSE IF NoDecimal(Cells(row)["status"]) THEN {"mapped_numeric_value_invalid"}
    ELSE IF Cells(row)["status"] = Long THEN {"mapped_text_value_too_large"}
    ELSE {}

RowErrors(row) ==
    IF LabelErrors(row) # {} THEN LabelErrors(row)
    ELSE IF NumberErrors(row) # {} THEN NumberErrors(row)
    ELSE StatusErrors(row)

-----------------------------------------------------------------------------
(***************************************************************************)
(* Rendering.                                                              *)
(***************************************************************************)

PeriodsOf(f) == {k[2] : k \in {l \in DOMAIN acc.by_period : l[1] = f}}

MappedPeriods == {k[2] : k \in DOMAIN acc.by_period}

\* The periods, each at the place that the number of earlier ones gives it.
InOrder(periods) ==
    [i \in 1..Cardinality(periods) |->
       CHOOSE p \in periods : Cardinality({q \in periods : q < p}) = i - 1]

ByPeriod(f) == [p \in PeriodsOf(f) |-> acc.by_period[<<f, p>>]]

ByDimension(d) ==
    LET f == OutflowField(conf.type)
    IN  [v \in {k[3] : k \in {l \in DOMAIN acc.by_dim : l[1] = f /\ l[2] = d}} |->
           acc.by_dim[<<f, d, v>>]]

SumOf(map) == MapThenSumSet(LAMBDA k : map[k], DOMAIN map)

Total(f) == IF acc.count[f] = 0 THEN Null ELSE acc.total[f]

\* latest(field) by mapped period
Latest(f) == IF PeriodsOf(f) = {} THEN Null ELSE ByPeriod(f)[Max(PeriodsOf(f))]

\* None when an operand is None.
Both(x, y) == IF x = Null \/ y = Null THEN Null ELSE <<x, y>>

Difference(x, y) == IF x = Null \/ y = Null THEN Null ELSE x - y

Ratio(numerator, denominator) == IF denominator = 0 THEN Null ELSE Both(numerator, denominator)

\* What keeps the figures from being rendered.  Every mapped sheet has been
\* validated: materialize has compared the mapped jobs with the sources.
RenderError ==
    LET required == RequiredNumeric(conf.type) IN
    IF acc.mapped = 0 THEN "mapped_rows_not_found"
    ELSE IF \E f \in required : PeriodsOf(f) = {} THEN "mapped_required_numeric_values_missing"
    ELSE IF \E f, g \in required : PeriodsOf(f) # PeriodsOf(g)
    THEN "mapped_period_coverage_mismatch"
    ELSE "none"

\* _executive_calculated
ExecutiveKpis ==
    [total_revenue |-> Total("revenue"),
     net_profit    |-> Difference(Total("revenue"), Total("expenses")),
     gross_margin  |-> Ratio(Total("gross_margin"), acc.count["gross_margin"]),
     burn_rate     |-> Ratio(Total("expenses"), Cardinality(PeriodsOf("expenses")))]

\* _financial_calculated
FinancialKpis ==
    [total_revenue    |-> Total("revenue"),
     total_spend      |-> Total("spend"),
     cash_balance     |-> Latest("cash_balance"),
     total_budget     |-> Total("budget"),
     spend_to_revenue |-> Ratio(Total("spend"), Total("revenue"))]

\* _operational_calculated
OperationalKpis ==
    LET departments == Cardinality(acc.unique["department"])
        vendors == Cardinality(acc.unique["vendor"])
    IN
    [number_of_departments        |-> IF departments = 0 THEN Null ELSE departments,
     average_spend_per_department |-> Ratio(Total("expenses"), departments),
     number_of_vendors            |-> IF vendors = 0 THEN Null ELSE vendors,
     total_expenses               |-> Total("expenses")]

Kpis ==
    CASE conf.type = "executive_summary"     -> ExecutiveKpis
      [] conf.type = "financial_performance" -> FinancialKpis
      [] conf.type = "operational_kpi"       -> OperationalKpis

\* Faulty variant: the trend is that of all periods.
RecentAll(changes) == changes

\* changes[-3:]
Recent(changes) ==
    SubSeq(changes, IF Len(changes) > Window THEN Len(changes) - Window + 1 ELSE 1, Len(changes))

\* _cash_flow_forecast_series: the latest value, then three steps of the trend.
Forecast ==
    LET values == ByPeriod("net_cash")
        periods == InOrder(DOMAIN values)
        changes == [i \in 1..Len(periods) - 1 |-> values[periods[i + 1]] - values[periods[i]]]
        recent == Recent(changes)
        n == IF recent = <<>> THEN 1 ELSE Len(recent)
        trend == FoldLeft(+, 0, recent)
    IN  IF periods = <<>> THEN <<>>
        ELSE [i \in 1..4 |-> <<Latest("net_cash") * n + trend * (i - 1), n>>]

\* _breakdown: amounts by value of the dimension, with their shares.
Breakdown(d) ==
    LET values == ByDimension(d)
    IN  [v \in DOMAIN values |-> [amount |-> values[v],
                                 share  |-> Ratio(values[v], SumOf(values))]]

\* _dimension_series: the points of each value of the dimension.
DimensionSeries(d) ==
    LET keys == {k \in DOMAIN acc.points : k[1] = OutflowField(conf.type) /\ k[2] = d}
    IN  [v \in {k[4] : k \in keys} |->
           [p \in {k[3] : k \in {l \in keys : l[4] = v}} |->
              acc.points[<<OutflowField(conf.type), d, p, v>>]]]

\* _variance_table: the latest period against the one before.
Variance(d) ==
    LET series == DimensionSeries(d)
        periods == InOrder(UNION {DOMAIN series[v] : v \in DOMAIN series})
        n == Len(periods)
    IN  [v \in DOMAIN series |->
           LET current == At(series[v], periods[n])
               prior == IF n < 2 THEN Null ELSE At(series[v], periods[n - 1])
           IN  [current |-> current, prior |-> prior,
                change  |-> IF n < 2 THEN Null ELSE current - prior,
                percent |-> IF n < 2 THEN Null ELSE Ratio(current - prior, prior)]]

PrimaryFields ==
    CASE conf.type = "executive_summary"     -> <<"revenue", "expenses", "net_cash">>
      [] conf.type = "financial_performance" -> <<"revenue", "spend">>
      [] conf.type = "operational_kpi"       -> <<"expenses">>

\* Faulty variant: a change of exactly 25 % is not reported.
NotableAbove(prior, current) ==
    prior # 0 /\ 16 * (current - prior) * (current - prior) > prior * prior

\* A change of at least 25 % of a value that is not zero.
Notable(prior, current) ==
    prior # 0 /\ 16 * (current - prior) * (current - prior) >= prior * prior

\* The period before p in which the field has an amount.
PriorTo(f, p) == Max({q \in PeriodsOf(f) : q < p})

Flagged(f, p) ==
    /\ p \in PeriodsOf(f) /\ \E q \in PeriodsOf(f) : q < p
    /\ Notable(ByPeriod(f)[PriorTo(f, p)], ByPeriod(f)[p])

\* The changes that are found, by the place of the field and the period.
Found ==
    {x \in (DOMAIN PrimaryFields) \X MappedPeriods :
       Flagged(PrimaryFields[x[1]], x[2])}

\* The latest period comes first; the sort is stable, and fields keep their order.
Ahead(x) == {y \in Found : y[2] > x[2] \/ (y[2] = x[2] /\ y[1] < x[1])}

Reported(x) ==
    LET f == PrimaryFields[x[1]]
    IN  [field |-> f, prior |-> PriorTo(f, x[2]), current |-> x[2]]

\* _anomalies: each change at the place that those ahead of it leave it, and no
\* more than MaxAnomalies.
Anomalies ==
    [j \in 1..Min({MaxAnomalies, Cardinality(Found)}) |->
       Reported(CHOOSE x \in Found : Cardinality(Ahead(x)) = j - 1)]

\* The largest amount of the dimension that concentration is measured in.
Top == LET values == ByDimension(Concentration(conf.type))
       IN  IF DOMAIN values = {} THEN Null ELSE Max({values[v] : v \in DOMAIN values})

Exceeds(x, y) == x # Null /\ y # Null /\ x > y

\* _risks
Risks ==
    LET outflow == Total(OutflowField(conf.type))
        amount == SumOf(ByDimension(Concentration(conf.type)))
    IN
    {r \in {"outflow_exceeds_revenue", "spend_above_budget", "outflow_concentration"} :
       CASE r = "outflow_exceeds_revenue" -> Exceeds(outflow, Total("revenue"))
         [] r = "spend_above_budget"      -> Exceeds(Total("spend"), Total("budget"))
         [] r = "outflow_concentration"   -> Top # Null /\ amount > 0 /\ 2 * Top >= amount}

\* What the recommendation for a goal rests on; Null when the data is missing.
Evidence(goal) ==
    CASE goal \in {"benchmark_against_peers", "improve_collections_ar"} -> Null
      [] goal = "improve_cash_flow" ->
           IF conf.type = "executive_summary" THEN Latest("net_cash")
           ELSE IF conf.type = "financial_performance" THEN Latest("cash_balance") ELSE Null
      [] goal \in {"reduce_expenses", "improve_operational_efficiency"} ->
           Top
      [] goal = "stay_on_budget" -> Both(Total("budget"), Total("spend"))
      [] goal = "grow_revenue" -> Total("revenue")
      [] goal = "increase_profitability" -> Both(Total("revenue"), Total(OutflowField(conf.type)))
      [] goal = "improve_forecasting" ->
           IF Cardinality(MappedPeriods) < 2 THEN Null ELSE Cardinality(MappedPeriods)

\* Updates in the order of their periods, those without one last.
StatusUpdates ==
    LET Of(p) == SelectSeq(acc.statuses, LAMBDA u : u.period = p)
        periods == InOrder({acc.statuses[i].period : i \in DOMAIN acc.statuses} \ {Null})
    IN  FlattenSeq([i \in 1..Len(periods) |-> Of(periods[i])]) \o Of(Null)

BreakdownDimensions ==
    CASE conf.type = "executive_summary"     -> {"category", "location"}
      [] conf.type = "financial_performance" -> {"location"}
      [] conf.type = "operational_kpi"       -> {}

SeriesDimensions ==
    CASE conf.type = "executive_summary"     -> {}
      [] conf.type = "financial_performance" -> {"category"}
      [] conf.type = "operational_kpi"       -> {"department", "vendor"}

\* _comparison_series, and the other measures shown by period.
ComparisonSeries ==
    LET shown == CASE conf.type = "executive_summary"     -> {"expenses", "net_cash"}
                   [] conf.type = "financial_performance" -> {"spend", "revenue"}
                   [] conf.type = "operational_kpi"       -> {}
    IN  [f \in shown |-> ByPeriod(f)]

\* render, with the sections that the type of the dashboard has.
Rendered ==
    [kpis            |-> Kpis,
     by_period       |-> ComparisonSeries,
     forecast        |-> IF conf.type = "executive_summary" THEN Forecast ELSE <<>>,
     breakdowns      |-> [d \in BreakdownDimensions |-> Breakdown(d)],
     series          |-> [d \in SeriesDimensions |-> DimensionSeries(d)],
     variance        |-> IF conf.type = "financial_performance" THEN Variance("category")
                         ELSE <<>>,
     anomalies       |-> Anomalies,
     risks           |-> Risks,
     recommendations |-> [g \in conf.goals |-> Evidence(g)],
     statuses        |-> StatusUpdates]

-----------------------------------------------------------------------------
(***************************************************************************)
(* Reading the reports.                                                    *)
(***************************************************************************)

NoResult == [kpis |-> <<>>]

Init ==
    /\ conf \in {c \in Configurations : Valid(c)}
    /\ job = 1
    /\ rows = <<>>
    /\ acc = NoRows
    /\ status = "profile"
    /\ error = "none"
    /\ result = NoResult

Fails(code) == status' = "failed" /\ error' = code

\* validate_profile: the mapped sheets of the report are in its profile.
MappedSheetsListed == \A s \in DOMAIN conf.columns : s[1] = job => s \in Sheets

\* The artifacts are missing, or the profile is not that of the job, or it is
\* and is compared with the mapping.
ReadProfile ==
    /\ status = "profile"
    /\ \/ Fails("invalid_artifact")
       \/ IF MappedSheetsListed
          THEN status' = "rows" /\ UNCHANGED error
          ELSE Fails("mapped_source_column_not_found")
    /\ UNCHANGED <<conf, job, rows, acc, result>>

\* _aggregate_normalized reads a line: a sheet that the profile does not list is
\* an invalid artifact, a sheet that is not mapped is passed over.
ReadRow(row) ==
    /\ status = "rows" /\ row.sheet[1] = job /\ Len(rows) < MaxRows
    /\ rows' = Append(rows, row)
    /\ \/ row.sheet \notin Sheets /\ Fails("invalid_artifact") /\ UNCHANGED acc
       \/ row.sheet \in Sheets /\ ~Mapped(row) /\ UNCHANGED <<acc, status, error>>
       \/ /\ row.sheet \in Sheets /\ Mapped(row) /\ RowErrors(row) = {}
          /\ acc' = Observed(row)
          /\ UNCHANGED <<status, error>>
       \/ /\ row.sheet \in Sheets /\ Mapped(row)
          /\ \E code \in RowErrors(row) : Fails(code)
          /\ UNCHANGED acc
    /\ UNCHANGED <<conf, job, result>>

\* The end of a report: its rows are as many as its profile says, or not.
EndOfReport ==
    /\ status = "rows"
    /\ \/ job < JobCount /\ status' = "profile" /\ job' = job + 1 /\ UNCHANGED error
       \/ job = JobCount /\ status' = "ready" /\ UNCHANGED <<job, error>>
       \/ Fails("invalid_artifact") /\ UNCHANGED job
    /\ UNCHANGED <<conf, rows, acc, result>>

Render ==
    /\ status = "ready"
    /\ \/ RenderError # "none" /\ Fails(RenderError) /\ UNCHANGED result
       \/ /\ RenderError = "none" /\ status' = "rendered"
          /\ result' = Rendered
          /\ UNCHANGED error
    /\ UNCHANGED <<conf, job, rows, acc>>

Next ==
    \/ ReadProfile
    \/ \E row \in Rows(conf.type) : ReadRow(row)
    \/ EndOfReport
    \/ Render

Spec == Init /\ [][Next]_vars

-----------------------------------------------------------------------------
(***************************************************************************)
(* Properties.  The reference definitions look at all rows read, in no     *)
(* particular order, and at no accumulator.                                *)
(***************************************************************************)

\* Keys are made of fields, periods and labels that are short enough.
TypeOK ==
    /\ conf \in Configurations /\ job \in 1..JobCount
    /\ status \in {"profile", "rows", "ready", "rendered", "failed"}
    /\ status = "failed" <=> error # "none"
    /\ \A k \in DOMAIN acc.by_period : k[1] \in NumericFields /\ k[2] \in Nat
    /\ \A k \in DOMAIN acc.points :
         /\ <<k[1], k[3]>> \in DOMAIN acc.by_period
         /\ <<k[1], k[2], k[4]>> \in DOMAIN acc.by_dim
         /\ k[4] \in acc.unique[k[2]] \ {Long, Null}

\* The rows that count, by their position.
Read == {i \in DOMAIN rows : Mapped(rows[i])}

Giving(f, p) == {i \in Read : f \in Numbers(rows[i]) /\ Period(rows[i]) = p}

Value(i, f) == Cells(rows[i])[f]

Labels(d) == {Value(i, d) : i \in {j \in Read : d \in Dimensions(rows[j])}}

AllPeriods == {Period(rows[i]) : i \in Read} \ {Null}

\* The sum of an additive field over the rows of I, the one value of another.
Amount(f, I) == IF f \in NonAdditive THEN Value(CHOOSE i \in I : TRUE, f)
                ELSE MapThenSumSet(LAMBDA i : Value(i, f), I)

\* The dimension, period and label of every amount that is aggregated.
Points ==
    UNION {{<<a[2], Period(rows[i]), Value(i, a[2])>> :
              i \in {j \in Read : {a[1], a[2]} \subseteq DOMAIN Cells(rows[j])}} :
           a \in DimensionAggregations(conf.type)}

\* The rows contradict neither the contract nor each other.
Consistent ==
    LET outflow == OutflowField(conf.type) IN
    /\ \A i \in DOMAIN rows : rows[i].sheet \in Sheets
    /\ \A i \in Read :
         /\ \A f \in DOMAIN Cells(rows[i]) : Value(i, f) \notin {Text, Long}
         /\ Numbers(rows[i]) # {} => HasPeriod(rows[i])
         /\ outflow \in Numbers(rows[i]) => OutflowDimensions(conf.type) \subseteq Dimensions(rows[i])
    /\ \A f \in RequiredNumeric(conf.type), p \in AllPeriods : \A i, j \in Giving(f, p) :
         /\ rows[i].sheet = rows[j].sheet
         /\ f \in NonAdditive => Value(i, f) = Value(j, f)
    /\ \A f \in RequiredNumeric(conf.type) :
         Cardinality({p \in AllPeriods : Giving(f, p) # {}}) <= MaxPeriods
    /\ \A d \in DimensionFields : Cardinality(Labels(d)) <= MaxDimensionValues
    /\ Cardinality(Points) <= MaxPoints
    /\ Cardinality({i \in Read : "status" \in DOMAIN Cells(rows[i])}) <= MaxStatusUpdates

\* Whether the rows are accepted depends on what they say and never on the order
\* in which reports and rows are read: observe refuses a row exactly when the
\* rows so far, taken as a bag, are inconsistent.
VerdictOrderFree ==
    /\ status # "failed" => Consistent
    /\ status = "failed" /\ Consistent =>
         error \in {"invalid_artifact", "mapped_source_column_not_found", "mapped_rows_not_found",
                   "mapped_required_numeric_values_missing", "mapped_period_coverage_mismatch"}

\* The accumulators are the sums of the rows: each row counts once, and a
\* point-in-time value once per period however often it is repeated.
AccumulatorsFaithful ==
    /\ TypeOK
    /\ status # "failed" => \A f \in RequiredNumeric(conf.type) :
         /\ PeriodsOf(f) = {p \in AllPeriods : Giving(f, p) # {}}
         /\ \A p \in PeriodsOf(f) : ByPeriod(f)[p] = Amount(f, Giving(f, p))
         /\ acc.total[f] = SumOf(ByPeriod(f))
         /\ f \in NonAdditive => acc.count[f] = Cardinality(PeriodsOf(f))

\* The sums of what is rendered for the values of a dimension.
SumOfAmounts(d) ==
    MapThenSumSet(LAMBDA v : result.breakdowns[d][v].amount, DOMAIN result.breakdowns[d])

SumOfSeries(d, p) ==
    MapThenSumSet(LAMBDA v : At(result.series[d][v], p), DOMAIN result.series[d])

SumOfChanges == MapThenSumSet(LAMBDA v : result.variance[v].change, DOMAIN result.variance)

\* Parts add up: breakdowns to the total, the series to each period's amount,
\* and the variances to the change of the whole.
WholeIsSumOfParts ==
    LET f == OutflowField(conf.type) IN
    status = "rendered" =>
       /\ \A d \in DOMAIN result.breakdowns : SumOfAmounts(d) = acc.total[f]
       /\ \A d \in DOMAIN result.series : \A p \in PeriodsOf(f) :
            SumOfSeries(d, p) = ByPeriod(f)[p]
       /\ Cardinality(PeriodsOf(f)) > 1 /\ DOMAIN result.variance # {} =>
            LET last == Max(PeriodsOf(f)) IN
            SumOfChanges = ByPeriod(f)[last] - ByPeriod(f)[Max(PeriodsOf(f) \ {last})]

\* The forecast starts at the latest value and repeats the mean of up to Window
\* changes, that is the change since the value Window periods ago (or the first);
\* with one period it carries the value forward.
ForecastContinues ==
    status = "rendered" /\ conf.type = "executive_summary" =>
       LET cash == result.by_period["net_cash"]
           ps == DOMAIN cash
           last == Max(ps)
           recent == {p \in ps : Cardinality({q \in ps : q > p}) <= Window}
           n == Cardinality(recent) - 1
       IN  \A step \in 0..3 :
             LET point == result.forecast[step + 1] IN
             IF n = 0 THEN point[1] = cash[last] * point[2]
             ELSE point[1] * n = (n * cash[last] + step * (cash[last] - cash[Min(recent)])) * point[2]

\* A recommendation cites data exactly when dashboards of its type have that
\* data: whatever is rendered has every figure its goals can call for.
AdviceIsGrounded ==
    status = "rendered" => \A g \in conf.goals :
       result.recommendations[g] # Null <=>
          \/ g \in {"reduce_expenses", "improve_operational_efficiency"}
          \/ /\ g \in {"improve_cash_flow", "grow_revenue", "increase_profitability"}
             /\ conf.type # "operational_kpi"
          \/ g = "stay_on_budget" /\ conf.type = "financial_performance"
          \/ /\ g = "improve_forecasting"
             /\ Cardinality({p \in AllPeriods : Giving(OutflowField(conf.type), p) # {}}) > 1

\* What the rows give for a field altogether, and for one label.
SumOfRows(f) == MapThenSumSet(LAMBDA i : Value(i, f), {i \in Read : f \in Numbers(rows[i])})

Bearing(f, d, v) ==
    {i \in Read : f \in Numbers(rows[i]) /\ d \in Dimensions(rows[i]) /\ Value(i, d) = v}

SumOfLabel(f, d, v) == MapThenSumSet(LAMBDA i : Value(i, f), Bearing(f, d, v))

\* A label has at least half of an outflow that is positive.
Concentrated(f, d) ==
    SumOfRows(f) > 0 /\ \E v \in Labels(d) : 2 * SumOfLabel(f, d, v) >= SumOfRows(f)

Abs(x) == IF x < 0 THEN -x ELSE x

\* Neighbouring periods, and changes between them of at least a quarter of the
\* earlier amount.
Neighbours(p, q) ==
    p < q /\ \A o \in AllPeriods : o <= p \/ o >= q \/ Giving(OutflowField(conf.type), o) = {}

IsNotable(f, p, q) ==
    LET before == Amount(f, Giving(f, p))
        after == Amount(f, Giving(f, q))
    IN
    /\ Giving(f, p) # {} /\ Giving(f, q) # {} /\ Neighbours(p, q)
    /\ before # 0 /\ 100 * Abs(after - before) >= 25 * Abs(before)

NotableChanges ==
    {n \in ToSet(PrimaryFields) \X AllPeriods \X AllPeriods : IsNotable(n[1], n[2], n[3])}

ReportedChanges == {<<a.field, a.prior, a.current>> : a \in ToSet(result.anomalies)}

\* Signals are complete and founded: the changes between neighbouring periods of
\* at least a quarter of the earlier amount are reported, the latest ones first
\* and the earliest left out if there are too many; risks and the evidence of
\* recommendations follow from the rows.
SignalsComplete ==
    status = "rendered" =>
       /\ ReportedChanges \subseteq NotableChanges
       /\ Len(result.anomalies) = Min({MaxAnomalies, Cardinality(NotableChanges)})
       /\ \A a \in ReportedChanges, n \in NotableChanges \ ReportedChanges : a[3] >= n[3]
       /\ \A i, j \in DOMAIN result.anomalies :
            i < j => result.anomalies[i].current >= result.anomalies[j].current
       /\ "outflow_exceeds_revenue" \in result.risks <=>
            /\ "revenue" \in RequiredNumeric(conf.type)
            /\ SumOfRows(OutflowField(conf.type)) > SumOfRows("revenue")
       /\ "spend_above_budget" \in result.risks <=>
            conf.type = "financial_performance" /\ SumOfRows("spend") > SumOfRows("budget")
       /\ "outflow_concentration" \in result.risks <=>
            Concentrated(OutflowField(conf.type), Concentration(conf.type))
       /\ AdviceIsGrounded

=============================================================================
