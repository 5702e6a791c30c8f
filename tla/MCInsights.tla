----------------------------- MODULE MCInsights ------------------------------
(***************************************************************************)
(* Two reports, for each type of dashboard a configuration and rows that   *)
(* agree, repeat or contradict each other in every way observe knows.      *)
(***************************************************************************)
EXTENDS Insights

A == <<1, "a">>
B == <<2, "b">>
Unmapped == <<1, "x">>
Unlisted == <<2, "y">>

MCSheets == {A, B, Unmapped}

Columns(fields, others) == [s \in {A, B} |-> {"period"} \cup IF s = A THEN fields ELSE others]

Executive ==
    [type |-> "executive_summary", goals |-> Goals,
     columns |-> Columns({"expenses", "revenue", "net_cash", "gross_margin", "category",
                          "location"}, {"revenue"})]

Financial ==
    [type |-> "financial_performance", goals |-> Goals,
     columns |-> Columns({"spend", "category", "location", "budget"},
                         {"revenue", "cash_balance"})]

Operational ==
    [type |-> "operational_kpi", goals |-> Goals,
     columns |-> Columns({"expenses", "department", "vendor", "status"}, {"status"})]

\* The last two are refused: by validation, and because the sheet is unlisted.
MCConfigurations ==
    {Executive, Financial, Operational,
     [Executive EXCEPT !.columns = Columns({"expenses", "revenue"}, {"net_cash"})],
     [Operational EXCEPT !.columns = [s \in {A, Unlisted} |-> Operational.columns[A]]]}

Row(sheet, cells) == [sheet |-> sheet, cells |-> cells]

Month(p, expenses, revenue, cash, margin, category, location) ==
    Row(A, [period |-> p, expenses |-> expenses, revenue |-> revenue, net_cash |-> cash,
            gross_margin |-> margin, category |-> category, location |-> location])

Spent(p, spend, budget, category, location) ==
    Row(A, [period |-> p, spend |-> spend, budget |-> budget, category |-> category,
            location |-> location])

Bank(p, revenue, balance) ==
    Row(B, [period |-> p, revenue |-> revenue, cash_balance |-> balance])

Cost(p, expenses, department, vendor, update) ==
    Row(A, [period |-> p, expenses |-> expenses, department |-> department,
            vendor |-> vendor, status |-> update])

MCRows(type) ==
    CASE type = "executive_summary" ->
           {Month(1, 4, 8, 4, 5, "c1", "l1"), Month(2, 5, 4, 3, 6, "c2", "l1"),
            Month(3, -2, 4, 9, 5, "c1", "l2"), Month(4, 3, 3, 0, 7, "c1", "l1"),
            Month(2, 1, Null, 3, Null, "c1", "l2"), Month(2, Null, Null, 8, Null, Null, Null),
            Row(B, [period |-> 2, revenue |-> 2]), Row(B, [period |-> 5, revenue |-> 2])}
      [] type = "financial_performance" ->
           {Spent(1, 4, 3, "c1", "l1"), Spent(1, 2, Null, "c2", "l2"),
            Spent(2, 4, 9, "c1", "l2"), Spent(2, 1, Null, "c3", "l1"),
            Spent(1, 1, Null, "c1", Null), Spent(1, Text, Null, "c1", "l1"),
            Spent(2, 1, Null, Long, "l1"),
            Bank(1, 5, 7), Bank(2, 6, 0), Bank(2, 1, 1), Bank(Null, 1, Null),
            Row(Unmapped, [spend |-> Text]), Row(Unlisted, [period |-> 1])}
      [] type = "operational_kpi" ->
           {Cost(1, 4, "d1", "v1", Null), Cost(1, 0, "d1", "v2", Null),
            Cost(2, 5, "d2", "v1", "late"), Cost(2, Null, Null, Null, "done"),
            Cost(Null, Null, "d1", Null, "open"), Cost(3, 1, "d1", "v1", Text),
            Row(B, [period |-> 1, status |-> "done"]), Row(B, [period |-> 1, status |-> Long])}
=============================================================================
