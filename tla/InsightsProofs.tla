---------------------------- MODULE InsightsProofs ----------------------------
(***************************************************************************)
(* Proofs about Insights, for every contract of sheets and columns, every  *)
(* number of reports and rows, and all limits.                             *)
(***************************************************************************)
EXTENDS Insights, FiniteSetTheorems, SequenceTheorems, WellFoundedInduction, TLAPS

\* What the row at position i says, by position: its cells, numbers, dimensions
\* and period.
C(i) == Cells(rows[i])

Ns(i) == DOMAIN C(i) \cap NumericFields

Ds(i) == DOMAIN C(i) \cap DimensionFields

P(i) == IF "period" \in DOMAIN C(i) THEN C(i)["period"] ELSE Null

Sh(i) == rows[i].sheet

\* The state apart from the accumulator.
BaseInv ==
    /\ conf \in Configurations /\ Valid(conf)
    /\ rows \in Seq(Rows(conf.type))
    /\ status \in {"profile", "rows", "ready", "rendered", "failed"}

\* No row is refused by itself.
CleanInv ==
    /\ \A i \in DOMAIN rows : Sh(i) \in Sheets
    /\ \A i \in Read :
         /\ \A f \in DOMAIN C(i) : C(i)[f] \notin {Text, Long}
         /\ Ns(i) # {} => "period" \in DOMAIN C(i)
         /\ OutflowField(conf.type) \in Ns(i) => OutflowDimensions(conf.type) \subseteq Ds(i)

\* The keys of the measures are those of the rows; a measure of a period is
\* given by one sheet, and a point-in-time measure has one value.
OwnerInv ==
    /\ \A key : key \in DOMAIN acc.owner <=>
         \E i \in Read : \E f \in Ns(i) : key = <<f, P(i)>>
    /\ \A i \in Read : \A f \in Ns(i) : acc.owner[<<f, P(i)>>] = Sh(i)
    /\ DOMAIN acc.by_period = DOMAIN acc.owner
    /\ \A k \in DOMAIN acc.by_period : acc.by_period[k] \in Int
    /\ \A i \in Read : \A f \in Ns(i) \cap NonAdditive : acc.by_period[<<f, P(i)>>] = C(i)[f]

\* The labels of each dimension.
LabelInv ==
    \A d \in DimensionFields :
       \A v : v \in acc.unique[d] <=> \E i \in Read : d \in Ds(i) /\ v = C(i)[d]

\* The keys of the aggregated amounts.
PointInv ==
    \A key : key \in DOMAIN acc.points <=>
       \E i \in Read : \E a \in DimensionAggregations(conf.type) :
          a[1] \in DOMAIN C(i) /\ a[2] \in DOMAIN C(i) /\ key = <<a[1], a[2], P(i), C(i)[a[2]]>>

StatusRows == {i \in Read : "status" \in DOMAIN C(i)}

\* The limits are kept.
BoundInv ==
    /\ IsFiniteSet(DOMAIN acc.by_period)
    /\ \A f \in NumericFields :
         Cardinality({k \in DOMAIN acc.by_period : k[1] = f}) <= MaxPeriods
    /\ \A d \in DimensionFields :
         IsFiniteSet(acc.unique[d]) /\ Cardinality(acc.unique[d]) <= MaxDimensionValues
    /\ IsFiniteSet(DOMAIN acc.points) /\ Cardinality(DOMAIN acc.points) <= MaxPoints
    /\ acc.statuses \in Seq([period : Nat \cup {Null}, row : Nat])
    /\ Len(acc.statuses) = Cardinality(StatusRows)
    /\ Len(acc.statuses) <= MaxStatusUpdates

AccInv == CleanInv /\ OwnerInv /\ LabelInv /\ PointInv /\ BoundInv

-----------------------------------------------------------------------------
(***************************************************************************)
(* Cardinalities.                                                          *)
(***************************************************************************)

\* A function with different values has as many of them as arguments.
LEMMA ImageCardinality ==
    ASSUME NEW g, NEW S, g = [x \in S |-> g[x]], IsFiniteSet(S),
           \A x, y \in S : g[x] = g[y] => x = y
    PROVE  /\ IsFiniteSet({g[x] : x \in S})
           /\ Cardinality({g[x] : x \in S}) = Cardinality(S)
<1> DEFINE T == {g[x] : x \in S}
<1>1. g \in Bijection(S, T)
  BY DEF Bijection, Injection, Surjection, IsInjective
<1>2. ExistsBijection(S, T)
  BY <1>1 DEF ExistsBijection
<1> HIDE DEF T
<1>3. IsFiniteSet(T) /\ Cardinality(T) = Cardinality(S)
  BY <1>2, FS_Bijection
<1> QED
  BY <1>3 DEF T

\* The values of a function on a finite set.
LEMMA ImageFinite ==
    ASSUME NEW g, NEW S, g = [x \in S |-> g[x]], IsFiniteSet(S)
    PROVE  IsFiniteSet({g[x] : x \in S})
<1> DEFINE T == {g[x] : x \in S}
<1>1. g \in Surjection(S, T)
  BY DEF Surjection
<1> HIDE DEF T
<1>2. IsFiniteSet(T)
  BY <1>1, FS_Surjection
<1> QED
  BY <1>2 DEF T

\* There are as many periods of a field as keys of it.
LEMMA PeriodCardinality ==
    ASSUME NEW Q, NEW K, NEW f, IsFiniteSet(K), \A k : k \in K <=> \E p \in Q : k = <<f, p>>
    PROVE  Cardinality(Q) = Cardinality(K)
<1> DEFINE g == [k \in K |-> k[2]]
<1>1. \A x, y \in K : g[x] = g[y] => x = y
  OBVIOUS
<1>2. {g[x] : x \in K} = Q
  <2>1. \A p \in Q : <<f, p>> \in K /\ g[<<f, p>>] = p
    OBVIOUS
  <2>2. \A x \in K : g[x] \in Q
    OBVIOUS
  <2> HIDE DEF g
  <2> QED
    BY <2>1, <2>2
<1>3. g = [x \in K |-> g[x]]
  OBVIOUS
<1> HIDE DEF g
<1>4. Cardinality({g[x] : x \in K}) = Cardinality(K)
  BY <1>1, <1>3, ImageCardinality
<1> QED
  BY <1>2, <1>4

\* And as many points of a field as keys of it.
LEMMA PointCardinality ==
    ASSUME NEW Q, NEW K, NEW f, IsFiniteSet(K), \A x \in Q : x = <<x[1], x[2], x[3]>>,
           \A k : k \in K <=> \E x \in Q : k = <<f, x[1], x[2], x[3]>>
    PROVE  Cardinality(Q) = Cardinality(K)
<1> DEFINE g == [k \in K |-> <<k[2], k[3], k[4]>>]
<1>1. \A x, y \in K : g[x] = g[y] => x = y
  OBVIOUS
<1>2. {g[x] : x \in K} = Q
  <2>1. \A x \in Q : <<f, x[1], x[2], x[3]>> \in K /\ g[<<f, x[1], x[2], x[3]>>] = x
    OBVIOUS
  <2>2. \A x \in K : g[x] \in Q
    OBVIOUS
  <2> HIDE DEF g
  <2> QED
    BY <2>1, <2>2
<1>3. g = [x \in K |-> g[x]]
  OBVIOUS
<1> HIDE DEF g
<1>4. Cardinality({g[x] : x \in K}) = Cardinality(K)
  BY <1>1, <1>3, ImageCardinality, SMTT(30)
<1> QED
  BY <1>2, <1>4

\* The fields of the contract are finitely many.
LEMMA FieldsFinite == IsFiniteSet(NumericFields) /\ IsFiniteSet(DimensionFields)
<1>1. IsFiniteSet({"location"} \cup {"category"} \cup {"department"} \cup {"vendor"})
  BY FS_Singleton, FS_Union
<1>2. IsFiniteSet({"expenses"} \cup {"revenue"} \cup {"net_cash"} \cup {"gross_margin"})
  BY FS_Singleton, FS_Union
<1>3. IsFiniteSet({"spend"} \cup {"cash_balance"} \cup {"budget"})
  BY FS_Singleton, FS_Union
<1>4. DimensionFields = {"location"} \cup {"category"} \cup {"department"} \cup {"vendor"}
  BY DEF DimensionFields
<1>5. NumericFields = ({"expenses"} \cup {"revenue"} \cup {"net_cash"} \cup {"gross_margin"})
                      \cup ({"spend"} \cup {"cash_balance"} \cup {"budget"})
  BY DEF NumericFields
<1> QED
  BY <1>1, <1>2, <1>3, <1>4, <1>5, FS_Union

-----------------------------------------------------------------------------
(***************************************************************************)
(* Rows.                                                                   *)
(***************************************************************************)

\* What the contract says of a mapped row.
LEMMA RowFacts ==
    ASSUME BaseInv, NEW row \in Rows(conf.type), Mapped(row)
    PROVE  /\ conf.type \in Types
           /\ \A f \in DOMAIN Cells(row) : Cells(row)[f] # Null
           /\ DOMAIN Cells(row) \subseteq {"period", "status"} \cup Numbers(row) \cup Dimensions(row)
           /\ Numbers(row) \subseteq RequiredNumeric(conf.type)
           /\ Dimensions(row) \subseteq OutflowDimensions(conf.type)
           /\ \A f \in Numbers(row) : Cells(row)[f] \in Int \cup {Text}
           /\ \A d \in Dimensions(row) : Cells(row)[d] # Text
           /\ HasPeriod(row) => Period(row) \in Nat \cup {Long}
<1>1. conf.type \in Types
  BY InsightsAssumption DEF BaseInv
<1>2. \A f \in DOMAIN Cells(row) : /\ f \in DOMAIN row.cells /\ f \in conf.columns[row.sheet]
                                   /\ Cells(row)[f] = row.cells[f] /\ row.cells[f] # Null
  BY DEF Cells
<1>3. conf.columns[row.sheet] \subseteq
         {"period"} \cup RequiredNumeric(conf.type) \cup OutflowDimensions(conf.type) \cup {"status"}
  BY DEF BaseInv, Valid, Mapped
<1>4. OutflowDimensions(conf.type) \cap NumericFields = {} /\ "period" \notin NumericFields
      /\ "status" \notin NumericFields /\ "period" \notin DimensionFields
      /\ "status" \notin DimensionFields /\ RequiredNumeric(conf.type) \cap DimensionFields = {}
  BY <1>1 DEF OutflowDimensions, NumericFields, DimensionFields, RequiredNumeric, Types
<1>5. \A f \in DOMAIN row.cells :
         /\ f \in NumericFields => row.cells[f] \in Int \cup {Null, Text}
         /\ f \in DimensionFields => row.cells[f] # Text
         /\ f = "period" => row.cells[f] \in Nat \cup {Null, Long}
  BY <1>1, InsightsAssumption
<1>6. Numbers(row) \subseteq RequiredNumeric(conf.type)
      /\ Dimensions(row) \subseteq OutflowDimensions(conf.type)
  BY <1>2, <1>3, <1>4 DEF Numbers, Dimensions
<1>7. \A f \in Numbers(row) : Cells(row)[f] \in Int \cup {Text}
  BY <1>2, <1>5 DEF Numbers
<1>8. \A d \in Dimensions(row) : Cells(row)[d] # Text
  BY <1>2, <1>5 DEF Dimensions
<1>9. HasPeriod(row) => Period(row) \in Nat \cup {Long}
  BY <1>2, <1>5 DEF HasPeriod, Period
<1>10. /\ RequiredNumeric(conf.type) \subseteq NumericFields
       /\ OutflowDimensions(conf.type) \subseteq DimensionFields
  BY <1>1 DEF OutflowDimensions, NumericFields, DimensionFields, RequiredNumeric, Types
<1>11. DOMAIN Cells(row) \subseteq {"period", "status"} \cup Numbers(row) \cup Dimensions(row)
  BY <1>2, <1>3, <1>10 DEF Numbers, Dimensions
<1> QED
  BY <1>1, <1>2, <1>6, <1>7, <1>8, <1>9, <1>11

\* The rows after one more has been read.
LEMMA RowAppended ==
    ASSUME BaseInv, NEW row \in Rows(conf.type), rows' = Append(rows, row), UNCHANGED conf,
           NEW n, n = Len(rows) + 1
    PROVE  /\ n \in Nat \ {0} /\ n \notin DOMAIN rows /\ DOMAIN rows' = DOMAIN rows \cup {n}
           /\ \A i \in DOMAIN rows : /\ C(i)' = C(i) /\ Sh(i)' = Sh(i) /\ Ns(i)' = Ns(i)
                                     /\ Ds(i)' = Ds(i) /\ P(i)' = P(i)
           /\ C(n)' = Cells(row) /\ Sh(n)' = row.sheet /\ Ns(n)' = Numbers(row)
           /\ Ds(n)' = Dimensions(row) /\ P(n)' = Period(row)
           /\ Read' = IF Mapped(row) THEN Read \cup {n} ELSE Read
<1>1. /\ n \in Nat \ {0} /\ n \notin DOMAIN rows /\ DOMAIN rows' = DOMAIN rows \cup {n}
      /\ rows'[n] = row /\ \A i \in DOMAIN rows : rows'[i] = rows[i]
  BY DEF BaseInv
<1>2. \A i \in DOMAIN rows : C(i)' = C(i) /\ Sh(i)' = Sh(i)
  BY <1>1 DEF C, Cells, Sh
<1>3. \A i \in DOMAIN rows : Ns(i)' = Ns(i) /\ Ds(i)' = Ds(i) /\ P(i)' = P(i)
  BY <1>2 DEF Ns, Ds, P
<1>4. C(n)' = Cells(row) /\ Sh(n)' = row.sheet
  BY <1>1 DEF C, Cells, Sh
<1>5. Ns(n)' = Numbers(row) /\ Ds(n)' = Dimensions(row) /\ P(n)' = Period(row)
  BY <1>4 DEF Ns, Ds, P, Numbers, Dimensions, Period, HasPeriod
<1>6. Read' = IF Mapped(row) THEN Read \cup {n} ELSE Read
  BY <1>1 DEF Read, Mapped
<1> QED
  BY <1>1, <1>2, <1>3, <1>4, <1>5, <1>6

\* What the contract says of the rows that count.
LEMMA ReadFacts ==
    ASSUME BaseInv, NEW i \in Read
    PROVE  /\ conf.type \in Types
           /\ \A f \in DOMAIN C(i) : C(i)[f] # Null
           /\ DOMAIN C(i) \subseteq {"period", "status"} \cup Ns(i) \cup Ds(i)
           /\ Ns(i) \subseteq RequiredNumeric(conf.type)
           /\ Ds(i) \subseteq OutflowDimensions(conf.type)
           /\ \A f \in Ns(i) : C(i)[f] \in Int \cup {Text}
           /\ "period" \in DOMAIN C(i) => P(i) \in Nat \cup {Long}
<1>1. rows[i] \in Rows(conf.type) /\ Mapped(rows[i])
  BY DEF BaseInv, Read
<1> QED
  BY <1>1, RowFacts DEF C, Ns, Ds, P, Numbers, Dimensions, HasPeriod, Period

-----------------------------------------------------------------------------
(***************************************************************************)
(* The verdict.                                                            *)
(***************************************************************************)

\* Consistent, by position.
SoundRows ==
    /\ \A i \in DOMAIN rows : Sh(i) \in Sheets
    /\ \A i \in Read :
         /\ \A f \in DOMAIN C(i) : C(i)[f] \notin {Text, Long}
         /\ Ns(i) # {} => "period" \in DOMAIN C(i)
         /\ OutflowField(conf.type) \in Ns(i) => OutflowDimensions(conf.type) \subseteq Ds(i)

PeriodSet(f) == {p \in AllPeriods : Giving(f, p) # {}}

OneSource ==
    \A f \in RequiredNumeric(conf.type) : \A i, j \in Read :
       f \in Ns(i) /\ f \in Ns(j) /\ P(i) = P(j) /\ P(i) # Null =>
          Sh(i) = Sh(j) /\ (f \in NonAdditive => C(i)[f] = C(j)[f])

WithinLimits ==
    /\ \A f \in RequiredNumeric(conf.type) : Cardinality(PeriodSet(f)) <= MaxPeriods
    /\ \A d \in DimensionFields : Cardinality(Labels(d)) <= MaxDimensionValues
    /\ Cardinality(Points) <= MaxPoints
    /\ Cardinality(StatusRows) <= MaxStatusUpdates

LEMMA ConsistentByPosition ==
    /\ Consistent <=> SoundRows /\ OneSource /\ WithinLimits
    /\ Consistent' <=> SoundRows' /\ OneSource' /\ WithinLimits'
<1> USE DEF Value, Numbers, Dimensions, HasPeriod, Period, C, Ns, Ds, P, Sh
<1> DEFINE Sources == \A f \in RequiredNumeric(conf.type), p \in AllPeriods :
             \A i, j \in Giving(f, p) :
                /\ rows[i].sheet = rows[j].sheet
                /\ f \in NonAdditive => Value(i, f) = Value(j, f)
<1>1. Sources <=> OneSource
  BY DEF OneSource, Giving, AllPeriods
<1>2. Sources' <=> OneSource'
  BY DEF OneSource, Giving, AllPeriods
<1>3. Consistent <=> SoundRows /\ Sources /\ WithinLimits
  BY DEF Consistent, SoundRows, WithinLimits, PeriodSet, StatusRows
<1>4. Consistent' <=> SoundRows' /\ Sources' /\ WithinLimits'
  BY DEF Consistent, SoundRows, WithinLimits, PeriodSet, StatusRows
<1> QED
  BY <1>1, <1>2, <1>3, <1>4

\* Periods, labels and points, by position.
SetsByPosition ==
    /\ \A f, p : p \in PeriodSet(f) <=> p # Null /\ \E i \in Read : f \in Ns(i) /\ P(i) = p
    /\ \A d, v : v \in Labels(d) <=> \E i \in Read : d \in Ds(i) /\ v = C(i)[d]
    /\ \A x : x \in Points <=>
          \E i \in Read : \E a \in DimensionAggregations(conf.type) :
             a[1] \in DOMAIN C(i) /\ a[2] \in DOMAIN C(i) /\ x = <<a[2], P(i), C(i)[a[2]]>>

LEMMA SetsByPositionHold == SetsByPosition /\ SetsByPosition'
<1> USE DEF Value, Numbers, Dimensions, HasPeriod, Period, C, Ns, Ds, P
<1>1. SetsByPosition
  <2>1. \A f, p : p \in PeriodSet(f) <=> p # Null /\ \E i \in Read : f \in Ns(i) /\ P(i) = p
    BY DEF PeriodSet, AllPeriods, Giving
  <2>2. \A d, v : v \in Labels(d) <=> \E i \in Read : d \in Ds(i) /\ v = C(i)[d]
    BY DEF Labels
  <2> QED
    BY <2>1, <2>2 DEF SetsByPosition, Points
<1>2. SetsByPosition'
  <2>1. (\A f, p : p \in PeriodSet(f) <=> p # Null /\ \E i \in Read : f \in Ns(i) /\ P(i) = p)'
    BY DEF PeriodSet, AllPeriods, Giving
  <2>2. (\A d, v : v \in Labels(d) <=> \E i \in Read : d \in Ds(i) /\ v = C(i)[d])'
    BY DEF Labels
  <2> QED
    BY <2>1, <2>2 DEF SetsByPosition, Points
<1> QED
  BY <1>1, <1>2

\* What a type of dashboard aggregates: its outflow field, by its dimensions.
LEMMA Contract ==
    ASSUME NEW type \in Types
    PROVE  /\ OutflowField(type) \in RequiredNumeric(type) \ NonAdditive
           /\ RequiredNumeric(type) \subseteq NumericFields
           /\ OutflowDimensions(type) \subseteq DimensionFields
           /\ NumericFields \cap DimensionFields = {}
           /\ \A a : a \in DimensionAggregations(type) <=>
                \E d \in OutflowDimensions(type) : a = <<OutflowField(type), d>>
           /\ "period" \notin NumericFields \cup DimensionFields
           /\ "status" \notin NumericFields \cup DimensionFields
BY DEF Types, OutflowField, RequiredNumeric, NonAdditive, OutflowDimensions, DimensionAggregations,
       NumericFields, DimensionFields

\* What is accumulated has been given by consistent rows.
LEMMA AcceptedConsistent ==
    ASSUME BaseInv, AccInv
    PROVE  Consistent
<1>1. SoundRows
  BY DEF AccInv, CleanInv, SoundRows
<1>2. OneSource
  <2> SUFFICES ASSUME NEW f, NEW i \in Read, NEW j \in Read,
                      f \in Ns(i), f \in Ns(j), P(i) = P(j)
               PROVE  Sh(i) = Sh(j) /\ (f \in NonAdditive => C(i)[f] = C(j)[f])
    BY DEF OneSource
  <2>1. Sh(i) = acc.owner[<<f, P(i)>>] /\ Sh(j) = acc.owner[<<f, P(j)>>]
    BY DEF AccInv, OwnerInv
  <2>2. f \in NonAdditive =>
           C(i)[f] = acc.by_period[<<f, P(i)>>] /\ C(j)[f] = acc.by_period[<<f, P(j)>>]
    BY DEF AccInv, OwnerInv
  <2> QED
    BY <2>1, <2>2
<1>3. ASSUME NEW f \in RequiredNumeric(conf.type) PROVE Cardinality(PeriodSet(f)) <= MaxPeriods
  <2>0. f \in NumericFields
    BY Contract, InsightsAssumption DEF BaseInv
  <2> DEFINE K == {k \in DOMAIN acc.by_period : k[1] = f}
  <2>1. \A k : k \in K <=> \E i \in Read : f \in Ns(i) /\ k = <<f, P(i)>>
    BY DEF AccInv, OwnerInv
  <2>2. \A i \in Read : f \in Ns(i) => P(i) # Null
    BY <2>0, ReadFacts DEF AccInv, CleanInv, P
  <2>3. IsFiniteSet(K) /\ Cardinality(K) <= MaxPeriods
    BY <2>0, FS_Subset DEF AccInv, BoundInv
  <2> HIDE DEF K
  <2>4. \A p : p \in PeriodSet(f) <=> p # Null /\ \E i \in Read : f \in Ns(i) /\ P(i) = p
    BY SetsByPositionHold DEF SetsByPosition
  <2>5. \A k : k \in K <=> \E p \in PeriodSet(f) : k = <<f, p>>
    BY <2>1, <2>2, <2>4
  <2>6. Cardinality(PeriodSet(f)) = Cardinality(K)
    BY <2>3, <2>5, PeriodCardinality
  <2> QED
    BY <2>3, <2>6
<1>4. ASSUME NEW d \in DimensionFields PROVE Cardinality(Labels(d)) <= MaxDimensionValues
  <2>1. Labels(d) = acc.unique[d]
    <3>1. \A v : v \in Labels(d) <=> \E i \in Read : d \in Ds(i) /\ v = C(i)[d]
      BY SetsByPositionHold DEF SetsByPosition
    <3>2. \A v : v \in acc.unique[d] <=> \E i \in Read : d \in Ds(i) /\ v = C(i)[d]
      BY DEF AccInv, LabelInv
    <3> QED
      BY <3>1, <3>2
  <2> QED
    BY <2>1 DEF AccInv, BoundInv
<1>5. Cardinality(Points) <= MaxPoints
  <2> DEFINE K == DOMAIN acc.points
  <2>1. \A k : k \in K <=>
           \E i \in Read : \E a \in DimensionAggregations(conf.type) :
              a[1] \in DOMAIN C(i) /\ a[2] \in DOMAIN C(i) /\ k = <<a[1], a[2], P(i), C(i)[a[2]]>>
    BY DEF AccInv, PointInv
  <2>2. IsFiniteSet(K) /\ Cardinality(K) <= MaxPoints
    BY DEF AccInv, BoundInv
  <2> HIDE DEF K
  <2>3. \A x : x \in Points <=>
           \E i \in Read : \E a \in DimensionAggregations(conf.type) :
              a[1] \in DOMAIN C(i) /\ a[2] \in DOMAIN C(i) /\ x = <<a[2], P(i), C(i)[a[2]]>>
    BY SetsByPositionHold DEF SetsByPosition
  <2>4. \A a \in DimensionAggregations(conf.type) : a[1] = OutflowField(conf.type)
    BY Contract, InsightsAssumption DEF BaseInv
  <2>5. \A x \in Points : x = <<x[1], x[2], x[3]>>
    BY <2>3
  <2>6. \A k : k \in K <=> \E x \in Points : k = <<OutflowField(conf.type), x[1], x[2], x[3]>>
    <3>1. ASSUME NEW k \in K PROVE \E x \in Points : k = <<OutflowField(conf.type), x[1], x[2], x[3]>>
      <4>1. PICK i \in Read, a \in DimensionAggregations(conf.type) :
              a[1] \in DOMAIN C(i) /\ a[2] \in DOMAIN C(i) /\ k = <<a[1], a[2], P(i), C(i)[a[2]]>>
        BY <2>1
      <4>2. <<a[2], P(i), C(i)[a[2]]>> \in Points
        BY <2>3, <4>1
      <4> QED
        BY <2>4, <4>1, <4>2
    <3>2. ASSUME NEW x \in Points PROVE <<OutflowField(conf.type), x[1], x[2], x[3]>> \in K
      <4>1. PICK i \in Read, a \in DimensionAggregations(conf.type) :
              a[1] \in DOMAIN C(i) /\ a[2] \in DOMAIN C(i) /\ x = <<a[2], P(i), C(i)[a[2]]>>
        BY <2>3
      <4>2. <<a[1], a[2], P(i), C(i)[a[2]]>> \in K
        BY <2>1, <4>1
      <4> QED
        BY <2>4, <4>1, <4>2
    <3> QED
      BY <3>1, <3>2
  <2>7. Cardinality(Points) = Cardinality(K)
    BY <2>2, <2>5, <2>6, PointCardinality
  <2> QED
    BY <2>2, <2>7
<1>6. Cardinality(StatusRows) <= MaxStatusUpdates
  BY DEF AccInv, BoundInv
<1> QED
  BY <1>1, <1>2, <1>3, <1>4, <1>5, <1>6, ConsistentByPosition DEF WithinLimits

\* The row can be accepted: it is sound and agrees with what is accumulated.
NumberFits(row, f) ==
    /\ Cells(row)[f] # Text
    /\ HasPeriod(row)
    /\ <<f, Period(row)>> \in DOMAIN acc.owner => acc.owner[<<f, Period(row)>>] = row.sheet
    /\ f = OutflowField(conf.type) => OutflowDimensions(conf.type) \subseteq Dimensions(row)
    /\ f \in NonAdditive /\ <<f, Period(row)>> \in DOMAIN acc.by_period =>
          acc.by_period[<<f, Period(row)>>] = Cells(row)[f]
    /\ ~(Cardinality({k \in DOMAIN acc.by_period \cup {<<f, Period(row)>>} : k[1] = f}) > MaxPeriods)
    /\ f \in {a[1] : a \in Aggregated(row)} =>
          ~(Cardinality(DOMAIN acc.points \cup DOMAIN AddedPoints(row)) > MaxPoints)

RowFits(row) ==
    /\ \A f \in DOMAIN Cells(row) \cap ({"period"} \cup DimensionFields) : Cells(row)[f] # Long
    /\ \A d \in Dimensions(row) :
         ~(Cardinality(acc.unique[d] \cup {Cells(row)[d]}) > MaxDimensionValues)
    /\ \A f \in Numbers(row) : NumberFits(row, f)
    /\ "status" \in DOMAIN Cells(row) =>
         ~(Len(acc.statuses) >= MaxStatusUpdates) /\ Cells(row)["status"] \notin {Text, Long}

\* observe raises no error exactly when the row fits, whichever error it meets first.
LEMMA FitsIffNoError ==
    ASSUME NEW row
    PROVE  RowErrors(row) = {} <=> RowFits(row)
<1>1. LabelErrors(row) = {} <=>
        /\ \A f \in DOMAIN Cells(row) \cap ({"period"} \cup DimensionFields) : Cells(row)[f] # Long
        /\ \A d \in Dimensions(row) :
             ~(Cardinality(acc.unique[d] \cup {Cells(row)[d]}) > MaxDimensionValues)
  <2> DEFINE A == {g \in DOMAIN Cells(row) \cap ({"period"} \cup DimensionFields) : Cells(row)[g] = Long}
  <2>1. LabelErrors(row) = {} <=> A = {} /\ Crowded(row) = {}
    BY DEF LabelErrors
  <2> QED
    BY <2>1 DEF Crowded
<1>2. ASSUME NEW f PROVE NumberError(row, f) = "none" <=> NumberFits(row, f)
  BY DEF NumberError, NumberFits, NoDecimal, Overlaps
<1>3. NumberErrors(row) = {} <=> \A f \in Numbers(row) : NumberFits(row, f)
  BY <1>2 DEF NumberErrors
<1>4. StatusErrors(row) = {} <=>
        ("status" \in DOMAIN Cells(row) =>
           ~(Len(acc.statuses) >= MaxStatusUpdates) /\ Cells(row)["status"] \notin {Text, Long})
  BY DEF StatusErrors, NoDecimal
<1> QED
  BY <1>1, <1>3, <1>4 DEF RowErrors, RowFits

-----------------------------------------------------------------------------
(***************************************************************************)
(* What observe does to the accumulator.                                   *)
(***************************************************************************)

NewKeys(row) == {<<f, Period(row)>> : f \in Numbers(row)}

NewPoints(row) == {<<a[1], a[2], Period(row), Cells(row)[a[2]]>> : a \in Aggregated(row)}

LEMMA PlusMaps ==
    ASSUME NEW map, NEW more
    PROVE  /\ DOMAIN Plus(map, more) = DOMAIN map \cup DOMAIN more
           /\ \A k \in DOMAIN map \cup DOMAIN more : Plus(map, more)[k] = At(map, k) + At(more, k)
BY DEF Plus

\* Amounts are aggregated whenever the row gives them with their dimension.
LEMMA AggregatedFields ==
    ASSUME BaseInv, NEW row
    PROVE  Aggregated(row) = {a \in DimensionAggregations(conf.type) :
                                a[1] \in DOMAIN Cells(row) /\ a[2] \in DOMAIN Cells(row)}
<1>1. conf.type \in Types
  BY InsightsAssumption DEF BaseInv
<1>2. \A a \in DimensionAggregations(conf.type) :
         a[1] \in NumericFields \ NonAdditive /\ a[2] \in DimensionFields
  BY <1>1, Contract
<1> QED
  BY <1>2 DEF Aggregated, Counted, Numbers, Dimensions

LEMMA ObservedKeys ==
    ASSUME NEW row
    PROVE  /\ Observed(row).owner =
                [k \in DOMAIN acc.owner \cup NewKeys(row) |->
                   IF k \in DOMAIN acc.owner THEN acc.owner[k] ELSE row.sheet]
           /\ Observed(row).by_period = Plus(acc.by_period, AddedByPeriod(row))
           /\ DOMAIN AddedByPeriod(row) \subseteq NewKeys(row)
           /\ NewKeys(row) \subseteq DOMAIN acc.by_period \cup DOMAIN AddedByPeriod(row)
           /\ \A k \in DOMAIN AddedByPeriod(row) :
                /\ k[1] \in Numbers(row) /\ AddedByPeriod(row)[k] = Cells(row)[k[1]]
                /\ k[1] \in NonAdditive => k \notin DOMAIN acc.by_period
           /\ Observed(row).points = Plus(acc.points, AddedPoints(row))
           /\ DOMAIN AddedPoints(row) = NewPoints(row)
           /\ Observed(row).unique = [d \in DimensionFields |->
                acc.unique[d] \cup IF d \in Dimensions(row) THEN {Cells(row)[d]} ELSE {}]
           /\ Observed(row).statuses = IF "status" \in DOMAIN Cells(row)
                THEN Append(acc.statuses, [period |-> Period(row), row |-> Len(rows) + 1])
                ELSE acc.statuses
<1>1. /\ Observed(row).owner =
                [k \in DOMAIN acc.owner \cup NewKeys(row) |->
                   IF k \in DOMAIN acc.owner THEN acc.owner[k] ELSE row.sheet]
      /\ Observed(row).by_period = Plus(acc.by_period, AddedByPeriod(row))
      /\ Observed(row).points = Plus(acc.points, AddedPoints(row))
      /\ Observed(row).unique = [d \in DimensionFields |->
                acc.unique[d] \cup IF d \in Dimensions(row) THEN {Cells(row)[d]} ELSE {}]
      /\ Observed(row).statuses = IF "status" \in DOMAIN Cells(row)
                THEN Append(acc.statuses, [period |-> Period(row), row |-> Len(rows) + 1])
                ELSE acc.statuses
  BY DEF Observed, NewKeys
<1>2. /\ DOMAIN AddedByPeriod(row) \subseteq NewKeys(row)
      /\ NewKeys(row) \subseteq DOMAIN acc.by_period \cup DOMAIN AddedByPeriod(row)
  BY DEF AddedByPeriod, NewKeys, Counted
<1>3. \A k \in DOMAIN AddedByPeriod(row) :
         /\ k[1] \in Numbers(row) /\ AddedByPeriod(row)[k] = Cells(row)[k[1]]
         /\ k[1] \in NonAdditive => k \notin DOMAIN acc.by_period
  <2> SUFFICES ASSUME NEW k \in DOMAIN AddedByPeriod(row)
               PROVE  /\ k[1] \in Numbers(row) /\ AddedByPeriod(row)[k] = Cells(row)[k[1]]
                      /\ k[1] \in NonAdditive => k \notin DOMAIN acc.by_period
    OBVIOUS
  <2>1. PICK f \in Counted(row) : k = <<f, Period(row)>>
    BY DEF AddedByPeriod
  <2>2. f \in Numbers(row) /\ (f \in NonAdditive => k \notin DOMAIN acc.by_period)
    BY <2>1 DEF Counted
  <2>3. AddedByPeriod(row)[k] = Cells(row)[k[1]]
    BY <2>1 DEF AddedByPeriod
  <2> QED
    BY <2>1, <2>2, <2>3
<1>4. DOMAIN AddedPoints(row) = NewPoints(row)
  BY DEF AddedPoints, NewPoints
<1> QED
  BY <1>1, <1>2, <1>3, <1>4

\* What is known of a mapped row that fits.
LEMMA FittingRow ==
    ASSUME BaseInv, NEW row \in Rows(conf.type), Mapped(row), RowFits(row)
    PROVE  /\ \A f \in DOMAIN Cells(row) : Cells(row)[f] \notin {Text, Long, Null}
           /\ \A f \in Numbers(row) : Cells(row)[f] \in Int
           /\ Numbers(row) # {} => HasPeriod(row)
           /\ HasPeriod(row) => Period(row) \in Nat
           /\ OutflowField(conf.type) \in Numbers(row) =>
                OutflowDimensions(conf.type) \subseteq Dimensions(row)
           /\ ~HasPeriod(row) => Period(row) = Null
<1>0. /\ Null # Text /\ Null # Long /\ Text # Long
      /\ Null \notin Int /\ Text \notin Int /\ Long \notin Int
  BY InsightsAssumption
<1>1. \A f \in Numbers(row) : Cells(row)[f] \in Int
  BY RowFacts DEF RowFits, NumberFits
<1>2. HasPeriod(row) => Period(row) \in Nat /\ Cells(row)["period"] = Period(row)
  BY RowFacts DEF RowFits, HasPeriod, Period
<1>3. \A d \in Dimensions(row) : Cells(row)[d] \notin {Text, Long}
  BY RowFacts DEF RowFits, Dimensions
<1>4. \A f \in DOMAIN Cells(row) : Cells(row)[f] # Null
  BY RowFacts
<1>5. ASSUME NEW f \in DOMAIN Cells(row) PROVE Cells(row)[f] \notin {Text, Long}
  <2>1. f = "period" \/ f = "status" \/ f \in Numbers(row) \/ f \in Dimensions(row)
    BY RowFacts
  <2>2. CASE f = "period"
    BY <1>0, <1>2, <2>2 DEF HasPeriod
  <2>3. CASE f = "status"
    BY <2>3 DEF RowFits
  <2> QED
    BY <1>0, <1>1, <1>3, <2>1, <2>2, <2>3
<1> QED
  BY <1>1, <1>2, <1>4, <1>5 DEF RowFits, NumberFits, Period

\* A mapped row is read, as the n-th; and it is accepted.
Reads(row, n) ==
    /\ BaseInv /\ AccInv
    /\ row \in Rows(conf.type) /\ Mapped(row) /\ row.sheet \in Sheets
    /\ n = Len(rows) + 1
    /\ rows' = Append(rows, row)
    /\ UNCHANGED conf

Accepts(row, n) == Reads(row, n) /\ RowFits(row) /\ acc' = Observed(row)

\* The rows that count, and what they say, with the new one.
OneMore(row, n) ==
    /\ n \notin Read /\ Read' = Read \cup {n}
    /\ \A i \in Read : /\ C(i)' = C(i) /\ Sh(i)' = Sh(i) /\ Ns(i)' = Ns(i)
                       /\ Ds(i)' = Ds(i) /\ P(i)' = P(i)
    /\ C(n)' = Cells(row) /\ Sh(n)' = row.sheet /\ Ns(n)' = Numbers(row)
    /\ Ds(n)' = Dimensions(row) /\ P(n)' = Period(row)

LEMMA ReadsOneMore ==
    ASSUME NEW row, NEW n, Reads(row, n)
    PROVE  /\ OneMore(row, n) /\ n \in Nat /\ IsFiniteSet(Read)
           /\ DOMAIN rows' = DOMAIN rows \cup {n}
           /\ \A i \in DOMAIN rows : Sh(i)' = Sh(i)
<1>1. Read \subseteq DOMAIN rows
  BY DEF Read
<1>2. DOMAIN rows = 1..Len(rows) /\ Len(rows) \in Nat
  BY DEF Reads, BaseInv
<1>3. IsFiniteSet(Read)
  <2>1. IsFiniteSet(1..Len(rows))
    BY <1>2, FS_Interval
  <2> QED
    BY <1>1, <1>2, <2>1, FS_Subset
<1> QED
  BY <1>1, <1>3, RowAppended DEF OneMore, Reads

\* The accepted row is sound.
LEMMA AcceptClean ==
    ASSUME NEW row, NEW n, Accepts(row, n)
    PROVE  CleanInv'
<1> USE DEF Accepts, Reads
<1>1. OneMore(row, n) /\ DOMAIN rows' = DOMAIN rows \cup {n} /\ \A i \in DOMAIN rows : Sh(i)' = Sh(i)
  BY ReadsOneMore
<1>2. \A i \in DOMAIN rows' : Sh(i)' \in Sheets
  BY <1>1 DEF AccInv, CleanInv, OneMore
<1>3. ASSUME NEW i \in Read'
      PROVE  /\ \A f \in DOMAIN C(i)' : C(i)'[f] \notin {Text, Long}
             /\ Ns(i)' # {} => "period" \in DOMAIN C(i)'
             /\ OutflowField(conf.type) \in Ns(i)' => OutflowDimensions(conf.type) \subseteq Ds(i)'
  <2>1. CASE i = n
    BY <1>1, <2>1, FittingRow DEF HasPeriod, OneMore
  <2>2. CASE i \in Read
    BY <1>1, <2>2 DEF AccInv, CleanInv, OneMore
  <2> QED
    BY <1>1, <2>1, <2>2 DEF OneMore
<1> QED
  BY <1>2, <1>3 DEF CleanInv

\* Its measures are new, or agree with those of its sheet.
LEMMA AcceptOwner ==
    ASSUME NEW row, NEW n, Accepts(row, n)
    PROVE  OwnerInv'
<1> USE DEF Accepts, Reads
<1>1. OneMore(row, n)
  BY ReadsOneMore
<1>2. /\ acc'.owner = [k \in DOMAIN acc.owner \cup NewKeys(row) |->
                         IF k \in DOMAIN acc.owner THEN acc.owner[k] ELSE row.sheet]
      /\ acc'.by_period = Plus(acc.by_period, AddedByPeriod(row))
      /\ DOMAIN AddedByPeriod(row) \subseteq NewKeys(row)
      /\ NewKeys(row) \subseteq DOMAIN acc.by_period \cup DOMAIN AddedByPeriod(row)
      /\ \A k \in DOMAIN AddedByPeriod(row) :
           /\ k[1] \in Numbers(row) /\ AddedByPeriod(row)[k] = Cells(row)[k[1]]
           /\ k[1] \in NonAdditive => k \notin DOMAIN acc.by_period
  BY ObservedKeys
<1>3. \A key : key \in NewKeys(row) <=> \E f \in Numbers(row) : key = <<f, Period(row)>>
  BY DEF NewKeys
<1>4. /\ \A key : key \in DOMAIN acc.owner <=>
           \E i \in Read : \E f \in Ns(i) : key = <<f, P(i)>>
      /\ \A i \in Read : \A f \in Ns(i) : acc.owner[<<f, P(i)>>] = Sh(i)
      /\ DOMAIN acc.by_period = DOMAIN acc.owner
      /\ \A k \in DOMAIN acc.by_period : acc.by_period[k] \in Int
      /\ \A i \in Read : \A f \in Ns(i) \cap NonAdditive : acc.by_period[<<f, P(i)>>] = C(i)[f]
  BY DEF AccInv, OwnerInv
<1>5. \A f \in Numbers(row) : Cells(row)[f] \in Int
  BY FittingRow
<1>6. /\ DOMAIN acc'.by_period = DOMAIN acc.by_period \cup NewKeys(row)
      /\ \A k \in DOMAIN acc'.by_period :
           acc'.by_period[k] = At(acc.by_period, k) + At(AddedByPeriod(row), k)
  <2>1. PICK more : more = AddedByPeriod(row)
    OBVIOUS
  <2>2. PICK map : map = acc.by_period
    OBVIOUS
  <2>3. /\ DOMAIN Plus(map, more) = DOMAIN map \cup DOMAIN more
        /\ \A k \in DOMAIN map \cup DOMAIN more : Plus(map, more)[k] = At(map, k) + At(more, k)
    BY PlusMaps
  <2>4. DOMAIN map \cup DOMAIN more = DOMAIN map \cup NewKeys(row)
    BY <1>2, <2>1, <2>2
  <2> QED
    BY <1>2, <2>1, <2>2, <2>3, <2>4
<1>7. DOMAIN acc'.owner = DOMAIN acc.owner \cup NewKeys(row)
  BY <1>2
<1>8. \A k \in DOMAIN acc'.by_period : acc'.by_period[k] \in Int
  <2>1. \A k : At(acc.by_period, k) \in Int
    BY <1>4 DEF At
  <2>2. \A k : At(AddedByPeriod(row), k) \in Int
    BY <1>2, <1>5 DEF At
  <2> QED
    BY <1>6, <2>1, <2>2
<1>9. \A key : key \in DOMAIN acc'.owner <=> \E i \in Read' : \E f \in Ns(i)' : key = <<f, P(i)'>>
  BY <1>1, <1>3, <1>4, <1>7 DEF OneMore
<1>10. \A i \in Read' : \A f \in Ns(i)' : acc'.owner[<<f, P(i)'>>] = Sh(i)'
  <2> SUFFICES ASSUME NEW i \in Read', NEW f \in Ns(i)' PROVE acc'.owner[<<f, P(i)'>>] = Sh(i)'
    OBVIOUS
  <2>1. CASE i = n
    <3>1. f \in Numbers(row) /\ P(i)' = Period(row) /\ Sh(i)' = row.sheet
      BY <1>1, <2>1 DEF OneMore
    <3>2. <<f, Period(row)>> \in DOMAIN acc.owner => acc.owner[<<f, Period(row)>>] = row.sheet
      BY <3>1 DEF RowFits, NumberFits
    <3> QED
      BY <1>2, <1>3, <3>1, <3>2
  <2>2. CASE i \in Read
    BY <1>1, <1>2, <1>4, <2>2 DEF OneMore
  <2> QED
    BY <1>1, <2>1, <2>2 DEF OneMore
<1>11. \A i \in Read' : \A f \in Ns(i)' \cap NonAdditive : acc'.by_period[<<f, P(i)'>>] = C(i)'[f]
  <2> SUFFICES ASSUME NEW i \in Read', NEW f \in Ns(i)' \cap NonAdditive
               PROVE  acc'.by_period[<<f, P(i)'>>] = C(i)'[f]
    OBVIOUS
  <2>1. CASE i \in Read
    <3>1. PICK k : k = <<f, P(i)>>
      OBVIOUS
    <3>2. k \in DOMAIN acc.by_period /\ acc.by_period[k] = C(i)[f] /\ k[1] = f
      BY <1>1, <1>4, <2>1, <3>1 DEF OneMore
    <3>3. At(AddedByPeriod(row), k) = 0 /\ At(acc.by_period, k) = acc.by_period[k]
      BY <1>2, <3>2 DEF At
    <3>4. acc'.by_period[k] = acc.by_period[k]
      BY <1>4, <1>6, <3>2, <3>3
    <3> QED
      BY <1>1, <2>1, <3>1, <3>2, <3>4 DEF OneMore
  <2>2. CASE i = n
    <3>1. f \in Numbers(row) /\ P(i)' = Period(row) /\ C(i)' = Cells(row)
      BY <1>1, <2>2 DEF OneMore
    <3>2. PICK k : k = <<f, Period(row)>>
      OBVIOUS
    <3>3. k \in NewKeys(row) /\ k[1] = f
      BY <1>3, <3>1, <3>2
    <3>4. CASE k \in DOMAIN acc.by_period
      <4>1. acc.by_period[k] = Cells(row)[f]
        BY <3>1, <3>2, <3>4 DEF RowFits, NumberFits
      <4>2. At(AddedByPeriod(row), k) = 0 /\ At(acc.by_period, k) = acc.by_period[k]
        BY <1>2, <3>3, <3>4 DEF At
      <4> QED
        BY <1>5, <1>6, <3>1, <3>2, <3>3, <4>1, <4>2
    <3>5. CASE k \notin DOMAIN acc.by_period
      <4>1. At(AddedByPeriod(row), k) = Cells(row)[f] /\ At(acc.by_period, k) = 0
        BY <1>2, <3>3, <3>5 DEF At
      <4> QED
        BY <1>5, <1>6, <3>1, <3>2, <3>3, <4>1
    <3> QED
      BY <3>4, <3>5
  <2> QED
    BY <1>1, <2>1, <2>2 DEF OneMore
<1> QED
  BY <1>4, <1>6, <1>7, <1>8, <1>9, <1>10, <1>11 DEF OwnerInv

\* Its labels are known.
LEMMA AcceptLabel ==
    ASSUME NEW row, NEW n, Accepts(row, n)
    PROVE  LabelInv'
<1>1. OneMore(row, n)
  BY ReadsOneMore DEF Accepts
<1>2. acc'.unique = [d \in DimensionFields |->
         acc.unique[d] \cup IF d \in Dimensions(row) THEN {Cells(row)[d]} ELSE {}]
  BY ObservedKeys DEF Accepts
<1>3. \A d \in DimensionFields :
         \A v : v \in acc.unique[d] <=> \E i \in Read : d \in Ds(i) /\ v = C(i)[d]
  BY DEF Accepts, Reads, AccInv, LabelInv
<1>4. ASSUME NEW d \in DimensionFields, NEW v
      PROVE  v \in acc'.unique[d] <=> \E i \in Read' : d \in Ds(i)' /\ v = C(i)'[d]
  <2>1. v \in acc'.unique[d] <=> v \in acc.unique[d] \/ (d \in Dimensions(row) /\ v = Cells(row)[d])
    BY <1>2
  <2>2. (\E i \in Read' : d \in Ds(i)' /\ v = C(i)'[d]) <=>
          \/ \E i \in Read : d \in Ds(i) /\ v = C(i)[d]
          \/ d \in Dimensions(row) /\ v = Cells(row)[d]
    BY <1>1 DEF OneMore
  <2> QED
    BY <1>3, <2>1, <2>2
<1> QED
  BY <1>4 DEF LabelInv

\* Its amounts are aggregated.
LEMMA AcceptPoint ==
    ASSUME NEW row, NEW n, Accepts(row, n)
    PROVE  /\ PointInv'
           /\ DOMAIN acc'.points = DOMAIN acc.points \cup NewPoints(row)
<1>1. OneMore(row, n)
  BY ReadsOneMore DEF Accepts
<1>2. DOMAIN acc'.points = DOMAIN acc.points \cup NewPoints(row)
  <2>1. acc'.points = Plus(acc.points, AddedPoints(row)) /\ DOMAIN AddedPoints(row) = NewPoints(row)
    BY ObservedKeys DEF Accepts
  <2> QED
    BY <2>1, PlusMaps
<1>3. Aggregated(row) = {a \in DimensionAggregations(conf.type) :
                           a[1] \in DOMAIN Cells(row) /\ a[2] \in DOMAIN Cells(row)}
  BY AggregatedFields DEF Accepts, Reads
<1>4. \A key : key \in NewPoints(row) <=>
         \E a \in DimensionAggregations(conf.type) :
            /\ a[1] \in DOMAIN Cells(row) /\ a[2] \in DOMAIN Cells(row)
            /\ key = <<a[1], a[2], Period(row), Cells(row)[a[2]]>>
  BY <1>3 DEF NewPoints
<1>5. conf' = conf
  BY DEF Accepts, Reads
<1>6. \A key : key \in DOMAIN acc.points <=>
         \E i \in Read : \E a \in DimensionAggregations(conf.type) :
            a[1] \in DOMAIN C(i) /\ a[2] \in DOMAIN C(i) /\ key = <<a[1], a[2], P(i), C(i)[a[2]]>>
  BY DEF Accepts, Reads, AccInv, PointInv
<1>7. ASSUME NEW key
      PROVE  key \in DOMAIN acc'.points <=>
               \E i \in Read' : \E a \in DimensionAggregations(conf.type) :
                  /\ a[1] \in DOMAIN C(i)' /\ a[2] \in DOMAIN C(i)'
                  /\ key = <<a[1], a[2], P(i)', C(i)'[a[2]]>>
  <2>1. (\E i \in Read' : \E a \in DimensionAggregations(conf.type) :
                  /\ a[1] \in DOMAIN C(i)' /\ a[2] \in DOMAIN C(i)'
                  /\ key = <<a[1], a[2], P(i)', C(i)'[a[2]]>>)
        <=> \/ \E i \in Read : \E a \in DimensionAggregations(conf.type) :
                  /\ a[1] \in DOMAIN C(i) /\ a[2] \in DOMAIN C(i)
                  /\ key = <<a[1], a[2], P(i), C(i)[a[2]]>>
            \/ \E a \in DimensionAggregations(conf.type) :
                  /\ a[1] \in DOMAIN Cells(row) /\ a[2] \in DOMAIN Cells(row)
                  /\ key = <<a[1], a[2], Period(row), Cells(row)[a[2]]>>
    BY <1>1 DEF OneMore
  <2> QED
    BY <1>2, <1>4, <1>6, <2>1
<1> QED
  BY <1>2, <1>5, <1>7 DEF PointInv

\* What a row adds is finite.
LEMMA NewFinite ==
    ASSUME BaseInv, NEW row
    PROVE  IsFiniteSet(NewKeys(row)) /\ IsFiniteSet(NewPoints(row)) /\ IsFiniteSet(Aggregated(row))
<1>1. IsFiniteSet(Numbers(row))
  <2>1. Numbers(row) \subseteq NumericFields
    BY DEF Numbers
  <2> QED
    BY <2>1, FieldsFinite, FS_Subset
<1>2. IsFiniteSet(NewKeys(row))
  <2> DEFINE g == [f \in Numbers(row) |-> <<f, Period(row)>>]
  <2>1. g = [x \in Numbers(row) |-> g[x]]
    OBVIOUS
  <2>2. NewKeys(row) = {g[x] : x \in Numbers(row)}
    BY DEF NewKeys
  <2> HIDE DEF g
  <2> QED
    BY <1>1, <2>1, <2>2, ImageFinite
<1>3. IsFiniteSet(Aggregated(row))
  <2>1. IsFiniteSet(NumericFields \X DimensionFields)
    BY FieldsFinite, FS_Product
  <2>2. conf.type \in Types
    BY InsightsAssumption DEF BaseInv
  <2>3. Aggregated(row) \subseteq NumericFields \X DimensionFields
    <3>1. \A a \in DimensionAggregations(conf.type) : a \in NumericFields \X DimensionFields
      BY <2>2, Contract
    <3> QED
      BY <3>1 DEF Aggregated
  <2> QED
    BY <2>1, <2>3, FS_Subset
<1>4. IsFiniteSet(NewPoints(row))
  <2> DEFINE g == [a \in Aggregated(row) |-> <<a[1], a[2], Period(row), Cells(row)[a[2]]>>]
  <2>1. g = [x \in Aggregated(row) |-> g[x]]
    OBVIOUS
  <2>2. NewPoints(row) = {g[x] : x \in Aggregated(row)}
    BY DEF NewPoints
  <2> HIDE DEF g
  <2> QED
    BY <1>3, <2>1, <2>2, ImageFinite
<1> QED
  BY <1>2, <1>3, <1>4

\* The limits hold with the row.
LEMMA AcceptBound ==
    ASSUME NEW row, NEW n, Accepts(row, n)
    PROVE  BoundInv'
<1>1. OneMore(row, n) /\ n \in Nat /\ IsFiniteSet(Read)
  BY ReadsOneMore DEF Accepts
<1>2. IsFiniteSet(NewKeys(row)) /\ IsFiniteSet(NewPoints(row))
  BY NewFinite DEF Accepts, Reads
<1>3. BoundInv /\ BaseInv /\ RowFits(row) /\ OwnerInv
  BY DEF Accepts, Reads, AccInv
<1>4. {MaxRows, MaxPeriods, MaxDimensionValues, MaxPoints, MaxStatusUpdates} \subseteq Nat
  BY InsightsAssumption
<1>5. DOMAIN acc'.by_period = DOMAIN acc.by_period \cup NewKeys(row)
  <2>1. PICK more : more = AddedByPeriod(row)
    OBVIOUS
  <2>2. /\ acc'.by_period = Plus(acc.by_period, more)
        /\ DOMAIN more \subseteq NewKeys(row) /\ NewKeys(row) \subseteq DOMAIN acc.by_period \cup DOMAIN more
    BY <2>1, ObservedKeys DEF Accepts
  <2>3. DOMAIN acc'.by_period = DOMAIN acc.by_period \cup DOMAIN more
    BY <2>2, PlusMaps
  <2> QED
    BY <2>2, <2>3
<1>6. IsFiniteSet(DOMAIN acc'.by_period)
  BY <1>2, <1>3, <1>5, FS_Union DEF BoundInv
<1>7. ASSUME NEW f \in NumericFields
      PROVE  Cardinality({k \in DOMAIN acc'.by_period : k[1] = f}) <= MaxPeriods
  <2>1. CASE f \notin Numbers(row)
    <3>1. \A k \in NewKeys(row) : k[1] # f
      BY <2>1 DEF NewKeys
    <3>2. {k \in DOMAIN acc'.by_period : k[1] = f} = {k \in DOMAIN acc.by_period : k[1] = f}
      BY <1>5, <3>1
    <3> QED
      BY <1>3, <3>2 DEF BoundInv
  <2>2. CASE f \in Numbers(row)
    <3> DEFINE K == {k \in DOMAIN acc.by_period \cup {<<f, Period(row)>>} : k[1] = f}
    <3>1. \A k \in NewKeys(row) : k[1] = f => k = <<f, Period(row)>>
      BY DEF NewKeys
    <3>2. <<f, Period(row)>> \in NewKeys(row)
      BY <2>2 DEF NewKeys
    <3>3. {k \in DOMAIN acc'.by_period : k[1] = f} = K
      BY <1>5, <3>1, <3>2
    <3>4. ~(Cardinality(K) > MaxPeriods)
      BY <1>3, <2>2 DEF RowFits, NumberFits
    <3>5. IsFiniteSet(K)
      BY <1>6, <3>3, FS_Subset
    <3> HIDE DEF K
    <3>6. Cardinality(K) \in Nat
      BY <3>5, FS_CardinalityType
    <3> QED
      BY <1>4, <3>3, <3>4, <3>6
  <2> QED
    BY <2>1, <2>2
<1>8. ASSUME NEW d \in DimensionFields
      PROVE  IsFiniteSet(acc'.unique[d]) /\ Cardinality(acc'.unique[d]) <= MaxDimensionValues
  <2>1. acc'.unique[d] = acc.unique[d] \cup IF d \in Dimensions(row) THEN {Cells(row)[d]} ELSE {}
    <3>1. acc'.unique = [e \in DimensionFields |->
             acc.unique[e] \cup IF e \in Dimensions(row) THEN {Cells(row)[e]} ELSE {}]
      BY ObservedKeys DEF Accepts
    <3> QED
      BY <3>1
  <2>2. IsFiniteSet(acc.unique[d]) /\ Cardinality(acc.unique[d]) <= MaxDimensionValues
    BY <1>3 DEF BoundInv
  <2>3. CASE d \notin Dimensions(row)
    BY <2>1, <2>2, <2>3
  <2>4. CASE d \in Dimensions(row)
    <3>1. PICK S : S = acc.unique[d] \cup {Cells(row)[d]}
      OBVIOUS
    <3>2. IsFiniteSet(S)
      BY <2>2, <3>1, FS_Singleton, FS_Union
    <3>3. Cardinality(S) \in Nat
      BY <3>2, FS_CardinalityType
    <3>4. ~(Cardinality(S) > MaxDimensionValues)
      BY <1>3, <2>4, <3>1 DEF RowFits
    <3> QED
      BY <1>4, <2>1, <2>4, <3>1, <3>2, <3>3, <3>4
  <2> QED
    BY <2>3, <2>4
<1>9. IsFiniteSet(DOMAIN acc'.points) /\ Cardinality(DOMAIN acc'.points) <= MaxPoints
  <2>1. PICK S : S = DOMAIN acc.points \cup NewPoints(row)
    OBVIOUS
  <2>2. DOMAIN acc'.points = S
    BY <2>1, AcceptPoint
  <2>3. IsFiniteSet(S)
    BY <1>2, <1>3, <2>1, FS_Union DEF BoundInv
  <2>4. Cardinality(S) \in Nat
    BY <2>3, FS_CardinalityType
  <2>5. CASE Aggregated(row) = {}
    <3>1. NewPoints(row) = {}
      BY <2>5 DEF NewPoints
    <3>2. S = DOMAIN acc.points
      BY <2>1, <3>1
    <3> QED
      BY <1>3, <2>2, <3>2 DEF BoundInv
  <2>6. CASE Aggregated(row) # {}
    <3>1. PICK a \in Aggregated(row) : TRUE
      BY <2>6
    <3>2. a[1] \in Numbers(row) /\ a[1] \in {b[1] : b \in Aggregated(row)}
      BY <3>1 DEF Aggregated, Counted
    <3>3. NumberFits(row, a[1])
      BY <1>3, <3>2 DEF RowFits
    <3>4. DOMAIN AddedPoints(row) = NewPoints(row)
      BY ObservedKeys
    <3>5. ~(Cardinality(S) > MaxPoints)
      BY <2>1, <3>2, <3>3, <3>4 DEF NumberFits
    <3> QED
      BY <1>4, <2>2, <2>3, <2>4, <3>5
  <2> QED
    BY <2>5, <2>6
<1>10. /\ acc'.statuses \in Seq([period : Nat \cup {Null}, row : Nat])
       /\ Len(acc'.statuses) = Cardinality(StatusRows')
       /\ Len(acc'.statuses) <= MaxStatusUpdates
  <2>1. acc'.statuses = IF "status" \in DOMAIN Cells(row)
           THEN Append(acc.statuses, [period |-> Period(row), row |-> Len(rows) + 1])
           ELSE acc.statuses
    BY ObservedKeys DEF Accepts
  <2>2. /\ acc.statuses \in Seq([period : Nat \cup {Null}, row : Nat])
        /\ Len(acc.statuses) = Cardinality(StatusRows)
        /\ Len(acc.statuses) <= MaxStatusUpdates
    BY <1>3 DEF BoundInv
  <2>3. CASE "status" \notin DOMAIN Cells(row)
    <3>1. StatusRows' = StatusRows
      BY <1>1, <2>3 DEF OneMore, StatusRows
    <3> QED
      BY <2>1, <2>2, <2>3, <3>1
  <2>4. CASE "status" \in DOMAIN Cells(row)
    <3>1. StatusRows' = StatusRows \cup {n} /\ n \notin StatusRows
      BY <1>1, <2>4 DEF OneMore, StatusRows
    <3>2. IsFiniteSet(StatusRows)
      <4>1. StatusRows \subseteq Read
        BY DEF StatusRows
      <4> QED
        BY <1>1, <4>1, FS_Subset
    <3>3. Cardinality(StatusRows') = Cardinality(StatusRows) + 1
      BY <3>1, <3>2, FS_AddElement
    <3>4. [period |-> Period(row), row |-> Len(rows) + 1] \in [period : Nat \cup {Null}, row : Nat]
      <4>1. Period(row) \in Nat \cup {Null}
        BY FittingRow DEF Accepts, Reads
      <4>2. Len(rows) + 1 \in Nat
        BY <1>1 DEF Accepts, Reads
      <4> QED
        BY <4>1, <4>2
    <3>5. PICK u \in [period : Nat \cup {Null}, row : Nat] : acc'.statuses = Append(acc.statuses, u)
      BY <2>1, <2>4, <3>4
    <3>6. /\ acc'.statuses \in Seq([period : Nat \cup {Null}, row : Nat])
          /\ Len(acc'.statuses) = Len(acc.statuses) + 1
      BY <2>2, <3>5
    <3>7. ~(Len(acc.statuses) >= MaxStatusUpdates)
      BY <1>3, <2>4 DEF RowFits
    <3> QED
      BY <1>4, <2>2, <3>3, <3>6, <3>7
  <2> QED
    BY <2>3, <2>4
<1> QED
  BY <1>6, <1>7, <1>8, <1>9, <1>10 DEF BoundInv

\* The invariant of the accumulator is kept by a row that is accepted,
LEMMA AcceptKeeps ==
    ASSUME NEW row, NEW n, Accepts(row, n)
    PROVE  AccInv'
BY AcceptClean, AcceptOwner, AcceptLabel, AcceptPoint, AcceptBound DEF AccInv

\* by one that is passed over,
LEMMA PassKeeps ==
    ASSUME BaseInv, AccInv, NEW row \in Rows(conf.type), ~Mapped(row), row.sheet \in Sheets,
           rows' = Append(rows, row), UNCHANGED <<conf, acc>>
    PROVE  AccInv'
<1>1. PICK n : n = Len(rows) + 1
  OBVIOUS
<1>2. /\ DOMAIN rows' = DOMAIN rows \cup {n} /\ Read' = Read /\ Sh(n)' = row.sheet
      /\ \A i \in DOMAIN rows : /\ C(i)' = C(i) /\ Sh(i)' = Sh(i) /\ Ns(i)' = Ns(i)
                                /\ Ds(i)' = Ds(i) /\ P(i)' = P(i)
  BY <1>1, RowAppended
<1>3. Read \subseteq DOMAIN rows
  BY DEF Read
<1>4. CleanInv'
  BY <1>2, <1>3 DEF AccInv, CleanInv
<1>5. OwnerInv'
  BY <1>2, <1>3 DEF AccInv, OwnerInv
<1>6. LabelInv'
  BY <1>2, <1>3 DEF AccInv, LabelInv
<1>7. PointInv'
  BY <1>2, <1>3 DEF AccInv, PointInv
<1>8. StatusRows' = StatusRows
  BY <1>2, <1>3 DEF StatusRows
<1>9. BoundInv'
  BY <1>8 DEF AccInv, BoundInv
<1> QED
  BY <1>4, <1>5, <1>6, <1>7, <1>9 DEF AccInv

\* and by every step that reads no row.
LEMMA IdleKeeps ==
    ASSUME AccInv, UNCHANGED <<conf, rows, acc>>
    PROVE  AccInv'
<1>1. Read' = Read /\ \A i : /\ C(i)' = C(i) /\ Sh(i)' = Sh(i) /\ Ns(i)' = Ns(i)
                             /\ Ds(i)' = Ds(i) /\ P(i)' = P(i)
  BY DEF Read, Mapped, C, Cells, Sh, Ns, Ds, P
<1>2. StatusRows' = StatusRows
  BY <1>1 DEF StatusRows
<1>3. CleanInv'
  BY <1>1 DEF AccInv, CleanInv
<1>4. OwnerInv'
  BY <1>1 DEF AccInv, OwnerInv
<1>5. LabelInv'
  BY <1>1 DEF AccInv, LabelInv
<1>6. PointInv'
  BY <1>1 DEF AccInv, PointInv
<1>7. BoundInv'
  BY <1>2 DEF AccInv, BoundInv
<1> QED
  BY <1>3, <1>4, <1>5, <1>6, <1>7 DEF AccInv

-----------------------------------------------------------------------------
(***************************************************************************)
(* A row that does not fit makes the rows inconsistent.                    *)
(***************************************************************************)

\* The labels, seen with one more row.
LEMMA LabelsFit ==
    ASSUME NEW row, NEW n, Reads(row, n), WithinLimits', NEW d \in Dimensions(row)
    PROVE  ~(Cardinality(acc.unique[d] \cup {Cells(row)[d]}) > MaxDimensionValues)
<1>1. OneMore(row, n)
  BY ReadsOneMore
<1>2. PICK S : S = acc.unique[d] \cup {Cells(row)[d]}
  OBVIOUS
<1>3. d \in DimensionFields /\ d \in Ds(n)'
  BY <1>1 DEF Dimensions, OneMore
<1>4. \A v : v \in acc.unique[d] <=> \E i \in Read : d \in Ds(i) /\ v = C(i)[d]
  BY <1>3 DEF Reads, AccInv, LabelInv
<1>5. \A v : v \in Labels(d)' <=> \E i \in Read' : d \in Ds(i)' /\ v = C(i)'[d]
  BY SetsByPositionHold DEF SetsByPosition
<1>6. ASSUME NEW v PROVE v \in Labels(d)' <=> v \in S
  <2>1. (\E i \in Read' : d \in Ds(i)' /\ v = C(i)'[d]) <=>
          \/ \E i \in Read : d \in Ds(i) /\ v = C(i)[d]
          \/ v = Cells(row)[d]
    BY <1>1, <1>3 DEF OneMore
  <2> QED
    BY <1>2, <1>4, <1>5, <2>1
<1>7. Labels(d)' = S
  BY <1>6
<1>8. Cardinality(S) <= MaxDimensionValues
  BY <1>3, <1>7 DEF WithinLimits
<1>9. Cardinality(S) \in Nat
  <2>1. IsFiniteSet(S)
    BY <1>2, <1>3, FS_Singleton, FS_Union DEF Reads, AccInv, BoundInv
  <2> QED
    BY <2>1, FS_CardinalityType
<1>10. MaxDimensionValues \in Nat
  BY InsightsAssumption
<1> QED
  BY <1>2, <1>8, <1>9, <1>10

\* The periods of a measure.
LEMMA PeriodsFit ==
    ASSUME NEW row, NEW n, Reads(row, n), SoundRows', WithinLimits', NEW f \in Numbers(row),
           Period(row) # Null
    PROVE  ~(Cardinality({k \in DOMAIN acc.by_period \cup {<<f, Period(row)>>} : k[1] = f})
             > MaxPeriods)
<1> DEFINE K == {k \in DOMAIN acc.by_period \cup {<<f, Period(row)>>} : k[1] = f}
<1>1. OneMore(row, n)
  BY ReadsOneMore
<1>2. \A key : key \in DOMAIN acc.by_period <=>
         \E i \in Read : \E g \in Ns(i) : key = <<g, P(i)>>
  BY DEF Reads, AccInv, OwnerInv
<1>3. \A i \in Read : Ns(i) # {} => P(i) # Null
  <2>1. ASSUME NEW i \in Read, Ns(i) # {} PROVE P(i) # Null
    <3>1. "period" \in DOMAIN C(i)
      BY <2>1 DEF Reads, AccInv, CleanInv
    <3>2. C(i)["period"] # Null
      BY <2>1, <3>1, ReadFacts DEF Reads
    <3> QED
      BY <3>1, <3>2 DEF P
  <2> QED
    BY <2>1
<1>4. PICK Q : Q = PeriodSet(f)'
  OBVIOUS
<1>5. \A p : p \in Q <=> p # Null /\ \E i \in Read' : f \in Ns(i)' /\ P(i)' = p
  BY <1>4, SetsByPositionHold DEF SetsByPosition
<1>6. \A p : p \in Q <=> p = Period(row) \/ \E i \in Read : f \in Ns(i) /\ P(i) = p
  <2>1. ASSUME NEW p PROVE (\E i \in Read' : f \in Ns(i)' /\ P(i)' = p) <=>
                             p = Period(row) \/ \E i \in Read : f \in Ns(i) /\ P(i) = p
    BY <1>1 DEF OneMore
  <2> QED
    BY <1>3, <1>5, <2>1
<1>7. \A k : k \in K <=> \E p \in Q : k = <<f, p>>
  <2>1. ASSUME NEW k \in K PROVE \E p \in Q : k = <<f, p>>
    <3>1. CASE k = <<f, Period(row)>>
      BY <1>6, <3>1
    <3>2. CASE k \in DOMAIN acc.by_period
      <4>1. PICK i \in Read : \E g \in Ns(i) : k = <<g, P(i)>>
        BY <1>2, <3>2
      <4>2. PICK g \in Ns(i) : k = <<g, P(i)>>
        BY <4>1
      <4>3. g = f
        BY <2>1, <4>2
      <4> QED
        BY <1>6, <4>2, <4>3
    <3> QED
      BY <2>1, <3>1, <3>2
  <2>2. ASSUME NEW p \in Q PROVE <<f, p>> \in K
    <3>1. CASE p = Period(row)
      BY <3>1
    <3>2. CASE \E i \in Read : f \in Ns(i) /\ P(i) = p
      BY <1>2, <3>2
    <3> QED
      BY <1>6, <3>1, <3>2
  <2> QED
    BY <2>1, <2>2
<1>8. IsFiniteSet(K)
  <2>1. IsFiniteSet(DOMAIN acc.by_period \cup {<<f, Period(row)>>})
    BY FS_Singleton, FS_Union DEF Reads, AccInv, BoundInv
  <2> QED
    BY <2>1, FS_Subset
<1> HIDE DEF K
<1>9. Cardinality(Q) = Cardinality(K)
  BY <1>7, <1>8, PeriodCardinality
<1>10. Cardinality(Q) <= MaxPeriods
  <2>1. f \in RequiredNumeric(conf.type)
    BY RowFacts DEF Reads
  <2>2. conf' = conf
    BY DEF Reads
  <2> QED
    BY <1>4, <2>1, <2>2 DEF WithinLimits
<1>11. Cardinality(K) \in Nat /\ MaxPeriods \in Nat
  BY <1>8, FS_CardinalityType, InsightsAssumption
<1>12. ~(Cardinality(K) > MaxPeriods)
  BY <1>9, <1>10, <1>11
<1> QED
  BY <1>12 DEF K

\* The aggregated amounts.
LEMMA PointsFit ==
    ASSUME NEW row, NEW n, Reads(row, n), WithinLimits'
    PROVE  ~(Cardinality(DOMAIN acc.points \cup DOMAIN AddedPoints(row)) > MaxPoints)
<1>1. OneMore(row, n)
  BY ReadsOneMore
<1>2. PICK K : K = DOMAIN acc.points \cup NewPoints(row)
  OBVIOUS
<1>3. DOMAIN AddedPoints(row) = NewPoints(row)
  BY ObservedKeys
<1>4. PICK A : A = DimensionAggregations(conf.type)
  OBVIOUS
<1>5. Aggregated(row) = {a \in A : a[1] \in DOMAIN Cells(row) /\ a[2] \in DOMAIN Cells(row)}
  BY <1>4, AggregatedFields DEF Reads
<1>6. \A key : key \in NewPoints(row) <=>
         \E a \in A : /\ a[1] \in DOMAIN Cells(row) /\ a[2] \in DOMAIN Cells(row)
                      /\ key = <<a[1], a[2], Period(row), Cells(row)[a[2]]>>
  BY <1>5 DEF NewPoints
<1>7. \A key : key \in DOMAIN acc.points <=>
         \E i \in Read : \E a \in A : /\ a[1] \in DOMAIN C(i) /\ a[2] \in DOMAIN C(i)
                                      /\ key = <<a[1], a[2], P(i), C(i)[a[2]]>>
  BY <1>4 DEF Reads, AccInv, PointInv
<1>8. PICK Q : Q = Points'
  OBVIOUS
<1>9. conf' = conf
  BY DEF Reads
<1>10. \A x : x \in Q <=>
          \E i \in Read' : \E a \in A : /\ a[1] \in DOMAIN C(i)' /\ a[2] \in DOMAIN C(i)'
                                        /\ x = <<a[2], P(i)', C(i)'[a[2]]>>
  BY <1>4, <1>8, <1>9, SetsByPositionHold DEF SetsByPosition
<1>11. ASSUME NEW x
       PROVE  x \in Q <=>
                \/ \E i \in Read : \E a \in A : /\ a[1] \in DOMAIN C(i) /\ a[2] \in DOMAIN C(i)
                                                /\ x = <<a[2], P(i), C(i)[a[2]]>>
                \/ \E a \in A : /\ a[1] \in DOMAIN Cells(row) /\ a[2] \in DOMAIN Cells(row)
                                /\ x = <<a[2], Period(row), Cells(row)[a[2]]>>
  <2>1. (\E i \in Read' : \E a \in A : /\ a[1] \in DOMAIN C(i)' /\ a[2] \in DOMAIN C(i)'
                                       /\ x = <<a[2], P(i)', C(i)'[a[2]]>>)
        <=> \/ \E i \in Read : \E a \in A : /\ a[1] \in DOMAIN C(i) /\ a[2] \in DOMAIN C(i)
                                            /\ x = <<a[2], P(i), C(i)[a[2]]>>
            \/ \E a \in A : /\ a[1] \in DOMAIN Cells(row) /\ a[2] \in DOMAIN Cells(row)
                            /\ x = <<a[2], Period(row), Cells(row)[a[2]]>>
    BY <1>1 DEF OneMore
  <2> QED
    BY <1>10, <2>1
<1>12. PICK o : o = OutflowField(conf.type)
  OBVIOUS
<1>13. \A a \in A : a[1] = o
  BY <1>4, <1>12, Contract, InsightsAssumption DEF Reads, BaseInv
<1>14. \A x \in Q : x = <<x[1], x[2], x[3]>>
  BY <1>11
<1>15. \A k : k \in K <=> \E x \in Q : k = <<o, x[1], x[2], x[3]>>
  <2>1. ASSUME NEW k \in K PROVE \E x \in Q : k = <<o, x[1], x[2], x[3]>>
    <3>1. CASE k \in DOMAIN acc.points
      <4>1. PICK i \in Read, a \in A : /\ a[1] \in DOMAIN C(i) /\ a[2] \in DOMAIN C(i)
                                       /\ k = <<a[1], a[2], P(i), C(i)[a[2]]>>
        BY <1>7, <3>1
      <4>2. <<a[2], P(i), C(i)[a[2]]>> \in Q
        BY <1>11, <4>1
      <4> QED
        BY <1>13, <4>1, <4>2
    <3>2. CASE k \in NewPoints(row)
      <4>1. PICK a \in A : /\ a[1] \in DOMAIN Cells(row) /\ a[2] \in DOMAIN Cells(row)
                           /\ k = <<a[1], a[2], Period(row), Cells(row)[a[2]]>>
        BY <1>6, <3>2
      <4>2. <<a[2], Period(row), Cells(row)[a[2]]>> \in Q
        BY <1>11, <4>1
      <4> QED
        BY <1>13, <4>1, <4>2
    <3> QED
      BY <1>2, <2>1, <3>1, <3>2
  <2>2. ASSUME NEW x \in Q PROVE <<o, x[1], x[2], x[3]>> \in K
    <3>1. CASE \E i \in Read : \E a \in A : /\ a[1] \in DOMAIN C(i) /\ a[2] \in DOMAIN C(i)
                                            /\ x = <<a[2], P(i), C(i)[a[2]]>>
      <4>1. PICK i \in Read, a \in A : /\ a[1] \in DOMAIN C(i) /\ a[2] \in DOMAIN C(i)
                                       /\ x = <<a[2], P(i), C(i)[a[2]]>>
        BY <3>1
      <4>2. <<a[1], a[2], P(i), C(i)[a[2]]>> \in K
        BY <1>2, <1>7, <4>1
      <4> QED
        BY <1>13, <4>1, <4>2
    <3>2. CASE \E a \in A : /\ a[1] \in DOMAIN Cells(row) /\ a[2] \in DOMAIN Cells(row)
                            /\ x = <<a[2], Period(row), Cells(row)[a[2]]>>
      <4>1. PICK a \in A : /\ a[1] \in DOMAIN Cells(row) /\ a[2] \in DOMAIN Cells(row)
                           /\ x = <<a[2], Period(row), Cells(row)[a[2]]>>
        BY <3>2
      <4>2. <<a[1], a[2], Period(row), Cells(row)[a[2]]>> \in K
        BY <1>2, <1>6, <4>1
      <4> QED
        BY <1>13, <4>1, <4>2
    <3> QED
      BY <1>11, <2>2, <3>1, <3>2
  <2> QED
    BY <2>1, <2>2
<1>16. IsFiniteSet(K)
  <2>1. IsFiniteSet(NewPoints(row))
    BY NewFinite DEF Reads
  <2> QED
    BY <1>2, <2>1, FS_Union DEF Reads, AccInv, BoundInv
<1>17. Cardinality(Q) = Cardinality(K)
  BY <1>14, <1>15, <1>16, PointCardinality
<1>18. Cardinality(Q) <= MaxPoints
  BY <1>8 DEF WithinLimits
<1>19. Cardinality(K) \in Nat /\ MaxPoints \in Nat
  BY <1>16, FS_CardinalityType, InsightsAssumption
<1> QED
  BY <1>2, <1>3, <1>17, <1>18, <1>19

\* The status updates.
LEMMA StatusFits ==
    ASSUME NEW row, NEW n, Reads(row, n), WithinLimits', "status" \in DOMAIN Cells(row)
    PROVE  ~(Len(acc.statuses) >= MaxStatusUpdates)
<1>1. OneMore(row, n) /\ IsFiniteSet(Read)
  BY ReadsOneMore
<1>2. StatusRows' = StatusRows \cup {n} /\ n \notin StatusRows
  BY <1>1 DEF OneMore, StatusRows
<1>3. IsFiniteSet(StatusRows)
  <2>1. StatusRows \subseteq Read
    BY DEF StatusRows
  <2> QED
    BY <1>1, <2>1, FS_Subset
<1>4. Cardinality(StatusRows') = Cardinality(StatusRows) + 1 /\ Cardinality(StatusRows) \in Nat
  BY <1>2, <1>3, FS_AddElement, FS_CardinalityType
<1>5. Len(acc.statuses) = Cardinality(StatusRows) /\ MaxStatusUpdates \in Nat
  BY InsightsAssumption DEF Reads, AccInv, BoundInv
<1>6. Cardinality(StatusRows') <= MaxStatusUpdates
  BY DEF WithinLimits
<1> QED
  BY <1>4, <1>5, <1>6

\* One number of the row.
LEMMA NumbersFit ==
    ASSUME NEW row, NEW n, Reads(row, n), SoundRows', OneSource', WithinLimits', NEW f \in Numbers(row)
    PROVE  NumberFits(row, f)
<1>1. OneMore(row, n)
  BY ReadsOneMore
<1>2. /\ n \in Read' /\ C(n)' = Cells(row) /\ Ns(n)' = Numbers(row) /\ Ds(n)' = Dimensions(row)
      /\ P(n)' = Period(row) /\ Sh(n)' = row.sheet /\ conf' = conf
  BY <1>1 DEF OneMore, Reads
<1>3. /\ \A g \in DOMAIN Cells(row) : Cells(row)[g] \notin {Text, Long}
      /\ HasPeriod(row)
      /\ OutflowField(conf.type) \in Numbers(row) =>
           OutflowDimensions(conf.type) \subseteq Dimensions(row)
  BY <1>2 DEF SoundRows, HasPeriod
<1>4. Cells(row)[f] # Text
  BY <1>3 DEF Numbers
<1>5. Period(row) # Null
  BY <1>3, RowFacts DEF Reads, HasPeriod, Period
<1>6. f \in RequiredNumeric(conf.type)
  BY RowFacts DEF Reads
<1>7. ASSUME <<f, Period(row)>> \in DOMAIN acc.owner
      PROVE  /\ acc.owner[<<f, Period(row)>>] = row.sheet
             /\ f \in NonAdditive => acc.by_period[<<f, Period(row)>>] = Cells(row)[f]
  <2>1. PICK i \in Read : \E g \in Ns(i) : <<f, Period(row)>> = <<g, P(i)>>
    BY <1>7 DEF Reads, AccInv, OwnerInv
  <2>2. f \in Ns(i) /\ P(i) = Period(row)
    BY <2>1
  <2>3. /\ i \in Read' /\ f \in Ns(i)' /\ P(i)' = Period(row) /\ Sh(i)' = Sh(i) /\ C(i)' = C(i)
    BY <1>1, <2>1, <2>2 DEF OneMore
  <2>4. Sh(i) = row.sheet /\ (f \in NonAdditive => C(i)[f] = Cells(row)[f])
    BY <1>2, <1>5, <1>6, <2>3 DEF OneSource
  <2>5. /\ acc.owner[<<f, P(i)>>] = Sh(i)
        /\ f \in NonAdditive => acc.by_period[<<f, P(i)>>] = C(i)[f]
    BY <2>2 DEF Reads, AccInv, OwnerInv
  <2> QED
    BY <2>2, <2>4, <2>5
<1>8. DOMAIN acc.by_period = DOMAIN acc.owner
  BY DEF Reads, AccInv, OwnerInv
<1>9. ~(Cardinality({k \in DOMAIN acc.by_period \cup {<<f, Period(row)>>} : k[1] = f}) > MaxPeriods)
  BY <1>5, PeriodsFit
<1>10. ~(Cardinality(DOMAIN acc.points \cup DOMAIN AddedPoints(row)) > MaxPoints)
  BY PointsFit
<1> QED
  BY <1>3, <1>4, <1>7, <1>8, <1>9, <1>10 DEF NumberFits

\* Rows that are consistent with one more: the accumulator accepts it.
LEMMA ConsistentFits ==
    ASSUME NEW row, NEW n, Reads(row, n), Consistent'
    PROVE  RowFits(row)
<1>1. SoundRows' /\ OneSource' /\ WithinLimits'
  BY ConsistentByPosition
<1>2. n \in Read' /\ C(n)' = Cells(row)
  <2>1. OneMore(row, n)
    BY ReadsOneMore
  <2> QED
    BY <2>1 DEF OneMore
<1>3. \A f \in DOMAIN Cells(row) : Cells(row)[f] \notin {Text, Long}
  BY <1>1, <1>2 DEF SoundRows
<1>4. \A d \in Dimensions(row) :
         ~(Cardinality(acc.unique[d] \cup {Cells(row)[d]}) > MaxDimensionValues)
  BY <1>1, LabelsFit
<1>5. \A f \in Numbers(row) : NumberFits(row, f)
  BY <1>1, NumbersFit
<1>6. "status" \in DOMAIN Cells(row) => ~(Len(acc.statuses) >= MaxStatusUpdates)
  BY <1>1, StatusFits
<1> QED
  BY <1>3, <1>4, <1>5, <1>6 DEF RowFits

\* Consistency is a matter of the rows alone.
LEMMA ConsistencyStays ==
    ASSUME UNCHANGED <<conf, rows>>
    PROVE  Consistent' <=> Consistent
<1>1. Read' = Read /\ \A i : /\ C(i)' = C(i) /\ Sh(i)' = Sh(i) /\ Ns(i)' = Ns(i)
                             /\ Ds(i)' = Ds(i) /\ P(i)' = P(i)
  BY DEF Read, Mapped, C, Cells, Sh, Ns, Ds, P
<1>2. SoundRows' <=> SoundRows
  BY <1>1 DEF SoundRows
<1>3. OneSource' <=> OneSource
  BY <1>1 DEF OneSource
<1>4. \A f : PeriodSet(f)' = PeriodSet(f)
  <2>1. ASSUME NEW f, NEW p PROVE p \in PeriodSet(f)' <=> p \in PeriodSet(f)
    BY <1>1, SetsByPositionHold DEF SetsByPosition
  <2>2. ASSUME NEW f PROVE PeriodSet(f)' = PeriodSet(f)
    <3>1. \A p : p \in PeriodSet(f)' <=> p \in PeriodSet(f)
      BY <2>1
    <3> QED
      BY <3>1
  <2> QED
    BY <2>2
<1>5. \A d : Labels(d)' = Labels(d)
  BY DEF Labels, Read, Mapped, Dimensions, Cells, Value
<1>6. Points' = Points
  BY DEF Points, Read, Mapped, Dimensions, Cells, Value, Period, HasPeriod
<1>7. StatusRows' = StatusRows
  BY <1>1 DEF StatusRows
<1>8. WithinLimits' <=> WithinLimits
  BY <1>4, <1>5, <1>6, <1>7 DEF WithinLimits
<1> QED
  BY <1>2, <1>3, <1>8, ConsistentByPosition

-----------------------------------------------------------------------------
(***************************************************************************)
(* The verdict is that of the rows.                                        *)
(***************************************************************************)

\* The errors that say something else than that rows are inconsistent.
OtherErrors == {"invalid_artifact", "mapped_source_column_not_found", "mapped_rows_not_found",
                "mapped_required_numeric_values_missing", "mapped_period_coverage_mismatch"}

VerdictInv ==
    /\ BaseInv
    /\ status # "failed" => AccInv
    /\ status = "failed" => error \in OtherErrors \/ ~Consistent

LEMMA VerdictInit == Init => VerdictInv
<1> SUFFICES ASSUME Init PROVE VerdictInv
  OBVIOUS
<1>1. BaseInv
  BY DEF Init, BaseInv
<1>2. Read = {} /\ DOMAIN rows = {}
  BY DEF Init, Read
<1>3. /\ acc.by_period = <<>> /\ acc.points = <<>> /\ acc.owner = <<>> /\ acc.statuses = <<>>
      /\ acc.unique = [d \in DimensionFields |-> {}]
  BY DEF Init, NoRows
<1>4. IsFiniteSet({}) /\ Cardinality({}) = 0
  BY FS_EmptySet
<1>5. {MaxRows, MaxPeriods, MaxDimensionValues, MaxPoints, MaxStatusUpdates} \subseteq Nat
  BY InsightsAssumption
<1>6. CleanInv
  BY <1>2 DEF CleanInv
<1>7. OwnerInv
  BY <1>2, <1>3 DEF OwnerInv
<1>8. LabelInv
  BY <1>2, <1>3 DEF LabelInv
<1>9. PointInv
  BY <1>2, <1>3 DEF PointInv
<1>10. BoundInv
  <2>1. DOMAIN acc.by_period = {} /\ DOMAIN acc.points = {} /\ \A d \in DimensionFields : acc.unique[d] = {}
    BY <1>3
  <2>2. \A f \in NumericFields : {k \in DOMAIN acc.by_period : k[1] = f} = {}
    BY <2>1
  <2>3. StatusRows = {}
    BY <1>2 DEF StatusRows
  <2>4. acc.statuses \in Seq([period : Nat \cup {Null}, row : Nat]) /\ Len(acc.statuses) = 0
    BY <1>3
  <2>5. \A f \in NumericFields :
           Cardinality({k \in DOMAIN acc.by_period : k[1] = f}) <= MaxPeriods
    <3>1. ASSUME NEW f \in NumericFields
          PROVE  Cardinality({k \in DOMAIN acc.by_period : k[1] = f}) = 0
      BY <1>4, <2>2
    <3> QED
      BY <1>5, <3>1
  <2>6. \A d \in DimensionFields :
           IsFiniteSet(acc.unique[d]) /\ Cardinality(acc.unique[d]) <= MaxDimensionValues
    BY <1>4, <1>5, <2>1
  <2>7. /\ IsFiniteSet(DOMAIN acc.by_period)
        /\ IsFiniteSet(DOMAIN acc.points) /\ Cardinality(DOMAIN acc.points) <= MaxPoints
    BY <1>4, <1>5, <2>1
  <2>8. Len(acc.statuses) = Cardinality(StatusRows) /\ Len(acc.statuses) <= MaxStatusUpdates
    BY <1>4, <1>5, <2>3, <2>4
  <2> QED
    BY <2>4, <2>5, <2>6, <2>7, <2>8 DEF BoundInv
<1>11. status # "failed"
  BY DEF Init
<1> QED
  BY <1>1, <1>6, <1>7, <1>8, <1>9, <1>10, <1>11 DEF VerdictInv, AccInv

\* Steps that read no row.
LEMMA VerdictIdle ==
    ASSUME VerdictInv, UNCHANGED <<conf, rows, acc>>, status \in {"profile", "rows", "ready", "rendered"},
           status' \in {"profile", "rows", "ready", "rendered", "failed"},
           status' = "failed" => error' \in OtherErrors
    PROVE  VerdictInv'
<1>1. BaseInv'
  BY DEF VerdictInv, BaseInv, Valid
<1>2. AccInv'
  BY IdleKeeps DEF VerdictInv
<1> QED
  BY <1>1, <1>2 DEF VerdictInv

LEMMA VerdictRow ==
    ASSUME VerdictInv, NEW row \in Rows(conf.type), ReadRow(row)
    PROVE  VerdictInv'
<1>1. PICK n : n = Len(rows) + 1
  OBVIOUS
<1>2. /\ BaseInv /\ AccInv /\ conf' = conf /\ rows' = Append(rows, row) /\ status = "rows"
  BY DEF VerdictInv, ReadRow
<1>3. Valid(conf)' /\ conf' \in Configurations /\ rows' \in Seq(Rows(conf.type)')
  BY <1>2 DEF BaseInv, Valid
<1>4. CASE row.sheet \notin Sheets /\ Fails("invalid_artifact") /\ UNCHANGED acc
  BY <1>3, <1>4 DEF VerdictInv, BaseInv, Fails, OtherErrors
<1>5. CASE row.sheet \in Sheets /\ ~Mapped(row) /\ UNCHANGED <<acc, status, error>>
  <2>1. AccInv'
    BY <1>2, <1>5, PassKeeps
  <2> QED
    BY <1>2, <1>3, <1>5, <2>1 DEF VerdictInv, BaseInv
<1>6. CASE /\ row.sheet \in Sheets /\ Mapped(row) /\ RowErrors(row) = {}
           /\ acc' = Observed(row) /\ UNCHANGED <<status, error>>
  <2>1. Accepts(row, n)
    BY <1>1, <1>2, <1>6, FitsIffNoError DEF Accepts, Reads
  <2>2. AccInv'
    BY <2>1, AcceptKeeps
  <2> QED
    BY <1>2, <1>3, <1>6, <2>2 DEF VerdictInv, BaseInv
<1>7. CASE /\ row.sheet \in Sheets /\ Mapped(row) /\ UNCHANGED acc
           /\ \E code \in RowErrors(row) : Fails(code)
  <2>1. Reads(row, n)
    BY <1>1, <1>2, <1>7 DEF Reads
  <2>2. ~RowFits(row)
    BY <1>7, FitsIffNoError
  <2>3. ~Consistent'
    BY <2>1, <2>2, ConsistentFits
  <2>4. status' = "failed"
    BY <1>7 DEF Fails
  <2> QED
    BY <1>3, <2>3, <2>4 DEF VerdictInv, BaseInv
<1> QED
  BY <1>4, <1>5, <1>6, <1>7 DEF ReadRow

LEMMA VerdictInductive == VerdictInv /\ [Next]_vars => VerdictInv'
<1> SUFFICES ASSUME VerdictInv, [Next]_vars PROVE VerdictInv'
  OBVIOUS
<1>1. CASE ReadProfile
  BY <1>1, VerdictIdle DEF ReadProfile, Fails, OtherErrors
<1>2. CASE \E row \in Rows(conf.type) : ReadRow(row)
  BY <1>2, VerdictRow
<1>3. CASE EndOfReport
  BY <1>3, VerdictIdle DEF EndOfReport, Fails, OtherErrors
<1>4. CASE Render
  <2>1. RenderError \in OtherErrors \cup {"none"}
    BY DEF RenderError, OtherErrors
  <2> QED
    BY <1>4, <2>1, VerdictIdle DEF Render, Fails
<1>5. CASE UNCHANGED vars
  <2>1. UNCHANGED <<conf, rows, acc, status, error>>
    BY <1>5 DEF vars
  <2>2. BaseInv'
    BY <2>1 DEF VerdictInv, BaseInv, Valid
  <2>3. status # "failed" => AccInv'
    BY <2>1, IdleKeeps DEF VerdictInv
  <2>4. Consistent' <=> Consistent
    BY <2>1, ConsistencyStays
  <2> QED
    BY <2>1, <2>2, <2>3, <2>4 DEF VerdictInv
<1> QED
  BY <1>1, <1>2, <1>3, <1>4, <1>5 DEF Next

\* The verdict is that of the rows as a bag, whatever limits, contract and rows
\* there are: observe (dashboard_insights.py) refuses a row exactly when the rows
\* read so far contradict each other, the contract or a limit.
THEOREM VerdictIsOrderFree == Spec => []VerdictOrderFree
<1>1. VerdictInv => VerdictOrderFree
  BY AcceptedConsistent DEF VerdictInv, VerdictOrderFree, OtherErrors
<1> QED
  BY <1>1, VerdictInit, VerdictInductive, PTL DEF Spec

-----------------------------------------------------------------------------
(***************************************************************************)
(* Sums.  MapThenSumSet is a recursion over the subsets of a set that      *)
(* takes the elements in an arbitrary order.  By induction on the number   *)
(* of elements the recursion has a solution, and the order does not        *)
(* matter.                                                                 *)
(***************************************************************************)

\* Every non-empty set of natural numbers has a smallest element.
LEMMA NatMin ==
    ASSUME NEW T, T \subseteq Nat, T # {}
    PROVE  \E n \in T : \A m \in T : n <= m
<1> DEFINE R == OpToRel(<, Nat)
<1>1. IsWellFoundedOn(R, Nat)
  BY NatLessThanWellFounded
<1>2. \A m, n \in Nat : <<m, n>> \in R <=> m < n
  BY DEF OpToRel
<1> HIDE DEF R
<1>3. PICK n \in T : \A m \in T : ~(<<m, n>> \in R)
  BY <1>1, WFMin
<1>4. ASSUME NEW m \in T PROVE n <= m
  <2>1. ~(<<m, n>> \in R) /\ m \in Nat /\ n \in Nat
    BY <1>3
  <2>2. ~(m < n)
    BY <1>2, <2>1
  <2> QED
    BY <2>1, <2>2
<1> QED
  BY <1>4

\* Induction on natural numbers, the property given as a set.
LEMMA SetInduction ==
    ASSUME NEW H, 0 \in H, \A n \in Nat : n \in H => n + 1 \in H
    PROVE  Nat \subseteq H
<1> SUFFICES ASSUME Nat \ H # {} PROVE FALSE
  OBVIOUS
<1>1. PICK n \in Nat \ H : \A m \in Nat \ H : n <= m
  BY NatMin
<1>2. n # 0 /\ n - 1 \in Nat
  BY <1>1
<1>3. n - 1 \in H
  BY <1>1, <1>2
<1>4. (n - 1) + 1 \in H
  BY <1>2, <1>3
<1>5. (n - 1) + 1 = n
  BY <1>1
<1> QED
  BY <1>1, <1>4, <1>5

\* The element that a fold over the set s takes first.
Pick(s) == CHOOSE x \in s : TRUE

\* One step of the recursion behind MapThenSumSet, for the values of g.
SumStep(g, f, s) == IF s = {} THEN 0 ELSE g[Pick(s)] + f[s \ {Pick(s)}]

\* The sums of all subsets of S.
PartialSums(g, S) == CHOOSE f : f = [s \in SUBSET S |-> SumStep(g, f, s)]

SumOver(g, S) == MapThenSumSet(LAMBDA x : g[x], S)

\* MapThenSumSet is the last of the partial sums.
LEMMA SumUnfolds ==
    ASSUME NEW g, NEW S
    PROVE  SumOver(g, S) = PartialSums(g, S)[S]
BY Zenon DEF SumOver, MapThenSumSet, MapThenFoldSet, PartialSums, SumStep, Pick

\* A set without one of its elements.
LEMMA Removal ==
    ASSUME NEW S, IsFiniteSet(S), NEW s \in SUBSET S, NEW x \in s
    PROVE  /\ IsFiniteSet(s) /\ Cardinality(s) \in Nat \ {0}
           /\ s \ {x} \in SUBSET S /\ Cardinality(s \ {x}) = Cardinality(s) - 1
<1>1. IsFiniteSet(s)
  BY FS_Subset
<1>2. Cardinality(s) \in Nat /\ Cardinality(s) # 0
  BY <1>1, FS_CardinalityType, FS_EmptySet
<1>3. Cardinality(s \ {x}) = Cardinality(s) - 1
  BY <1>1, FS_RemoveElement
<1> QED
  BY <1>1, <1>2, <1>3

\* A fold takes an element of the set.
LEMMA PickIn == ASSUME NEW s, s # {} PROVE Pick(s) \in s
BY DEF Pick

\* The recursion has a solution: one for the sets of at most n elements gives
\* one for those of n + 1.
LEMMA SumsExist ==
    ASSUME NEW g, NEW S, IsFiniteSet(S)
    PROVE  \E f : f = [s \in SUBSET S |-> SumStep(g, f, s)]
<1> DEFINE D(n) == {s \in SUBSET S : Cardinality(s) <= n}
           Solves(f, n) == f = [s \in D(n) |-> SumStep(g, f, s)]
           H == {n \in Nat : \E f : Solves(f, n)}
<1>1. 0 \in H
  <2> DEFINE f == [s \in D(0) |-> 0]
  <2>1. \A s \in D(0) : s = {}
    <3> SUFFICES ASSUME NEW s \in D(0) PROVE s = {}
      OBVIOUS
    <3>1. IsFiniteSet(s) /\ Cardinality(s) <= 0
      BY FS_Subset
    <3>2. Cardinality(s) = 0
      BY <3>1, FS_CardinalityType
    <3> QED
      BY <3>1, <3>2, FS_EmptySet
  <2>2. \A s \in D(0) : SumStep(g, f, s) = 0
    BY <2>1 DEF SumStep
  <2>3. Solves(f, 0)
    BY <2>2
  <2> QED
    BY <2>3
<1>2. ASSUME NEW n \in Nat, n \in H PROVE n + 1 \in H
  <2>1. PICK f : Solves(f, n)
    BY <1>2
  <2> DEFINE e == [s \in D(n + 1) |-> SumStep(g, f, s)]
  <2>2. \A s \in D(n) : s \in D(n + 1) /\ e[s] = f[s]
    <3> SUFFICES ASSUME NEW s \in D(n) PROVE s \in D(n + 1) /\ e[s] = f[s]
      OBVIOUS
    <3>1. Cardinality(s) \in Nat
      BY FS_Subset, FS_CardinalityType
    <3>2. s \in D(n + 1)
      BY <3>1
    <3>3. e[s] = SumStep(g, f, s)
      BY <3>2
    <3>4. f[s] = SumStep(g, f, s)
      BY <2>1
    <3> QED
      BY <3>2, <3>3, <3>4
  <2>3. ASSUME NEW s \in D(n + 1) PROVE SumStep(g, f, s) = SumStep(g, e, s)
    <3>1. CASE s = {}
      BY <3>1 DEF SumStep
    <3>2. CASE s # {}
      <4>1. Pick(s) \in s
        BY <3>2, PickIn
      <4>2. s \ {Pick(s)} \in D(n)
        BY <4>1, Removal
      <4>3. e[s \ {Pick(s)}] = f[s \ {Pick(s)}]
        BY <2>2, <4>2
      <4> HIDE DEF e
      <4> QED
        BY <4>3 DEF SumStep
    <3> QED
      BY <3>1, <3>2
  <2>4. Solves(e, n + 1)
    BY <2>3, Zenon
  <2>5. n + 1 \in Nat
    OBVIOUS
  <2>6. \E h : Solves(h, n + 1)
    BY <2>4, Zenon
  <2> QED
    BY <2>5, <2>6, Zenon
<1> HIDE DEF H
<1>3. Nat \subseteq H
  BY <1>1, <1>2, SetInduction
<1> USE DEF H
<1>4. Cardinality(S) \in Nat /\ D(Cardinality(S)) = SUBSET S
  BY FS_CardinalityType, FS_Subset
<1>5. PICK f : Solves(f, Cardinality(S))
  BY <1>3, <1>4
<1> QED
  BY <1>4, <1>5

\* So the partial sums satisfy the recursion.
LEMMA SumsUnfold ==
    ASSUME NEW g, NEW S, IsFiniteSet(S)
    PROVE  \A s \in SUBSET S : PartialSums(g, S)[s] = SumStep(g, PartialSums(g, S), s)
<1>1. PartialSums(g, S) = [s \in SUBSET S |-> SumStep(g, PartialSums(g, S), s)]
  BY SumsExist, Zenon DEF PartialSums
<1>2. PICK f : f = PartialSums(g, S) /\ f = [s \in SUBSET S |-> SumStep(g, f, s)]
  BY <1>1, Zenon
<1>3. \A s \in SUBSET S : f[s] = SumStep(g, f, s)
  BY <1>2
<1> QED
  BY <1>2, <1>3

\* The sum over a set does not depend on the set it is computed in.
LEMMA SumsAgree ==
    ASSUME NEW g, NEW T, IsFiniteSet(T), NEW S \in SUBSET T
    PROVE  \A s \in SUBSET S : PartialSums(g, S)[s] = PartialSums(g, T)[s]
<1> DEFINE H == {n \in Nat : \A s \in SUBSET S : Cardinality(s) = n =>
                    PartialSums(g, S)[s] = PartialSums(g, T)[s]}
<1>0. IsFiniteSet(S)
  BY FS_Subset
<1>a. \A s \in SUBSET S : /\ PartialSums(g, S)[s] = SumStep(g, PartialSums(g, S), s)
                          /\ PartialSums(g, T)[s] = SumStep(g, PartialSums(g, T), s)
  BY <1>0, SumsUnfold
<1>b. \A s \in SUBSET S : s # {} => Pick(s) \in s
  BY PickIn
<1>1. 0 \in H
  <2>1. \A s \in SUBSET S : Cardinality(s) = 0 => s = {}
    BY <1>0, FS_Subset, FS_EmptySet
  <2> QED
    BY <1>a, <2>1 DEF SumStep
<1>2. ASSUME NEW n \in Nat, n \in H PROVE n + 1 \in H
  <2> SUFFICES ASSUME NEW s \in SUBSET S, Cardinality(s) = n + 1
               PROVE  PartialSums(g, S)[s] = PartialSums(g, T)[s]
    OBVIOUS
  <2>1. s # {}
    BY FS_EmptySet
  <2>2. Pick(s) \in s
    BY <2>1, PickIn
  <2>3. s \ {Pick(s)} \in SUBSET S /\ Cardinality(s \ {Pick(s)}) = Cardinality(s) - 1
    BY <1>0, <2>2, Removal
  <2>4. PartialSums(g, S)[s \ {Pick(s)}] = PartialSums(g, T)[s \ {Pick(s)}]
    BY <1>2, <2>3
  <2> QED
    BY <1>a, <2>1, <2>4 DEF SumStep
<1> HIDE DEF H
<1>3. Nat \subseteq H
  BY <1>1, <1>2, SetInduction
<1> USE DEF H
<1>4. \A s \in SUBSET S : Cardinality(s) \in Nat
  BY <1>0, FS_Subset, FS_CardinalityType
<1> QED
  BY <1>3, <1>4

\* Sums of integers are integers.
LEMMA SumsAreIntegers ==
    ASSUME NEW g, NEW S, IsFiniteSet(S), \A a \in S : g[a] \in Int
    PROVE  \A s \in SUBSET S : PartialSums(g, S)[s] \in Int
<1> DEFINE f == PartialSums(g, S)
           H == {n \in Nat : \A s \in SUBSET S : Cardinality(s) = n => f[s] \in Int}
<1>a. \A s \in SUBSET S : f[s] = SumStep(g, f, s)
  BY SumsUnfold
<1> HIDE DEF f
<1>1. 0 \in H
  <2>1. \A s \in SUBSET S : Cardinality(s) = 0 => s = {}
    BY FS_Subset, FS_EmptySet
  <2>2. f[{}] = 0
    BY <1>a DEF SumStep
  <2> QED
    BY <2>1, <2>2
<1>2. ASSUME NEW n \in Nat, n \in H PROVE n + 1 \in H
  <2>0. SUFFICES ASSUME NEW s \in SUBSET S, Cardinality(s) = n + 1 PROVE f[s] \in Int
    OBVIOUS
  <2>1. s # {}
    BY <2>0, FS_EmptySet
  <2>2. PICK y \in s : y = Pick(s)
    BY <2>1, PickIn
  <2>3. s \ {y} \in SUBSET S /\ Cardinality(s \ {y}) = Cardinality(s) - 1
    BY <2>2, Removal
  <2>4. f[s \ {y}] \in Int /\ g[y] \in Int
    BY <1>2, <2>0, <2>3
  <2>5. f[s] = g[y] + f[s \ {y}]
    BY <1>a, <2>1, <2>2 DEF SumStep
  <2> QED
    BY <2>4, <2>5
<1> HIDE DEF H
<1>3. Nat \subseteq H
  BY <1>1, <1>2, SetInduction
<1>4. \A s \in SUBSET S : Cardinality(s) \in Nat
  BY FS_Subset, FS_CardinalityType
<1>5. \A s \in SUBSET S : f[s] \in Int
  BY <1>3, <1>4 DEF H
<1> QED
  BY <1>5 DEF f

\* Any element may be taken out first.
LEMMA SumsInAnyOrder ==
    ASSUME NEW g, NEW S, IsFiniteSet(S), \A a \in S : g[a] \in Int
    PROVE  \A s \in SUBSET S : \A x \in s :
              PartialSums(g, S)[s] = g[x] + PartialSums(g, S)[s \ {x}]
<1> DEFINE f == PartialSums(g, S)
           Fine(s) == \A x \in s : f[s] = g[x] + f[s \ {x}]
           H == {n \in Nat : \A s \in SUBSET S : Cardinality(s) = n => Fine(s)}
<1>a. \A s \in SUBSET S : f[s] = SumStep(g, f, s)
  BY SumsUnfold
<1>b. \A s \in SUBSET S : f[s] \in Int
  BY SumsAreIntegers
<1> HIDE DEF f
<1>1. 0 \in H
  <2>1. \A s \in SUBSET S : Cardinality(s) = 0 => s = {}
    BY FS_Subset, FS_EmptySet
  <2> QED
    BY <2>1
<1>2. ASSUME NEW n \in Nat, n \in H PROVE n + 1 \in H
  <2>0. SUFFICES ASSUME NEW s \in SUBSET S, Cardinality(s) = n + 1, NEW x \in s
                 PROVE  f[s] = g[x] + f[s \ {x}]
    OBVIOUS
  <2>1. s # {}
    OBVIOUS
  <2>2. PICK y \in s : y = Pick(s)
    BY <2>1, PickIn
  <2>3. \A z \in s : s \ {z} \in SUBSET S /\ Cardinality(s \ {z}) = Cardinality(s) - 1
    BY Removal
  <2>4. \A z \in s : Fine(s \ {z})
    BY <1>2, <2>0, <2>3
  <2>5. f[s] = g[y] + f[s \ {y}]
    BY <1>a, <2>1, <2>2 DEF SumStep
  <2>6. CASE x = y
    BY <2>5, <2>6
  <2>7. CASE x # y
    <3>1. x \in s \ {y} /\ y \in s \ {x} /\ (s \ {y}) \ {x} = (s \ {x}) \ {y}
      BY <2>7
    <3>2. f[s \ {y}] = g[x] + f[(s \ {y}) \ {x}] /\ f[s \ {x}] = g[y] + f[(s \ {x}) \ {y}]
      BY <2>4, <3>1
    <3>3. PICK r \in Int : r = f[(s \ {x}) \ {y}]
      BY <1>b
    <3>4. PICK v \in Int, w \in Int : v = g[x] /\ w = g[y]
      OBVIOUS
    <3>5. f[s] = w + (v + r) /\ f[s \ {x}] = w + r
      BY <2>5, <3>1, <3>2, <3>3, <3>4
    <3>6. w + (v + r) = v + (w + r)
      OBVIOUS
    <3> QED
      BY <3>4, <3>5, <3>6
  <2> QED
    BY <2>6, <2>7
<1> HIDE DEF H
<1>3. Nat \subseteq H
  BY <1>1, <1>2, SetInduction
<1>4. \A s \in SUBSET S : Cardinality(s) \in Nat
  BY FS_Subset, FS_CardinalityType
<1>5. \A s \in SUBSET S : Fine(s)
  BY <1>3, <1>4 DEF H
<1> QED
  BY <1>5 DEF f

\* The sum over no element.
LEMMA SumEmpty ==
    ASSUME NEW g
    PROVE  SumOver(g, {}) = 0
<1>1. PartialSums(g, {})[{}] = SumStep(g, PartialSums(g, {}), {})
  BY FS_EmptySet, SumsUnfold
<1> QED
  BY <1>1, SumUnfolds DEF SumStep

\* One more element adds its value.
LEMMA SumAdd ==
    ASSUME NEW g, NEW S, IsFiniteSet(S), NEW x, x \notin S, \A y \in S \cup {x} : g[y] \in Int
    PROVE  /\ SumOver(g, S \cup {x}) = SumOver(g, S) + g[x]
           /\ SumOver(g, S) \in Int
<1>1. PICK T : T = S \cup {x}
  OBVIOUS
<1>2. /\ IsFiniteSet(T) /\ S \in SUBSET T /\ T \in SUBSET T /\ x \in T /\ T \ {x} = S
      /\ \A y \in T : g[y] \in Int
  BY <1>1, FS_AddElement
<1>3. PartialSums(g, T)[T] = g[x] + PartialSums(g, T)[S]
  BY <1>2, SumsInAnyOrder
<1>4. PartialSums(g, T)[S] = PartialSums(g, S)[S] /\ PartialSums(g, T)[S] \in Int
  BY <1>2, SumsAgree, SumsAreIntegers
<1>5. SumOver(g, T) = PartialSums(g, T)[T] /\ SumOver(g, S) = PartialSums(g, S)[S]
  BY SumUnfolds
<1>6. g[x] \in Int
  OBVIOUS
<1>7. SumOver(g, T) = SumOver(g, S) + g[x] /\ SumOver(g, S) \in Int
  BY <1>3, <1>4, <1>5, <1>6
<1> QED
  BY <1>1, <1>7

\* Sums of integers are integers.
LEMMA SumIsInteger ==
    ASSUME NEW g, NEW S, IsFiniteSet(S), \A y \in S : g[y] \in Int
    PROVE  SumOver(g, S) \in Int
<1>1. S \in SUBSET S /\ PartialSums(g, S)[S] \in Int
  BY SumsAreIntegers
<1> QED
  BY <1>1, SumUnfolds

\* Only the values on the set matter.
LEMMA SumSame ==
    ASSUME NEW g, NEW h, NEW S, \A x \in S : g[x] = h[x]
    PROVE  SumOver(g, S) = SumOver(h, S)
<1>1. \A f : [s \in SUBSET S |-> SumStep(g, f, s)] = [s \in SUBSET S |-> SumStep(h, f, s)]
  <2>1. \A f : \A s \in SUBSET S : SumStep(g, f, s) = SumStep(h, f, s)
    BY PickIn DEF SumStep
  <2> QED
    BY <2>1
<1>2. PartialSums(g, S) = PartialSums(h, S)
  BY <1>1, Zenon DEF PartialSums
<1> QED
  BY <1>2, SumUnfolds

\* A value that changes changes the sum by as much.
LEMMA SumChange ==
    ASSUME NEW g, NEW h, NEW S, IsFiniteSet(S), NEW x \in S, NEW v \in Int,
           \A y \in S : g[y] \in Int, \A y \in S \ {x} : h[y] = g[y], h[x] = g[x] + v
    PROVE  SumOver(h, S) = SumOver(g, S) + v
<1>1. PICK T : T = S \ {x}
  OBVIOUS
<1>2. IsFiniteSet(T) /\ x \notin T /\ T \cup {x} = S
  BY <1>1, FS_Subset
<1>3. \A y \in T : h[y] = g[y] /\ g[y] \in Int /\ h[y] \in Int
  BY <1>1
<1>4. g[x] \in Int /\ h[x] \in Int
  OBVIOUS
<1>5. SumOver(g, S) = SumOver(g, T) + g[x] /\ SumOver(g, T) \in Int
  BY <1>2, <1>3, <1>4, SumAdd
<1>6. SumOver(h, S) = SumOver(h, T) + h[x]
  BY <1>2, <1>3, <1>4, SumAdd
<1>7. SumOver(h, T) = SumOver(g, T)
  BY <1>3, SumSame
<1> QED
  BY <1>4, <1>5, <1>6, <1>7

-----------------------------------------------------------------------------
(***************************************************************************)
(* The accumulators are the sums of the rows.                              *)
(***************************************************************************)

\* The rows that give a measure of a period, and what they give.
G(f, p) == {i \in Read : f \in Ns(i) /\ P(i) = p}

Given(f, p) == [i \in G(f, p) |-> C(i)[f]]

\* Amounts, totals and counts are those of the rows.
AmountInv ==
    /\ acc.total \in [NumericFields -> Int] /\ acc.count \in [NumericFields -> Nat]
    /\ \A f \in NumericFields \ NonAdditive : \A p \in PeriodsOf(f) :
         acc.by_period[<<f, p>>] = SumOver(Given(f, p), G(f, p))
    /\ \A f \in NumericFields : acc.total[f] = SumOver(ByPeriod(f), PeriodsOf(f))
    /\ \A f \in NonAdditive : acc.count[f] = Cardinality(PeriodsOf(f))

\* The periods of a measure are those of its keys.
LEMMA PeriodsByKey ==
    ASSUME OwnerInv, BoundInv, NEW f
    PROVE  /\ \A p : p \in PeriodsOf(f) <=> <<f, p>> \in DOMAIN acc.by_period
           /\ IsFiniteSet(PeriodsOf(f))
           /\ \A p \in PeriodsOf(f) : ByPeriod(f)[p] = acc.by_period[<<f, p>>] /\ ByPeriod(f)[p] \in Int
           /\ DOMAIN ByPeriod(f) = PeriodsOf(f)
<1> DEFINE K == {k \in DOMAIN acc.by_period : k[1] = f}
           g == [k \in K |-> k[2]]
<1>1. \A k \in DOMAIN acc.by_period : k = <<k[1], k[2]>> /\ acc.by_period[k] \in Int
  BY DEF OwnerInv
<1>2. \A p : p \in PeriodsOf(f) <=> <<f, p>> \in DOMAIN acc.by_period
  BY <1>1 DEF PeriodsOf
<1>3. IsFiniteSet(PeriodsOf(f))
  <2>1. IsFiniteSet(K)
    BY FS_Subset DEF BoundInv
  <2>2. PeriodsOf(f) = {g[k] : k \in K}
    BY DEF PeriodsOf
  <2>3. g = [k \in K |-> g[k]]
    OBVIOUS
  <2> HIDE DEF g, K
  <2> QED
    BY <2>1, <2>2, <2>3, ImageFinite
<1>4. \A p \in PeriodsOf(f) : ByPeriod(f)[p] = acc.by_period[<<f, p>>] /\ ByPeriod(f)[p] \in Int
  BY <1>1, <1>2 DEF ByPeriod
<1>5. DOMAIN ByPeriod(f) = PeriodsOf(f)
  BY DEF ByPeriod
<1> QED
  BY <1>2, <1>3, <1>4, <1>5

LEMMA PeriodsByKeyNext ==
    ASSUME OwnerInv', BoundInv', NEW f
    PROVE  /\ \A p : p \in PeriodsOf(f)' <=> <<f, p>> \in DOMAIN acc'.by_period
           /\ \A p \in PeriodsOf(f)' : ByPeriod(f)'[p] = acc'.by_period[<<f, p>>]
<1>1. \A k \in DOMAIN acc'.by_period : k = <<k[1], k[2]>>
  BY DEF OwnerInv
<1>2. \A p : p \in PeriodsOf(f)' <=> <<f, p>> \in DOMAIN acc'.by_period
  BY <1>1 DEF PeriodsOf
<1>3. \A p \in PeriodsOf(f)' : ByPeriod(f)'[p] = acc'.by_period[<<f, p>>]
  BY DEF ByPeriod
<1> QED
  BY <1>2, <1>3

\* What an accepted row does to the amounts of a measure.
LEMMA AmountStep ==
    ASSUME NEW row, NEW n, Accepts(row, n), NEW f \in NumericFields
    PROVE  /\ PeriodsOf(f)' = PeriodsOf(f) \cup IF f \in Numbers(row) THEN {Period(row)} ELSE {}
           /\ \A q \in PeriodsOf(f)' :
                ByPeriod(f)'[q] = (IF q \in PeriodsOf(f) THEN ByPeriod(f)[q] ELSE 0)
                                  + (IF f \in Counted(row) /\ q = Period(row) THEN Cells(row)[f] ELSE 0)
           /\ f \in Counted(row) <=>
                f \in Numbers(row) /\ (f \in NonAdditive => Period(row) \notin PeriodsOf(f))
<1>1. OwnerInv /\ BoundInv /\ OwnerInv' /\ BoundInv' /\ acc' = Observed(row)
  BY AcceptOwner, AcceptBound DEF Accepts, Reads, AccInv
<1>2. PICK B : B = acc.by_period
  OBVIOUS
<1>3. PICK M : M = AddedByPeriod(row)
  OBVIOUS
<1>4. acc'.by_period = Plus(B, M)
  BY <1>1, <1>2, <1>3, ObservedKeys
<1>5. /\ DOMAIN acc'.by_period = DOMAIN B \cup DOMAIN M
      /\ \A k \in DOMAIN B \cup DOMAIN M : acc'.by_period[k] = At(B, k) + At(M, k)
  BY <1>4, PlusMaps
<1>6. f \in Counted(row) <=> f \in Numbers(row) /\ (f \in NonAdditive => <<f, Period(row)>> \notin DOMAIN B)
  BY <1>2 DEF Counted
<1>7. \A q : /\ <<f, q>> \in DOMAIN M <=> f \in Counted(row) /\ q = Period(row)
             /\ <<f, q>> \in DOMAIN M => M[<<f, q>>] = Cells(row)[f]
  BY <1>3 DEF AddedByPeriod
<1>8. /\ \A p : p \in PeriodsOf(f) <=> <<f, p>> \in DOMAIN B
      /\ \A p \in PeriodsOf(f) : ByPeriod(f)[p] = B[<<f, p>>]
  BY <1>1, <1>2, PeriodsByKey
<1>9. /\ \A p : p \in PeriodsOf(f)' <=> <<f, p>> \in DOMAIN acc'.by_period
      /\ \A p \in PeriodsOf(f)' : ByPeriod(f)'[p] = acc'.by_period[<<f, p>>]
  BY <1>1, PeriodsByKeyNext
<1>10. \A q : At(M, <<f, q>>) = IF f \in Counted(row) /\ q = Period(row) THEN Cells(row)[f] ELSE 0
  BY <1>7 DEF At
<1>11. \A q : At(B, <<f, q>>) = IF q \in PeriodsOf(f) THEN ByPeriod(f)[q] ELSE 0
  BY <1>8 DEF At
<1>12. ASSUME NEW q PROVE q \in PeriodsOf(f)' <=>
                            q \in PeriodsOf(f) \/ (f \in Numbers(row) /\ q = Period(row))
  BY <1>5, <1>6, <1>7, <1>8, <1>9
<1>13. ASSUME NEW q \in PeriodsOf(f)'
       PROVE  ByPeriod(f)'[q] = (IF q \in PeriodsOf(f) THEN ByPeriod(f)[q] ELSE 0)
                + (IF f \in Counted(row) /\ q = Period(row) THEN Cells(row)[f] ELSE 0)
  BY <1>5, <1>9, <1>10, <1>11
<1>14. f \in Counted(row) <=>
          f \in Numbers(row) /\ (f \in NonAdditive => Period(row) \notin PeriodsOf(f))
  BY <1>6, <1>8
<1>15. PeriodsOf(f)' = PeriodsOf(f) \cup IF f \in Numbers(row) THEN {Period(row)} ELSE {}
  BY <1>12
<1> QED
  BY <1>13, <1>14, <1>15

\* What it does to its total and its count.
LEMMA TotalStep ==
    ASSUME NEW row, NEW n, Accepts(row, n), AmountInv, NEW f \in NumericFields
    PROVE  /\ acc'.total[f] = SumOver(ByPeriod(f)', PeriodsOf(f)')
           /\ f \in NonAdditive => acc'.count[f] = Cardinality(PeriodsOf(f)')
<1>1. PICK S, A : S = PeriodsOf(f) /\ A = ByPeriod(f)
  OBVIOUS
<1>2. PICK T, B : T = PeriodsOf(f)' /\ B = ByPeriod(f)'
  OBVIOUS
<1>3. PICK p, v : p = Period(row) /\ v = Cells(row)[f]
  OBVIOUS
<1>4. /\ T = S \cup IF f \in Numbers(row) THEN {p} ELSE {}
      /\ \A q \in T : B[q] = (IF q \in S THEN A[q] ELSE 0)
                             + (IF f \in Counted(row) /\ q = p THEN v ELSE 0)
      /\ f \in Counted(row) <=> f \in Numbers(row) /\ (f \in NonAdditive => p \notin S)
  BY <1>1, <1>2, <1>3, AmountStep
<1>5. IsFiniteSet(S) /\ \A q \in S : A[q] \in Int
  BY <1>1, PeriodsByKey DEF Accepts, Reads, AccInv
<1>6. f \in Numbers(row) => v \in Int
  BY <1>3, FittingRow DEF Accepts, Reads
<1>7. /\ acc.total[f] = SumOver(A, S) /\ acc.total[f] \in Int /\ acc.count[f] \in Nat
      /\ f \in NonAdditive => acc.count[f] = Cardinality(S)
  BY <1>1 DEF AmountInv
<1>8. /\ acc'.total[f] = acc.total[f] + IF f \in Counted(row) THEN v ELSE 0
      /\ acc'.count[f] = acc.count[f] + IF f \in Counted(row) THEN 1 ELSE 0
  BY <1>3 DEF Accepts, Observed
<1>9. CASE f \notin Counted(row)
  <2>1. T = S
    <3>1. CASE f \notin Numbers(row)
      BY <1>4, <3>1
    <3>2. CASE f \in Numbers(row)
      BY <1>4, <1>9, <3>2
    <3> QED
      BY <3>1, <3>2
  <2>2. \A q \in S : B[q] = A[q]
    BY <1>4, <1>5, <1>9, <2>1
  <2>3. SumOver(B, S) = SumOver(A, S)
    BY <2>2, SumSame
  <2> QED
    BY <1>2, <1>7, <1>8, <1>9, <2>1, <2>3
<1>10. CASE f \in Counted(row) /\ p \notin S
  <2>1. T = S \cup {p} /\ v \in Int
    BY <1>4, <1>6, <1>10
  <2>2. (\A q \in S : B[q] = A[q]) /\ B[p] = v
    BY <1>4, <1>5, <1>10, <2>1
  <2>3. SumOver(B, S) = SumOver(A, S)
    BY <2>2, SumSame
  <2>4. SumOver(B, T) = SumOver(B, S) + v
    <3>1. \A q \in S \cup {p} : B[q] \in Int
      BY <1>5, <2>1, <2>2
    <3> QED
      BY <1>5, <1>10, <2>1, <2>2, <3>1, SumAdd
  <2>5. Cardinality(T) = Cardinality(S) + 1
    BY <1>5, <1>10, <2>1, FS_AddElement
  <2> QED
    BY <1>2, <1>7, <1>8, <1>10, <2>3, <2>4, <2>5
<1>11. CASE f \in Counted(row) /\ p \in S
  <2>1. T = S /\ v \in Int /\ f \notin NonAdditive
    BY <1>4, <1>6, <1>11
  <2>2. (\A q \in S \ {p} : B[q] = A[q]) /\ B[p] = A[p] + v
    BY <1>4, <1>5, <1>11, <2>1
  <2>3. SumOver(B, S) = SumOver(A, S) + v
    BY <1>5, <1>11, <2>1, <2>2, SumChange
  <2> QED
    BY <1>2, <1>7, <1>8, <1>11, <2>1, <2>3
<1> QED
  BY <1>9, <1>10, <1>11

\* And what it does to the rows of one period.
LEMMA PeriodStep ==
    ASSUME NEW row, NEW n, Accepts(row, n), AmountInv,
           NEW f \in NumericFields \ NonAdditive, NEW q \in PeriodsOf(f)'
    PROVE  acc'.by_period[<<f, q>>] = SumOver(Given(f, q)', G(f, q)')
<1>1. OneMore(row, n) /\ IsFiniteSet(Read)
  BY ReadsOneMore DEF Accepts
<1>2. PICK I, A : I = G(f, q) /\ A = Given(f, q)
  OBVIOUS
<1>3. PICK J, B : J = G(f, q)' /\ B = Given(f, q)'
  OBVIOUS
<1>4. PICK p, v : p = Period(row) /\ v = Cells(row)[f]
  OBVIOUS
<1>5. n \notin I /\ J = IF f \in Numbers(row) /\ q = p THEN I \cup {n} ELSE I
  BY <1>1, <1>2, <1>3, <1>4 DEF OneMore, G
<1>6. IsFiniteSet(I)
  <2>1. I \subseteq Read
    BY <1>2 DEF G
  <2> QED
    BY <1>1, <2>1, FS_Subset
<1>7. /\ \A i \in I : A[i] \in Int /\ B[i] = A[i]
      /\ f \in Numbers(row) /\ q = p => B[n] = v
  <2>1. \A i \in I : i \in J /\ B[i] = C(i)'[f] /\ A[i] = C(i)[f] /\ C(i)' = C(i) /\ f \in Ns(i) /\ i \in Read
    BY <1>1, <1>2, <1>3, <1>5 DEF OneMore, G, Given
  <2>2. \A i \in I : C(i)[f] \in Int
    <3>1. ASSUME NEW i \in I PROVE C(i)[f] \in Int
      <4>1. i \in Read /\ f \in Ns(i) /\ f \in DOMAIN C(i)
        BY <2>1 DEF Ns
      <4>2. C(i)[f] \in Int \cup {Text}
        BY <4>1, ReadFacts DEF Accepts, Reads
      <4>3. C(i)[f] # Text
        BY <4>1 DEF Accepts, Reads, AccInv, CleanInv
      <4> QED
        BY <4>2, <4>3
    <3> QED
      BY <3>1
  <2>3. f \in Numbers(row) /\ q = p => B[n] = v
    BY <1>1, <1>3, <1>4, <1>5 DEF OneMore, Given
  <2> QED
    BY <2>1, <2>2, <2>3
<1>8. f \in Numbers(row) => v \in Int
  BY <1>4, FittingRow DEF Accepts, Reads
<1>9. SumOver(B, I) = SumOver(A, I) /\ SumOver(A, I) \in Int
  BY <1>6, <1>7, SumSame, SumIsInteger
<1>10. f \in Numbers(row) /\ q = p => SumOver(B, J) = SumOver(A, I) + v
  <2> SUFFICES ASSUME f \in Numbers(row) /\ q = p PROVE SumOver(B, J) = SumOver(A, I) + v
    OBVIOUS
  <2>1. J = I \cup {n} /\ B[n] = v /\ v \in Int
    BY <1>5, <1>7, <1>8
  <2>2. \A i \in I \cup {n} : B[i] \in Int
    BY <1>7, <2>1
  <2> QED
    BY <1>5, <1>6, <1>9, <2>1, <2>2, SumAdd
<1>11. f \in NumericFields /\ f \notin NonAdditive
  OBVIOUS
<1>12. /\ PeriodsOf(f)' = PeriodsOf(f) \cup IF f \in Numbers(row) THEN {p} ELSE {}
       /\ ByPeriod(f)'[q] = (IF q \in PeriodsOf(f) THEN ByPeriod(f)[q] ELSE 0)
                            + (IF f \in Counted(row) /\ q = p THEN v ELSE 0)
       /\ f \in Counted(row) <=> f \in Numbers(row)
  BY <1>4, <1>11, AmountStep
<1>13. ByPeriod(f)'[q] = acc'.by_period[<<f, q>>]
  BY DEF ByPeriod
<1>14. q \in PeriodsOf(f) => ByPeriod(f)[q] = SumOver(A, I) /\ ByPeriod(f)[q] \in Int
  BY <1>2, PeriodsByKey DEF Accepts, Reads, AccInv, AmountInv
<1>15. q \notin PeriodsOf(f) => I = {} /\ f \in Numbers(row) /\ q = p
  <2>1. ASSUME q \notin PeriodsOf(f) PROVE I = {}
    <3>1. \A i \in Read : f \in Ns(i) => <<f, P(i)>> \in DOMAIN acc.by_period
      BY DEF Accepts, Reads, AccInv, OwnerInv
    <3>2. <<f, q>> \notin DOMAIN acc.by_period
      BY <2>1, PeriodsByKey DEF Accepts, Reads, AccInv
    <3> QED
      BY <1>2, <3>1, <3>2 DEF G
  <2> QED
    BY <1>12, <2>1
<1>16. CASE q \in PeriodsOf(f)
  BY <1>3, <1>5, <1>8, <1>9, <1>10, <1>12, <1>13, <1>14, <1>16
<1>17. CASE q \notin PeriodsOf(f)
  <2>1. SumOver(A, I) = 0
    BY <1>15, <1>17, SumEmpty
  <2> QED
    BY <1>3, <1>8, <1>10, <1>12, <1>13, <1>15, <1>17, <2>1
<1> QED
  BY <1>16, <1>17

\* The amounts after an accepted row,
LEMMA AcceptAmounts ==
    ASSUME NEW row, NEW n, Accepts(row, n), AmountInv
    PROVE  AmountInv'
<1>1. acc'.total \in [NumericFields -> Int] /\ acc'.count \in [NumericFields -> Nat]
  <2>1. \A f \in Counted(row) : Cells(row)[f] \in Int
    <3>1. Counted(row) \subseteq Numbers(row)
      BY DEF Counted
    <3> QED
      BY <3>1, FittingRow DEF Accepts, Reads
  <2>2. acc' = Observed(row)
    BY DEF Accepts
  <2>3. /\ acc'.total = [f \in NumericFields |->
                           acc.total[f] + IF f \in Counted(row) THEN Cells(row)[f] ELSE 0]
        /\ acc'.count = [f \in NumericFields |-> acc.count[f] + IF f \in Counted(row) THEN 1 ELSE 0]
    BY <2>2 DEF Observed
  <2>4. acc.total \in [NumericFields -> Int] /\ acc.count \in [NumericFields -> Nat]
    BY DEF AmountInv
  <2> QED
    BY <2>1, <2>3, <2>4
<1>2. \A f \in NumericFields \ NonAdditive : \A q \in PeriodsOf(f)' :
         acc'.by_period[<<f, q>>] = SumOver(Given(f, q)', G(f, q)')
  BY PeriodStep
<1>3. \A f \in NumericFields : acc'.total[f] = SumOver(ByPeriod(f)', PeriodsOf(f)')
  BY TotalStep
<1>4. \A f \in NonAdditive : acc'.count[f] = Cardinality(PeriodsOf(f)')
  <2>1. NonAdditive \subseteq NumericFields
    BY DEF NonAdditive, NumericFields
  <2> QED
    BY <2>1, TotalStep
<1> QED
  BY <1>1, <1>2, <1>3, <1>4 DEF AmountInv

\* and after a step that accepts none.
LEMMA IdleAmounts ==
    ASSUME AmountInv, UNCHANGED acc, Read' = Read,
           \A i \in Read : C(i)' = C(i) /\ Ns(i)' = Ns(i) /\ P(i)' = P(i)
    PROVE  AmountInv'
<1>1. \A f : PeriodsOf(f)' = PeriodsOf(f) /\ ByPeriod(f)' = ByPeriod(f)
  BY DEF PeriodsOf, ByPeriod
<1>2. \A f, p : G(f, p)' = G(f, p)
  BY DEF G
<1>3. \A f, p : Given(f, p)' = Given(f, p)
  BY <1>2 DEF Given, G
<1> QED
  BY <1>1, <1>2, <1>3 DEF AmountInv

\* The keys of the accumulator, also once a row has been refused.
KeyInv ==
    /\ TypeOK
    /\ \A k \in DOMAIN acc.points : k[2] \in DimensionFields

LEMMA AcceptKeys ==
    ASSUME NEW row, NEW n, Accepts(row, n), KeyInv, UNCHANGED <<job, status, error>>
    PROVE  KeyInv'
<1>1. PICK A : A = Aggregated(row)
  OBVIOUS
<1>2. /\ conf' = conf /\ acc' = Observed(row) /\ BaseInv
  BY DEF Accepts, Reads
<1>3. /\ DOMAIN acc'.by_period = DOMAIN acc.by_period \cup NewKeys(row)
  <2>1. PICK more : more = AddedByPeriod(row)
    OBVIOUS
  <2>2. /\ acc'.by_period = Plus(acc.by_period, more)
        /\ DOMAIN more \subseteq NewKeys(row) /\ NewKeys(row) \subseteq DOMAIN acc.by_period \cup DOMAIN more
    BY <1>2, <2>1, ObservedKeys
  <2>3. DOMAIN acc'.by_period = DOMAIN acc.by_period \cup DOMAIN more
    BY <2>2, PlusMaps
  <2> QED
    BY <2>2, <2>3
<1>4. DOMAIN acc'.points = DOMAIN acc.points \cup NewPoints(row)
  BY AcceptPoint
<1>5. DOMAIN acc'.by_dim = DOMAIN acc.by_dim
                           \cup {<<a[1], a[2], Cells(row)[a[2]]>> : a \in Aggregated(row)}
  <2>1. acc'.by_dim = Plus(acc.by_dim, AddedByDimension(row))
    BY <1>2 DEF Observed
  <2>2. DOMAIN AddedByDimension(row) = {<<a[1], a[2], Cells(row)[a[2]]>> : a \in Aggregated(row)}
    BY DEF AddedByDimension
  <2> QED
    BY <2>1, <2>2, PlusMaps
<1>6. \A d \in DimensionFields : acc'.unique[d] =
         acc.unique[d] \cup IF d \in Dimensions(row) THEN {Cells(row)[d]} ELSE {}
  BY <1>2 DEF Observed
<1>7. /\ \A f \in DOMAIN Cells(row) : Cells(row)[f] \notin {Text, Long, Null}
      /\ Numbers(row) # {} => Period(row) \in Nat
  BY FittingRow DEF Accepts, Reads
<1>8. \A k \in DOMAIN acc'.by_period : k[1] \in NumericFields /\ k[2] \in Nat
  <2>1. \A k \in NewKeys(row) : k[1] \in NumericFields /\ k[2] \in Nat
    BY <1>7 DEF NewKeys, Numbers
  <2> QED
    BY <1>3, <2>1 DEF KeyInv, TypeOK
<1>9. ASSUME NEW k \in DOMAIN acc'.points
      PROVE  /\ <<k[1], k[3]>> \in DOMAIN acc'.by_period
             /\ <<k[1], k[2], k[4]>> \in DOMAIN acc'.by_dim
             /\ k[4] \in acc'.unique[k[2]] \ {Long, Null}
             /\ k[2] \in DimensionFields
  <2>1. CASE k \in DOMAIN acc.points
    BY <1>3, <1>5, <1>6, <2>1 DEF KeyInv, TypeOK
  <2>2. CASE k \in NewPoints(row)
    <3>1. PICK a \in Aggregated(row) : k = <<a[1], a[2], Period(row), Cells(row)[a[2]]>>
      BY <2>2 DEF NewPoints
    <3>2. a[1] \in Numbers(row) /\ a[2] \in Dimensions(row)
      BY <3>1 DEF Aggregated, Counted
    <3>3. a[2] \in DimensionFields /\ a[2] \in DOMAIN Cells(row)
      BY <3>2 DEF Dimensions
    <3>4. <<a[1], Period(row)>> \in NewKeys(row)
      BY <3>2 DEF NewKeys
    <3>5. <<a[1], a[2], Cells(row)[a[2]]>> \in DOMAIN acc'.by_dim
      BY <1>5, <3>1
    <3>6. Cells(row)[a[2]] \in acc'.unique[a[2]] \ {Long, Null}
      BY <1>6, <1>7, <3>2, <3>3
    <3> QED
      BY <1>3, <3>1, <3>3, <3>4, <3>5, <3>6
  <2> QED
    BY <1>4, <2>1, <2>2
<1> QED
  BY <1>2, <1>8, <1>9 DEF KeyInv, TypeOK

\* Steps that leave the accumulator alone.
LEMMA IdleKeys ==
    ASSUME KeyInv, UNCHANGED <<conf, acc>>, job' \in 1..JobCount,
           status' \in {"profile", "rows", "ready", "rendered", "failed"},
           status' = "failed" <=> error' # "none"
    PROVE  KeyInv'
BY DEF KeyInv, TypeOK

FaithInv == VerdictInv /\ KeyInv /\ (status # "failed" => AmountInv)

LEMMA FaithInit == Init => FaithInv
<1> SUFFICES ASSUME Init PROVE FaithInv
  OBVIOUS
<1>1. VerdictInv
  BY VerdictInit
<1>2. /\ acc.by_period = <<>> /\ acc.points = <<>>
      /\ acc.total = [f \in NumericFields |-> 0] /\ acc.count = [f \in NumericFields |-> 0]
  BY DEF Init, NoRows
<1>3. DOMAIN acc.by_period = {} /\ DOMAIN acc.points = {}
  BY <1>2
<1>4. KeyInv
  <2>1. 1 \in 1..JobCount
    BY InsightsAssumption
  <2> QED
    BY <1>3, <2>1 DEF KeyInv, TypeOK, Init
<1>5. \A f : PeriodsOf(f) = {}
  BY <1>3 DEF PeriodsOf
<1>6. \A f : SumOver(ByPeriod(f), PeriodsOf(f)) = 0
  BY <1>5, SumEmpty
<1>7. Cardinality({}) = 0 /\ NonAdditive \subseteq NumericFields
  BY FS_EmptySet DEF NonAdditive, NumericFields
<1>8. /\ acc.total \in [NumericFields -> Int] /\ acc.count \in [NumericFields -> Nat]
      /\ \A f \in NumericFields : acc.total[f] = 0 /\ acc.count[f] = 0
  BY <1>2
<1>9. \A f \in NonAdditive : acc.count[f] = Cardinality(PeriodsOf(f))
  BY <1>5, <1>7, <1>8
<1>10. \A f \in NumericFields : acc.total[f] = SumOver(ByPeriod(f), PeriodsOf(f))
  BY <1>6, <1>8
<1>11. AmountInv
  BY <1>5, <1>8, <1>9, <1>10 DEF AmountInv
<1> QED
  BY <1>1, <1>4, <1>11 DEF FaithInv

\* The codes of the errors of a row.
LEMMA RowCodes ==
    ASSUME NEW row
    PROVE  "none" \notin RowErrors(row)
<1>1. "none" \notin LabelErrors(row)
  BY DEF LabelErrors
<1>2. "none" \notin NumberErrors(row)
  BY DEF NumberErrors
<1>3. "none" \notin StatusErrors(row)
  BY DEF StatusErrors
<1> QED
  BY <1>1, <1>2, <1>3 DEF RowErrors

LEMMA FaithRow ==
    ASSUME FaithInv, NEW row \in Rows(conf.type), ReadRow(row)
    PROVE  FaithInv'
<1>1. PICK n : n = Len(rows) + 1
  OBVIOUS
<1>2. VerdictInv'
  BY VerdictRow DEF FaithInv
<1>3. /\ BaseInv /\ AccInv /\ AmountInv /\ KeyInv /\ conf' = conf /\ rows' = Append(rows, row)
      /\ status = "rows" /\ job' = job
  BY DEF FaithInv, VerdictInv, ReadRow
<1>4. job \in 1..JobCount /\ error = "none"
  BY <1>3 DEF KeyInv, TypeOK
<1>5. CASE row.sheet \notin Sheets /\ Fails("invalid_artifact") /\ UNCHANGED acc
  <2>1. KeyInv'
    BY <1>3, <1>4, <1>5, IdleKeys DEF Fails
  <2> QED
    BY <1>2, <1>5, <2>1 DEF FaithInv, Fails
<1>6. CASE row.sheet \in Sheets /\ ~Mapped(row) /\ UNCHANGED <<acc, status, error>>
  <2>1. KeyInv'
    BY <1>3, <1>4, <1>6, IdleKeys
  <2>2. /\ Read' = Read
        /\ \A i \in DOMAIN rows : C(i)' = C(i) /\ Ns(i)' = Ns(i) /\ P(i)' = P(i)
    BY <1>1, <1>3, <1>6, RowAppended
  <2>3. Read \subseteq DOMAIN rows
    BY DEF Read
  <2>4. AmountInv'
    BY <1>3, <1>6, <2>2, <2>3, IdleAmounts
  <2> QED
    BY <1>2, <2>1, <2>4 DEF FaithInv
<1>7. CASE /\ row.sheet \in Sheets /\ Mapped(row) /\ RowErrors(row) = {}
           /\ acc' = Observed(row) /\ UNCHANGED <<status, error>>
  <2>1. Accepts(row, n)
    BY <1>1, <1>3, <1>7, FitsIffNoError DEF Accepts, Reads
  <2>2. AmountInv' /\ KeyInv'
    BY <1>3, <1>7, <2>1, AcceptAmounts, AcceptKeys
  <2> QED
    BY <1>2, <2>2 DEF FaithInv
<1>8. CASE /\ row.sheet \in Sheets /\ Mapped(row) /\ UNCHANGED acc
           /\ \E code \in RowErrors(row) : Fails(code)
  <2>1. status' = "failed" /\ error' # "none"
    BY <1>8, RowCodes DEF Fails
  <2>2. KeyInv'
    BY <1>3, <1>4, <1>8, <2>1, IdleKeys
  <2> QED
    BY <1>2, <2>1, <2>2 DEF FaithInv
<1> QED
  BY <1>5, <1>6, <1>7, <1>8 DEF ReadRow

\* Steps that read no row.
LEMMA FaithIdle ==
    ASSUME FaithInv, VerdictInv', UNCHANGED <<conf, rows, acc>>, job' \in 1..JobCount,
           status' = "failed" <=> error' # "none", status' # "failed" => status # "failed"
    PROVE  FaithInv'
<1>1. KeyInv'
  BY IdleKeys DEF FaithInv, VerdictInv, BaseInv
<1>2. Read' = Read /\ \A i : C(i)' = C(i) /\ Ns(i)' = Ns(i) /\ P(i)' = P(i)
  BY DEF Read, Mapped, C, Cells, Ns, P
<1>3. status' # "failed" => AmountInv'
  BY <1>2, IdleAmounts DEF FaithInv
<1> QED
  BY <1>1, <1>3 DEF FaithInv

LEMMA FaithInductive == FaithInv /\ [Next]_vars => FaithInv'
<1> SUFFICES ASSUME FaithInv, [Next]_vars PROVE FaithInv'
  OBVIOUS
<1>1. VerdictInv'
  BY VerdictInductive DEF FaithInv
<1>2. job \in 1..JobCount /\ (status = "failed" <=> error # "none") /\ JobCount \in Nat
  BY InsightsAssumption DEF FaithInv, KeyInv, TypeOK
<1>3. CASE ReadProfile
  BY <1>1, <1>2, <1>3, FaithIdle DEF ReadProfile, Fails
<1>4. CASE \E row \in Rows(conf.type) : ReadRow(row)
  BY <1>4, FaithRow
<1>5. CASE EndOfReport
  <2>1. job' \in 1..JobCount
    BY <1>2, <1>5 DEF EndOfReport
  <2> QED
    BY <1>1, <1>2, <1>5, <2>1, FaithIdle DEF EndOfReport, Fails
<1>6. CASE Render
  BY <1>1, <1>2, <1>6, FaithIdle DEF Render, Fails
<1>7. CASE UNCHANGED vars
  BY <1>1, <1>2, <1>7, FaithIdle DEF vars
<1> QED
  BY <1>3, <1>4, <1>5, <1>6, <1>7 DEF Next

\* Amount, for a measure that is added up.
LEMMA AmountIsSum ==
    ASSUME NEW f, f \notin NonAdditive, NEW p
    PROVE  Amount(f, Giving(f, p)) = SumOver(Given(f, p), G(f, p))
<1>1. PICK I, g : I = G(f, p) /\ g = Given(f, p)
  OBVIOUS
<1>2. Giving(f, p) = I
  BY <1>1 DEF Giving, G, Ns, P, C, Numbers, Period, HasPeriod
<1>3. \A i \in I : g[i] = Value(i, f)
  BY <1>1 DEF Given, Value, C
<1> DEFINE Step(h, s) == IF s = {} THEN 0 ELSE Value(Pick(s), f) + h[s \ {Pick(s)}]
<1>4. \A h : \A s \in SUBSET I : SumStep(g, h, s) = Step(h, s)
  BY <1>3, PickIn DEF SumStep
<1>5. \A h : [s \in SUBSET I |-> SumStep(g, h, s)] = [s \in SUBSET I |-> Step(h, s)]
  BY <1>4
<1> HIDE DEF Step
<1>6. PartialSums(g, I) = CHOOSE h : h = [s \in SUBSET I |-> Step(h, s)]
  BY <1>5, Zenon DEF PartialSums
<1> USE DEF Step
<1>7. MapThenSumSet(LAMBDA i : Value(i, f), I) = PartialSums(g, I)[I]
  BY <1>6, Zenon DEF MapThenSumSet, MapThenFoldSet, Pick
<1>8. Amount(f, I) = PartialSums(g, I)[I]
  BY <1>7, Zenon DEF Amount
<1>9. Amount(f, I) = SumOver(g, I)
  BY <1>8, SumUnfolds
<1> QED
  BY <1>1, <1>2, <1>9

\* The periods of a measure are those of the rows that give it.
LEMMA PeriodsAreRead ==
    ASSUME BaseInv, AccInv, NEW f
    PROVE  PeriodsOf(f) = {p \in AllPeriods : Giving(f, p) # {}}
<1>1. \A p : p \in PeriodsOf(f) <=> <<f, p>> \in DOMAIN acc.by_period
  BY PeriodsByKey DEF AccInv
<1>2. \A key : key \in DOMAIN acc.by_period <=> \E i \in Read : \E g \in Ns(i) : key = <<g, P(i)>>
  BY DEF AccInv, OwnerInv
<1>3. \A i \in Read : Ns(i) # {} => P(i) # Null
  <2>1. ASSUME NEW i \in Read, Ns(i) # {} PROVE P(i) # Null
    <3>1. "period" \in DOMAIN C(i)
      BY <2>1 DEF AccInv, CleanInv
    <3>2. C(i)["period"] # Null
      BY <2>1, <3>1, ReadFacts
    <3> QED
      BY <3>1, <3>2 DEF P
  <2> QED
    BY <2>1
<1>4. \A p : p \in PeriodSet(f) <=> p # Null /\ \E i \in Read : f \in Ns(i) /\ P(i) = p
  BY SetsByPositionHold DEF SetsByPosition
<1>5. ASSUME NEW p PROVE <<f, p>> \in DOMAIN acc.by_period <=> \E i \in Read : f \in Ns(i) /\ P(i) = p
  BY <1>2
<1>6. ASSUME NEW p PROVE p \in PeriodsOf(f) <=> p \in PeriodSet(f)
  BY <1>1, <1>3, <1>4, <1>5
<1>7. PeriodsOf(f) = PeriodSet(f)
  BY <1>6
<1> QED
  BY <1>7 DEF PeriodSet

\* The accumulators hold what the rows give for a measure.
LEMMA FieldFaithful ==
    ASSUME FaithInv, status # "failed", NEW f \in RequiredNumeric(conf.type)
    PROVE  /\ PeriodsOf(f) = {p \in AllPeriods : Giving(f, p) # {}}
           /\ \A p \in PeriodsOf(f) : ByPeriod(f)[p] = Amount(f, Giving(f, p))
           /\ acc.total[f] = SumOf(ByPeriod(f))
           /\ f \in NonAdditive => acc.count[f] = Cardinality(PeriodsOf(f))
<1>1. BaseInv /\ AccInv /\ AmountInv
  BY DEF FaithInv, VerdictInv
<1>2. f \in NumericFields
  <2>1. conf.type \in Types
    BY <1>1, InsightsAssumption DEF BaseInv
  <2> QED
    BY <2>1, Contract
<1>3. PeriodsOf(f) = {p \in AllPeriods : Giving(f, p) # {}}
  BY <1>1, PeriodsAreRead
<1>4. /\ DOMAIN ByPeriod(f) = PeriodsOf(f)
      /\ \A p \in PeriodsOf(f) : ByPeriod(f)[p] = acc.by_period[<<f, p>>]
  BY <1>1, PeriodsByKey DEF AccInv
<1>5. acc.total[f] = SumOf(ByPeriod(f))
  <2>1. PICK g : g = ByPeriod(f)
    OBVIOUS
  <2>2. SumOf(g) = SumOver(g, DOMAIN g)
    BY Zenon DEF SumOf, SumOver
  <2>3. acc.total[f] = SumOver(g, DOMAIN g)
    BY <1>1, <1>2, <1>4, <2>1 DEF AmountInv
  <2> QED
    BY <2>1, <2>2, <2>3
<1>6. f \in NonAdditive => acc.count[f] = Cardinality(PeriodsOf(f))
  BY <1>1 DEF AmountInv
<1>7. ASSUME NEW p \in PeriodsOf(f) PROVE ByPeriod(f)[p] = Amount(f, Giving(f, p))
  <2>1. CASE f \notin NonAdditive
    <3>1. acc.by_period[<<f, p>>] = SumOver(Given(f, p), G(f, p))
      BY <1>1, <1>2, <2>1 DEF AmountInv
    <3>2. Amount(f, Giving(f, p)) = SumOver(Given(f, p), G(f, p))
      BY <2>1, AmountIsSum
    <3> QED
      BY <1>4, <3>1, <3>2
  <2>2. CASE f \in NonAdditive
    <3>1. PICK i : i = CHOOSE j \in Giving(f, p) : TRUE
      OBVIOUS
    <3>2. i \in Giving(f, p)
      BY <1>3, <3>1
    <3>3. i \in Read /\ f \in Ns(i) /\ P(i) = p
      BY <3>2 DEF Giving, Ns, P, C, Numbers, Period, HasPeriod
    <3>4. acc.by_period[<<f, p>>] = C(i)[f]
      BY <1>1, <2>2, <3>3 DEF AccInv, OwnerInv
    <3>5. Amount(f, Giving(f, p)) = Value(i, f)
      BY <2>2, <3>1, Zenon DEF Amount
    <3> QED
      BY <1>4, <3>4, <3>5 DEF Value, C
  <2> QED
    BY <2>1, <2>2
<1> QED
  BY <1>3, <1>5, <1>6, <1>7

\* The accumulators (DashboardInsightAccumulator) hold what the rows that were
\* read add up to, for any number of reports and rows and all limits: each row
\* counts once, and a point-in-time value once per period.
THEOREM SumsAreFaithful == Spec => []AccumulatorsFaithful
<1>1. FaithInv => AccumulatorsFaithful
  <2> SUFFICES ASSUME FaithInv PROVE AccumulatorsFaithful
    OBVIOUS
  <2>1. TypeOK
    BY DEF FaithInv, KeyInv
  <2>2. status # "failed" => \A f \in RequiredNumeric(conf.type) :
         /\ PeriodsOf(f) = {p \in AllPeriods : Giving(f, p) # {}}
         /\ \A p \in PeriodsOf(f) : ByPeriod(f)[p] = Amount(f, Giving(f, p))
         /\ acc.total[f] = SumOf(ByPeriod(f))
         /\ f \in NonAdditive => acc.count[f] = Cardinality(PeriodsOf(f))
    BY FieldFaithful
  <2> QED
    BY <2>1, <2>2 DEF AccumulatorsFaithful
<1> QED
  BY <1>1, FaithInit, FaithInductive, PTL DEF Spec

-----------------------------------------------------------------------------
(***************************************************************************)
(* The whole is the sum of its parts.                                      *)
(***************************************************************************)

\* The labels that have amounts, in all and by period, and the amounts of a period.
DimLabels(d) == DOMAIN ByDimension(d)

PointLabels(d) == DOMAIN DimensionSeries(d)

PointsAt(d, q) ==
    [v \in PointLabels(d) |-> At(acc.points, <<OutflowField(conf.type), d, q, v>>)]

\* The amounts by label add up to the total, those of a period to that period's.
PartsInv ==
    /\ IsFiniteSet(DOMAIN acc.by_dim)
    /\ \A k \in DOMAIN acc.by_dim : k = <<k[1], k[2], k[3]>> /\ acc.by_dim[k] \in Int
    /\ \A k \in DOMAIN acc.points : k = <<k[1], k[2], k[3], k[4]>> /\ acc.points[k] \in Int
    /\ \A d \in OutflowDimensions(conf.type) :
         /\ acc.total[OutflowField(conf.type)] = SumOver(ByDimension(d), DimLabels(d))
         /\ \A q : At(acc.by_period, <<OutflowField(conf.type), q>>) =
                   SumOver(PointsAt(d, q), PointLabels(d))

\* A label more, or an amount more for a label, or neither.
Grows(g, S, h, T, X, x, v) ==
    /\ X = {} \/ (X = {x} /\ v \in Int)
    /\ T = S \cup X
    /\ \A y \in T : h[y] = (IF y \in S THEN g[y] ELSE 0) + (IF y \in X THEN v ELSE 0)

LEMMA SumGrow ==
    ASSUME NEW g, NEW h, NEW S, NEW T, NEW X, NEW x, NEW v,
           IsFiniteSet(S), \A y \in S : g[y] \in Int, Grows(g, S, h, T, X, x, v)
    PROVE  SumOver(h, T) = SumOver(g, S) + (IF X = {} THEN 0 ELSE v)
<1> USE DEF Grows
<1>1. SumOver(g, S) \in Int
  BY SumIsInteger
<1>2. CASE X = {}
  <2>1. T = S /\ \A y \in S : h[y] = g[y]
    BY <1>2
  <2> QED
    BY <1>1, <1>2, <2>1, SumSame
<1>3. CASE X # {} /\ x \in S
  <2>1. X = {x} /\ T = S /\ v \in Int /\ (\A y \in S \ {x} : h[y] = g[y]) /\ h[x] = g[x] + v
    BY <1>3
  <2>2. SumOver(h, S) = SumOver(g, S) + v
    BY <1>3, <2>1, SumChange
  <2> QED
    BY <1>3, <2>1, <2>2
<1>4. CASE X # {} /\ x \notin S
  <2>1. X = {x} /\ T = S \cup {x} /\ v \in Int /\ (\A y \in S : h[y] = g[y]) /\ h[x] = v
    BY <1>4
  <2>2. \A y \in S \cup {x} : h[y] \in Int
    BY <2>1
  <2>3. SumOver(h, S \cup {x}) = SumOver(h, S) + h[x]
    BY <1>4, <2>2, SumAdd
  <2>4. SumOver(h, S) = SumOver(g, S)
    BY <2>1, SumSame
  <2> QED
    BY <1>4, <2>1, <2>3, <2>4
<1> QED
  BY <1>2, <1>3, <1>4

\* The labels and their amounts, by key.
LEMMA LabelsByKey ==
    ASSUME PartsInv, BoundInv, NEW d, NEW o, o = OutflowField(conf.type)
    PROVE  /\ \A v : v \in DimLabels(d) <=> <<o, d, v>> \in DOMAIN acc.by_dim
           /\ \A v \in DimLabels(d) : /\ ByDimension(d)[v] = acc.by_dim[<<o, d, v>>]
                                      /\ ByDimension(d)[v] \in Int
           /\ IsFiniteSet(DimLabels(d))
           /\ \A v : v \in PointLabels(d) <=> \E p : <<o, d, p, v>> \in DOMAIN acc.points
           /\ IsFiniteSet(PointLabels(d))
           /\ \A q : \A v \in PointLabels(d) : /\ PointsAt(d, q)[v] = At(acc.points, <<o, d, q, v>>)
                                               /\ PointsAt(d, q)[v] \in Int
<1> DEFINE K == {k \in DOMAIN acc.by_dim : k[1] = o /\ k[2] = d}
           g == [k \in K |-> k[3]]
           L == {k \in DOMAIN acc.points : k[1] = o /\ k[2] = d}
           h == [k \in L |-> k[4]]
<1>1. /\ IsFiniteSet(DOMAIN acc.by_dim) /\ IsFiniteSet(DOMAIN acc.points)
      /\ \A k \in DOMAIN acc.by_dim : k = <<k[1], k[2], k[3]>> /\ acc.by_dim[k] \in Int
      /\ \A k \in DOMAIN acc.points : k = <<k[1], k[2], k[3], k[4]>> /\ acc.points[k] \in Int
  BY DEF PartsInv, BoundInv
<1>2. DimLabels(d) = {k[3] : k \in K}
  BY DEF DimLabels, ByDimension
<1>3. PointLabels(d) = {k[4] : k \in L}
  BY DEF PointLabels, DimensionSeries
<1>4. \A v : v \in DimLabels(d) <=> <<o, d, v>> \in DOMAIN acc.by_dim
  BY <1>1, <1>2
<1>5. \A v : v \in PointLabels(d) <=> \E p : <<o, d, p, v>> \in DOMAIN acc.points
  <2>1. ASSUME NEW v \in PointLabels(d) PROVE \E p : <<o, d, p, v>> \in DOMAIN acc.points
    <3>1. PICK k \in DOMAIN acc.points : k[1] = o /\ k[2] = d /\ k[4] = v
      BY <1>3
    <3>2. k = <<o, d, k[3], v>>
      BY <1>1, <3>1
    <3> QED
      BY <3>1, <3>2
  <2>2. ASSUME NEW v, NEW p, <<o, d, p, v>> \in DOMAIN acc.points PROVE v \in PointLabels(d)
    BY <1>3, <2>2
  <2> QED
    BY <2>1, <2>2
<1>6. \A v \in DimLabels(d) : ByDimension(d)[v] = acc.by_dim[<<o, d, v>>] /\ ByDimension(d)[v] \in Int
  BY <1>1, <1>4 DEF ByDimension, DimLabels
<1>7. \A q : \A v \in PointLabels(d) : /\ PointsAt(d, q)[v] = At(acc.points, <<o, d, q, v>>)
                                       /\ PointsAt(d, q)[v] \in Int
  BY <1>1 DEF PointsAt, At
<1>8. IsFiniteSet(DimLabels(d))
  <2>1. IsFiniteSet(K) /\ g = [k \in K |-> g[k]] /\ DimLabels(d) = {g[k] : k \in K}
    BY <1>1, <1>2, FS_Subset
  <2> HIDE DEF g, K
  <2> QED
    BY <2>1, ImageFinite
<1>9. IsFiniteSet(PointLabels(d))
  <2>1. IsFiniteSet(L) /\ h = [k \in L |-> h[k]] /\ PointLabels(d) = {h[k] : k \in L}
    BY <1>1, <1>3, FS_Subset
  <2> HIDE DEF h, L
  <2> QED
    BY <2>1, ImageFinite
<1> QED
  BY <1>4, <1>5, <1>6, <1>7, <1>8, <1>9

KeyShapes ==
    /\ \A k \in DOMAIN acc.by_dim : k = <<k[1], k[2], k[3]>>
    /\ \A k \in DOMAIN acc.points : k = <<k[1], k[2], k[3], k[4]>>

LEMMA LabelsByKeyNext ==
    ASSUME KeyShapes', NEW d, NEW o, o = OutflowField(conf.type)'
    PROVE  /\ \A v : v \in DimLabels(d)' <=> <<o, d, v>> \in DOMAIN acc'.by_dim
           /\ \A v \in DimLabels(d)' : ByDimension(d)'[v] = acc'.by_dim[<<o, d, v>>]
           /\ \A v : v \in PointLabels(d)' <=> \E p : <<o, d, p, v>> \in DOMAIN acc'.points
           /\ \A q : \A v \in PointLabels(d)' : PointsAt(d, q)'[v] = At(acc'.points, <<o, d, q, v>>)
<1> DEFINE K == {k \in DOMAIN acc'.by_dim : k[1] = o /\ k[2] = d}
           L == {k \in DOMAIN acc'.points : k[1] = o /\ k[2] = d}
<1> USE DEF KeyShapes
<1>2. DimLabels(d)' = {k[3] : k \in K}
  BY DEF DimLabels, ByDimension
<1>3. PointLabels(d)' = {k[4] : k \in L}
  BY DEF PointLabels, DimensionSeries
<1>4. \A v : v \in DimLabels(d)' <=> <<o, d, v>> \in DOMAIN acc'.by_dim
  BY <1>2
<1>5. \A v : v \in PointLabels(d)' <=> \E p : <<o, d, p, v>> \in DOMAIN acc'.points
  <2>1. ASSUME NEW v \in PointLabels(d)' PROVE \E p : <<o, d, p, v>> \in DOMAIN acc'.points
    <3>1. PICK k \in DOMAIN acc'.points : k[1] = o /\ k[2] = d /\ k[4] = v
      BY <1>3
    <3>2. k = <<o, d, k[3], v>>
      BY <3>1
    <3> QED
      BY <3>1, <3>2, ZenonT(40)
  <2>2. ASSUME NEW v, NEW p, <<o, d, p, v>> \in DOMAIN acc'.points PROVE v \in PointLabels(d)'
    BY <1>3, <2>2
  <2> QED
    BY <2>1, <2>2
<1>6. \A v \in DimLabels(d)' : ByDimension(d)'[v] = acc'.by_dim[<<o, d, v>>]
  BY DEF ByDimension, DimLabels
<1>7. \A q : \A v \in PointLabels(d)' : PointsAt(d, q)'[v] = At(acc'.points, <<o, d, q, v>>)
  BY DEF PointsAt, At
<1> QED
  BY <1>4, <1>5, <1>6, <1>7

\* What an accepted row adds for a dimension of the outflow field.
LEMMA PartsAdded ==
    ASSUME BaseInv, NEW row, RowFits(row), NEW o, o = OutflowField(conf.type),
           NEW d \in OutflowDimensions(conf.type)
    PROVE  /\ \A w : At(AddedByDimension(row), <<o, d, w>>) =
                     IF o \in Numbers(row) /\ w = Cells(row)[d] THEN Cells(row)[o] ELSE 0
           /\ \A w : <<o, d, w>> \in DOMAIN AddedByDimension(row) <=>
                     o \in Numbers(row) /\ w = Cells(row)[d]
           /\ \A q, w : At(AddedPoints(row), <<o, d, q, w>>) =
                IF o \in Numbers(row) /\ q = Period(row) /\ w = Cells(row)[d] THEN Cells(row)[o] ELSE 0
           /\ \A q, w : <<o, d, q, w>> \in DOMAIN AddedPoints(row) <=>
                        o \in Numbers(row) /\ q = Period(row) /\ w = Cells(row)[d]
           /\ \A k \in DOMAIN AddedByDimension(row) :
                /\ k = <<k[1], k[2], k[3]>> /\ k[1] \in Numbers(row)
                /\ AddedByDimension(row)[k] = Cells(row)[k[1]]
           /\ \A k \in DOMAIN AddedPoints(row) :
                /\ k = <<k[1], k[2], k[3], k[4]>> /\ k[1] \in Numbers(row)
                /\ AddedPoints(row)[k] = Cells(row)[k[1]]
<1>1. conf.type \in Types
  BY InsightsAssumption DEF BaseInv
<1>2. /\ o \in NumericFields \ NonAdditive /\ d \in DimensionFields
      /\ \A a : a \in DimensionAggregations(conf.type) <=>
           \E e \in OutflowDimensions(conf.type) : a = <<o, e>>
  BY <1>1, Contract
<1>3. o \in Numbers(row) => d \in Dimensions(row)
  BY DEF RowFits, NumberFits
<1>4. \A a \in Aggregated(row) : a = <<o, a[2]>> /\ a[1] = o /\ o \in Numbers(row)
  BY <1>2 DEF Aggregated, Counted
<1>5. <<o, d>> \in Aggregated(row) <=> o \in Numbers(row)
  BY <1>2, <1>3 DEF Aggregated, Counted
<1>6. /\ DOMAIN AddedByDimension(row) = {<<a[1], a[2], Cells(row)[a[2]]>> : a \in Aggregated(row)}
      /\ \A k \in DOMAIN AddedByDimension(row) : AddedByDimension(row)[k] = Cells(row)[k[1]]
  BY DEF AddedByDimension
<1>7. /\ DOMAIN AddedPoints(row) =
           {<<a[1], a[2], Period(row), Cells(row)[a[2]]>> : a \in Aggregated(row)}
      /\ \A k \in DOMAIN AddedPoints(row) : AddedPoints(row)[k] = Cells(row)[k[1]]
  BY DEF AddedPoints
<1>8. ASSUME NEW w
      PROVE  <<o, d, w>> \in DOMAIN AddedByDimension(row) <=> o \in Numbers(row) /\ w = Cells(row)[d]
  <2>1. ASSUME o \in Numbers(row), w = Cells(row)[d] PROVE <<o, d, w>> \in DOMAIN AddedByDimension(row)
    <3>1. PICK a \in Aggregated(row) : a = <<o, d>>
      BY <1>5, <2>1
    <3>2. <<a[1], a[2], Cells(row)[a[2]]>> = <<o, d, w>>
      BY <2>1, <3>1
    <3> QED
      BY <1>6, <3>1, <3>2
  <2>2. ASSUME <<o, d, w>> \in DOMAIN AddedByDimension(row) PROVE o \in Numbers(row) /\ w = Cells(row)[d]
    <3>1. PICK a \in Aggregated(row) : <<o, d, w>> = <<a[1], a[2], Cells(row)[a[2]]>>
      BY <1>6, <2>2
    <3> QED
      BY <1>4, <3>1
  <2> QED
    BY <2>1, <2>2
<1>9. ASSUME NEW q, NEW w
      PROVE  <<o, d, q, w>> \in DOMAIN AddedPoints(row) <=>
               o \in Numbers(row) /\ q = Period(row) /\ w = Cells(row)[d]
  <2>1. ASSUME o \in Numbers(row), q = Period(row), w = Cells(row)[d]
        PROVE  <<o, d, q, w>> \in DOMAIN AddedPoints(row)
    <3>1. PICK a \in Aggregated(row) : a = <<o, d>>
      BY <1>5, <2>1
    <3>2. <<a[1], a[2], Period(row), Cells(row)[a[2]]>> = <<o, d, q, w>>
      BY <2>1, <3>1
    <3> QED
      BY <1>7, <3>1, <3>2
  <2>2. ASSUME <<o, d, q, w>> \in DOMAIN AddedPoints(row)
        PROVE  o \in Numbers(row) /\ q = Period(row) /\ w = Cells(row)[d]
    <3>1. PICK a \in Aggregated(row) : <<o, d, q, w>> = <<a[1], a[2], Period(row), Cells(row)[a[2]]>>
      BY <1>7, <2>2
    <3> QED
      BY <1>4, <3>1
  <2> QED
    BY <2>1, <2>2
<1>10. ASSUME NEW w
       PROVE  At(AddedByDimension(row), <<o, d, w>>) =
                IF o \in Numbers(row) /\ w = Cells(row)[d] THEN Cells(row)[o] ELSE 0
  BY <1>6, <1>8 DEF At
<1>11. ASSUME NEW q, NEW w
       PROVE  At(AddedPoints(row), <<o, d, q, w>>) =
                IF o \in Numbers(row) /\ q = Period(row) /\ w = Cells(row)[d] THEN Cells(row)[o] ELSE 0
  BY <1>7, <1>9 DEF At
<1>12. \A k \in DOMAIN AddedByDimension(row) : k = <<k[1], k[2], k[3]>> /\ k[1] \in Numbers(row)
  BY <1>4, <1>6
<1>13. \A k \in DOMAIN AddedPoints(row) : k = <<k[1], k[2], k[3], k[4]>> /\ k[1] \in Numbers(row)
  BY <1>4, <1>7
<1> QED
  BY <1>6, <1>7, <1>8, <1>9, <1>10, <1>11, <1>12, <1>13

\* Keys and values of the parts, after an accepted row.
LEMMA PartKeys ==
    ASSUME NEW row, NEW n, Accepts(row, n), PartsInv
    PROVE  /\ DOMAIN acc'.by_dim = DOMAIN acc.by_dim \cup DOMAIN AddedByDimension(row)
           /\ \A k \in DOMAIN acc'.by_dim :
                acc'.by_dim[k] = At(acc.by_dim, k) + At(AddedByDimension(row), k)
           /\ DOMAIN acc'.points = DOMAIN acc.points \cup DOMAIN AddedPoints(row)
           /\ \A k : At(acc'.points, k) = At(acc.points, k) + At(AddedPoints(row), k)
           /\ IsFiniteSet(DOMAIN acc'.by_dim)
           /\ \A k \in DOMAIN acc'.by_dim : k = <<k[1], k[2], k[3]>> /\ acc'.by_dim[k] \in Int
           /\ \A k \in DOMAIN acc'.points : k = <<k[1], k[2], k[3], k[4]>> /\ acc'.points[k] \in Int
<1>1. PICK B, M : B = acc.by_dim /\ M = AddedByDimension(row)
  OBVIOUS
<1>2. PICK Q, R : Q = acc.points /\ R = AddedPoints(row)
  OBVIOUS
<1>3. acc'.by_dim = Plus(B, M) /\ acc'.points = Plus(Q, R)
  BY <1>1, <1>2 DEF Accepts, Observed
<1>4. BaseInv /\ RowFits(row) /\ row \in Rows(conf.type) /\ Mapped(row)
  BY DEF Accepts, Reads
<1>5. conf.type \in Types
  BY <1>4, InsightsAssumption DEF BaseInv
<1>6. PICK d : d \in OutflowDimensions(conf.type)
  BY <1>5 DEF OutflowDimensions
<1>7. /\ \A k \in DOMAIN M : k = <<k[1], k[2], k[3]>> /\ k[1] \in Numbers(row) /\ M[k] = Cells(row)[k[1]]
      /\ \A k \in DOMAIN R : k = <<k[1], k[2], k[3], k[4]>> /\ k[1] \in Numbers(row)
                             /\ R[k] = Cells(row)[k[1]]
  BY <1>1, <1>2, <1>4, <1>6, PartsAdded
<1>8. \A f \in Numbers(row) : Cells(row)[f] \in Int
  BY <1>4, FittingRow
<1>9. (\A k \in DOMAIN M : M[k] \in Int) /\ (\A k \in DOMAIN R : R[k] \in Int)
  BY <1>7, <1>8
<1>10. /\ \A k \in DOMAIN B : k = <<k[1], k[2], k[3]>> /\ B[k] \in Int
       /\ \A k \in DOMAIN Q : k = <<k[1], k[2], k[3], k[4]>> /\ Q[k] \in Int
  BY <1>1, <1>2 DEF PartsInv
<1>11. \A k : At(B, k) \in Int /\ At(M, k) \in Int /\ At(Q, k) \in Int /\ At(R, k) \in Int
  BY <1>9, <1>10 DEF At
<1>12. /\ DOMAIN acc'.by_dim = DOMAIN B \cup DOMAIN M
       /\ \A k \in DOMAIN B \cup DOMAIN M : acc'.by_dim[k] = At(B, k) + At(M, k)
       /\ DOMAIN acc'.points = DOMAIN Q \cup DOMAIN R
       /\ \A k \in DOMAIN Q \cup DOMAIN R : acc'.points[k] = At(Q, k) + At(R, k)
  BY <1>3, PlusMaps
<1>13. \A k : At(acc'.points, k) = At(Q, k) + At(R, k)
  BY <1>12 DEF At
<1>14. IsFiniteSet(DOMAIN acc'.by_dim)
  <2> DEFINE g == [a \in Aggregated(row) |-> <<a[1], a[2], Cells(row)[a[2]]>>]
  <2>1. DOMAIN M = {g[a] : a \in Aggregated(row)}
    BY <1>1 DEF AddedByDimension
  <2>2. g = [a \in Aggregated(row) |-> g[a]]
    OBVIOUS
  <2> HIDE DEF g
  <2>3. IsFiniteSet(Aggregated(row)) /\ IsFiniteSet(DOMAIN B)
    BY <1>1, <1>4, NewFinite DEF PartsInv
  <2>4. IsFiniteSet(DOMAIN M)
    BY <2>1, <2>2, <2>3, ImageFinite
  <2>5. IsFiniteSet(DOMAIN B \cup DOMAIN M)
    BY <2>3, <2>4, FS_Union
  <2> QED
    BY <1>12, <2>5
<1>15. \A k \in DOMAIN acc'.by_dim : k = <<k[1], k[2], k[3]>> /\ acc'.by_dim[k] \in Int
  BY <1>7, <1>10, <1>11, <1>12
<1>16. \A k \in DOMAIN acc'.points : k = <<k[1], k[2], k[3], k[4]>> /\ acc'.points[k] \in Int
  BY <1>7, <1>10, <1>11, <1>12
<1> QED
  BY <1>1, <1>2, <1>12, <1>13, <1>14, <1>15, <1>16

\* The parts of a dimension, after an accepted row.
LEMMA PartsStep ==
    ASSUME NEW row, NEW n, Accepts(row, n), AmountInv, PartsInv,
           NEW d \in OutflowDimensions(conf.type), NEW o, o = OutflowField(conf.type)
    PROVE  /\ acc'.total[o] = SumOver(ByDimension(d)', DimLabels(d)')
           /\ \A q : At(acc'.by_period, <<o, q>>) = SumOver(PointsAt(d, q)', PointLabels(d)')
<1>1. PICK x, v, p : x = Cells(row)[o] /\ v = Cells(row)[d] /\ p = Period(row)
  OBVIOUS
<1>2. PICK X : X = IF o \in Numbers(row) THEN {v} ELSE {}
  OBVIOUS
<1>3. BaseInv /\ RowFits(row) /\ row \in Rows(conf.type) /\ Mapped(row) /\ BoundInv /\ OwnerInv
      /\ conf' = conf
  BY DEF Accepts, Reads, AccInv
<1>4. o \in NumericFields /\ o \notin NonAdditive
  <2>1. conf.type \in Types
    BY <1>3, InsightsAssumption DEF BaseInv
  <2> QED
    BY <2>1, Contract
<1>5. X = {} \/ (X = {v} /\ x \in Int)
  BY <1>1, <1>2, <1>3, FittingRow
<1>6. /\ \A w : At(AddedByDimension(row), <<o, d, w>>) = IF w \in X THEN x ELSE 0
      /\ \A w : <<o, d, w>> \in DOMAIN AddedByDimension(row) <=> w \in X
      /\ \A q, w : At(AddedPoints(row), <<o, d, q, w>>) = IF q = p /\ w \in X THEN x ELSE 0
      /\ \A q, w : <<o, d, q, w>> \in DOMAIN AddedPoints(row) <=> q = p /\ w \in X
  BY <1>1, <1>2, <1>3, PartsAdded
<1>7. /\ DOMAIN acc'.by_dim = DOMAIN acc.by_dim \cup DOMAIN AddedByDimension(row)
      /\ \A k \in DOMAIN acc'.by_dim :
           acc'.by_dim[k] = At(acc.by_dim, k) + At(AddedByDimension(row), k)
      /\ DOMAIN acc'.points = DOMAIN acc.points \cup DOMAIN AddedPoints(row)
      /\ \A k : At(acc'.points, k) = At(acc.points, k) + At(AddedPoints(row), k)
      /\ \A k \in DOMAIN acc'.by_dim : k = <<k[1], k[2], k[3]>>
      /\ \A k \in DOMAIN acc'.points : k = <<k[1], k[2], k[3], k[4]>>
  BY PartKeys
<1>8. /\ \A w : w \in DimLabels(d) <=> <<o, d, w>> \in DOMAIN acc.by_dim
      /\ \A w \in DimLabels(d) : /\ ByDimension(d)[w] = acc.by_dim[<<o, d, w>>]
                                 /\ ByDimension(d)[w] \in Int
      /\ IsFiniteSet(DimLabels(d))
      /\ \A w : w \in PointLabels(d) <=> \E q : <<o, d, q, w>> \in DOMAIN acc.points
      /\ IsFiniteSet(PointLabels(d))
      /\ \A q : \A w \in PointLabels(d) : /\ PointsAt(d, q)[w] = At(acc.points, <<o, d, q, w>>)
                                          /\ PointsAt(d, q)[w] \in Int
  BY <1>3, LabelsByKey, ZenonT(40)
<1>9. /\ \A w : w \in DimLabels(d)' <=> <<o, d, w>> \in DOMAIN acc'.by_dim
      /\ \A w \in DimLabels(d)' : ByDimension(d)'[w] = acc'.by_dim[<<o, d, w>>]
      /\ \A w : w \in PointLabels(d)' <=> \E q : <<o, d, q, w>> \in DOMAIN acc'.points
      /\ \A q : \A w \in PointLabels(d)' : PointsAt(d, q)'[w] = At(acc'.points, <<o, d, q, w>>)
  <2>1. o = OutflowField(conf.type)'
    BY <1>3
  <2>2. KeyShapes'
    BY <1>7 DEF KeyShapes
  <2> QED
    BY <2>1, <2>2, LabelsByKeyNext
<1>10. acc'.total[o] = SumOver(ByDimension(d)', DimLabels(d)')
  <2>1. PICK S, T : S = DimLabels(d) /\ T = DimLabels(d)'
    OBVIOUS
  <2>2. PICK g, h : g = ByDimension(d) /\ h = ByDimension(d)'
    OBVIOUS
  <2>3. \A w : w \in T <=> w \in S \/ w \in X
    BY <1>6, <1>7, <1>8, <1>9, <2>1
  <2>4. T = S \cup X
    BY <2>3
  <2>5. \A w : At(acc.by_dim, <<o, d, w>>) = IF w \in S THEN g[w] ELSE 0
    BY <1>8, <2>1, <2>2 DEF At
  <2>6. \A w \in T : h[w] = (IF w \in S THEN g[w] ELSE 0) + (IF w \in X THEN x ELSE 0)
    <3> SUFFICES ASSUME NEW w \in T
                 PROVE  h[w] = (IF w \in S THEN g[w] ELSE 0) + (IF w \in X THEN x ELSE 0)
      OBVIOUS
    <3>1. PICK k : k = <<o, d, w>>
      OBVIOUS
    <3>2. k \in DOMAIN acc'.by_dim /\ h[w] = acc'.by_dim[k]
      BY <1>9, <2>1, <2>2, <3>1
    <3>3. h[w] = At(acc.by_dim, k) + At(AddedByDimension(row), k)
      BY <1>7, <3>2
    <3> QED
      BY <1>6, <2>5, <3>1, <3>3
  <2>7. IsFiniteSet(S) /\ \A w \in S : g[w] \in Int
    BY <1>8, <2>1, <2>2
  <2>8. SumOver(h, T) = SumOver(g, S) + (IF X = {} THEN 0 ELSE x)
    <3>1. Grows(g, S, h, T, X, v, x)
      BY <1>5, <2>4, <2>6 DEF Grows
    <3> QED
      BY <2>7, <3>1, SumGrow
  <2>9. acc.total[o] = SumOver(g, S)
    BY <2>1, <2>2 DEF PartsInv
  <2>10. acc'.total[o] = acc.total[o] + (IF X = {} THEN 0 ELSE x)
    BY <1>1, <1>2, <1>4 DEF Accepts, Observed, Counted
  <2> QED
    BY <2>1, <2>2, <2>8, <2>9, <2>10
<1>11. ASSUME NEW q PROVE At(acc'.by_period, <<o, q>>) = SumOver(PointsAt(d, q)', PointLabels(d)')
  <2>1. PICK S, T : S = PointLabels(d) /\ T = PointLabels(d)'
    OBVIOUS
  <2>2. PICK g, h : g = PointsAt(d, q) /\ h = PointsAt(d, q)'
    OBVIOUS
  <2>3. PICK y : y = IF q = p THEN x ELSE 0
    OBVIOUS
  <2>4. \A w : w \in T <=> w \in S \/ w \in X
    BY <1>6, <1>7, <1>8, <1>9, <2>1
  <2>5. T = S \cup X
    BY <2>4
  <2>6. \A w : w \notin S => At(acc.points, <<o, d, q, w>>) = 0
    BY <1>8, <2>1 DEF At
  <2>7. \A w \in T : h[w] = (IF w \in S THEN g[w] ELSE 0) + (IF w \in X THEN y ELSE 0)
    <3> SUFFICES ASSUME NEW w \in T
                 PROVE  h[w] = (IF w \in S THEN g[w] ELSE 0) + (IF w \in X THEN y ELSE 0)
      OBVIOUS
    <3>1. PICK k : k = <<o, d, q, w>>
      OBVIOUS
    <3>2. h[w] = At(acc'.points, k)
      BY <1>9, <2>1, <2>2, <3>1
    <3>3. h[w] = At(acc.points, k) + At(AddedPoints(row), k)
      BY <1>7, <3>2
    <3>4. At(acc.points, k) = IF w \in S THEN g[w] ELSE 0
      BY <1>8, <2>1, <2>2, <2>6, <3>1
    <3>5. At(AddedPoints(row), k) = IF w \in X THEN y ELSE 0
      BY <1>6, <2>3, <3>1
    <3> QED
      BY <3>3, <3>4, <3>5
  <2>8. IsFiniteSet(S) /\ \A w \in S : g[w] \in Int
    BY <1>8, <2>1, <2>2
  <2>9. X = {} \/ (X = {v} /\ y \in Int)
    BY <1>5, <2>3
  <2>10. SumOver(h, T) = SumOver(g, S) + (IF X = {} THEN 0 ELSE y)
    <3>1. Grows(g, S, h, T, X, v, y)
      BY <2>5, <2>7, <2>9 DEF Grows
    <3> QED
      BY <2>8, <3>1, SumGrow
  <2>11. At(acc.by_period, <<o, q>>) = SumOver(g, S)
    BY <2>1, <2>2 DEF PartsInv
  <2>12. At(acc'.by_period, <<o, q>>) = At(acc.by_period, <<o, q>>) + (IF X = {} THEN 0 ELSE y)
    <3>1. /\ PeriodsOf(o)' = PeriodsOf(o) \cup IF X = {} THEN {} ELSE {p}
          /\ \A r \in PeriodsOf(o)' :
               ByPeriod(o)'[r] = (IF r \in PeriodsOf(o) THEN ByPeriod(o)[r] ELSE 0)
                                 + (IF X # {} /\ r = p THEN x ELSE 0)
      BY <1>1, <1>2, <1>4, AmountStep
    <3>2. /\ q \in PeriodsOf(o) <=> <<o, q>> \in DOMAIN acc.by_period
          /\ q \in PeriodsOf(o) => /\ ByPeriod(o)[q] = acc.by_period[<<o, q>>]
                                   /\ ByPeriod(o)[q] \in Int
      BY <1>3, PeriodsByKey
    <3>3. /\ q \in PeriodsOf(o)' <=> <<o, q>> \in DOMAIN acc'.by_period
          /\ q \in PeriodsOf(o)' => ByPeriod(o)'[q] = acc'.by_period[<<o, q>>]
      BY AcceptOwner, AcceptBound, PeriodsByKeyNext
    <3> QED
      BY <1>5, <2>3, <3>1, <3>2, <3>3 DEF At
  <2> QED
    BY <2>1, <2>2, <2>10, <2>11, <2>12
<1> QED
  BY <1>10, <1>11

LEMMA AcceptParts ==
    ASSUME NEW row, NEW n, Accepts(row, n), AmountInv, PartsInv
    PROVE  PartsInv'
<1>1. /\ IsFiniteSet(DOMAIN acc'.by_dim)
      /\ \A k \in DOMAIN acc'.by_dim : k = <<k[1], k[2], k[3]>> /\ acc'.by_dim[k] \in Int
      /\ \A k \in DOMAIN acc'.points : k = <<k[1], k[2], k[3], k[4]>> /\ acc'.points[k] \in Int
  BY PartKeys
<1>2. PICK o : o = OutflowField(conf.type)
  OBVIOUS
<1>3. \A d \in OutflowDimensions(conf.type) :
         /\ acc'.total[o] = SumOver(ByDimension(d)', DimLabels(d)')
         /\ \A q : At(acc'.by_period, <<o, q>>) = SumOver(PointsAt(d, q)', PointLabels(d)')
  BY <1>2, PartsStep
<1>4. conf' = conf
  BY DEF Accepts, Reads
<1> QED
  BY <1>1, <1>2, <1>3, <1>4 DEF PartsInv

LEMMA IdleParts ==
    ASSUME PartsInv, UNCHANGED <<conf, acc>>
    PROVE  PartsInv'
<1>1. \A d : ByDimension(d)' = ByDimension(d) /\ DimensionSeries(d)' = DimensionSeries(d)
  BY DEF ByDimension, DimensionSeries
<1>2. \A d : DimLabels(d)' = DimLabels(d) /\ PointLabels(d)' = PointLabels(d)
  BY <1>1 DEF DimLabels, PointLabels
<1>3. \A d, q : PointsAt(d, q)' = PointsAt(d, q)
  BY <1>2 DEF PointsAt
<1> QED
  BY <1>1, <1>2, <1>3 DEF PartsInv

-----------------------------------------------------------------------------
(***************************************************************************)
(* The last periods.                                                       *)
(***************************************************************************)

\* A finite set of integers has a largest element.
LEMMA LargestExists ==
    ASSUME NEW S, S \subseteq Int, IsFiniteSet(S), S # {}
    PROVE  /\ Max(S) \in S /\ \A y \in S : Max(S) >= y
           /\ \A x \in S : (\A y \in S : x >= y) => x = Max(S)
<1> DEFINE Has(s) == \E x \in s : \A y \in s : x >= y
           H == {n \in Nat : \A s \in SUBSET S : Cardinality(s) = n + 1 => Has(s)}
<1>1. 0 \in H
  <2>0. SUFFICES ASSUME NEW s \in SUBSET S, Cardinality(s) = 0 + 1 PROVE Has(s)
    OBVIOUS
  <2> HIDE DEF H
  <2>1. IsFiniteSet(s) /\ Cardinality(s) = 1
    <3>1. IsFiniteSet(s)
      BY FS_Subset
    <3>2. Cardinality(s) = 1
      BY <2>0
    <3> QED
      BY <3>1, <3>2
  <2>2. PICK x : s = {x}
    BY <2>1, FS_Singleton
  <2>3. x \in Int
    BY <2>2
  <2> QED
    BY <2>2, <2>3
<1>2. ASSUME NEW n \in Nat, n \in H PROVE n + 1 \in H
  <2>0. SUFFICES ASSUME NEW s \in SUBSET S, Cardinality(s) = (n + 1) + 1 PROVE Has(s)
    OBVIOUS
  <2>1. IsFiniteSet(s) /\ s # {}
    <3>1. IsFiniteSet(s)
      BY FS_Subset
    <3>2. s # {}
      BY <2>0, FS_EmptySet
    <3> QED
      BY <3>1, <3>2
  <2>2. PICK x \in s : TRUE
    BY <2>1
  <2>3. s \ {x} \in SUBSET S /\ Cardinality(s \ {x}) = Cardinality(s) - 1
    BY <2>2, Removal
  <2>4. Cardinality(s \ {x}) = n + 1
    BY <2>0, <2>3
  <2>5. Has(s \ {x})
    BY <1>2, <2>3, <2>4
  <2>6. PICK m \in s \ {x} : \A y \in s \ {x} : m >= y
    BY <2>5
  <2>7. m \in Int /\ x \in Int /\ \A y \in s : y \in Int
    OBVIOUS
  <2>8. CASE m >= x
    BY <2>6, <2>8
  <2>9. CASE ~(m >= x)
    <3>1. \A y \in s : x >= y
      BY <2>6, <2>7, <2>9
    <3> QED
      BY <2>2, <3>1
  <2> QED
    BY <2>8, <2>9
<1> HIDE DEF H
<1>3. Nat \subseteq H
  BY <1>1, <1>2, SetInduction
<1>4. Cardinality(S) \in Nat /\ Cardinality(S) # 0
  BY FS_CardinalityType, FS_EmptySet
<1>5. PICK n \in Nat : Cardinality(S) = n + 1
  <2>1. Cardinality(S) - 1 \in Nat /\ Cardinality(S) = (Cardinality(S) - 1) + 1
    BY <1>4
  <2> QED
    BY <2>1
<1>6. Has(S)
  BY <1>3, <1>5 DEF H
<1>7. PICK m \in S : \A y \in S : m >= y
  BY <1>6
<1>8. Max(S) \in S /\ \A y \in S : Max(S) >= y
  BY <1>7 DEF Max
<1>9. ASSUME NEW x \in S, \A y \in S : x >= y PROVE x = Max(S)
  <2>1. PICK k \in S : k = Max(S) /\ k >= x /\ x >= k
    BY <1>8, <1>9
  <2>2. k \in Int /\ x \in Int
    OBVIOUS
  <2> QED
    BY <2>1, <2>2
<1> QED
  BY <1>8, <1>9

\* In particular one of natural numbers has.
LEMMA MaxExists ==
    ASSUME NEW S, S \subseteq Nat, IsFiniteSet(S), S # {}
    PROVE  /\ Max(S) \in S /\ \A y \in S : Max(S) >= y
           /\ \A x \in S : (\A y \in S : x >= y) => x = Max(S)
<1>1. S \subseteq Int
  OBVIOUS
<1> QED
  BY <1>1, LargestExists

\* The largest element is the one that all others come before.
LEMMA MaxRank ==
    ASSUME NEW S, S \subseteq Nat, IsFiniteSet(S), S # {}, NEW p \in S
    PROVE  /\ Cardinality({q \in S : q < p}) \in Nat
           /\ Cardinality({q \in S : q < p}) = Cardinality(S) - 1 <=> p = Max(S)
<1>1. PICK m : m = Max(S)
  OBVIOUS
<1>2. m \in S /\ (\A y \in S : m >= y) /\ m \in Nat
  BY <1>1, MaxExists
<1>3. PICK E : E = {q \in S : q < p}
  OBVIOUS
<1>4. E \subseteq S /\ p \notin E /\ \A y \in S : y \in Nat
  BY <1>3
<1>5. IsFiniteSet(E) /\ Cardinality(E) \in Nat /\ Cardinality(S) \in Nat
  BY <1>4, FS_Subset, FS_CardinalityType
<1>6. CASE p = m
  <2>1. E = S \ {m}
    <3>1. ASSUME NEW y \in S PROVE y < m <=> y # m
      <4>1. y \in Nat /\ m \in Nat /\ m >= y
        BY <1>2
      <4> QED
        BY <4>1
    <3> QED
      BY <1>3, <1>6, <3>1
  <2>2. Cardinality(E) = Cardinality(S) - 1
    BY <1>2, <2>1, FS_RemoveElement
  <2> QED
    BY <1>1, <1>3, <1>5, <1>6, <2>2
<1>7. CASE p # m
  <2>1. PICK T : T = S \ {m}
    OBVIOUS
  <2>2. IsFiniteSet(T) /\ Cardinality(T) = Cardinality(S) - 1 /\ p \in T
    BY <1>2, <1>7, <2>1, FS_RemoveElement, FS_Subset
  <2>3. PICK U : U = T \ {p}
    OBVIOUS
  <2>4. IsFiniteSet(U) /\ Cardinality(U) = Cardinality(T) - 1
    BY <2>2, <2>3, FS_RemoveElement, FS_Subset
  <2>5. E \subseteq U
    <3>1. m \notin E
      BY <1>2, <1>3, <1>4
    <3> QED
      BY <1>4, <2>1, <2>3, <3>1
  <2>6. Cardinality(E) <= Cardinality(U)
    BY <2>4, <2>5, FS_Subset
  <2> QED
    BY <1>1, <1>3, <1>5, <1>7, <2>2, <2>4, <2>6
<1> QED
  BY <1>6, <1>7

\* The last of the periods in order is the largest, the one before the largest
\* of the others.
LEMMA OrderEnds ==
    ASSUME NEW S, S \subseteq Nat, IsFiniteSet(S), S # {}, NEW n, n = Cardinality(S)
    PROVE  /\ n \in Nat \ {0} /\ Len(InOrder(S)) = n
           /\ InOrder(S)[n] = Max(S)
           /\ n > 1 => InOrder(S)[n - 1] = Max(S \ {Max(S)})
<1>1. n \in Nat \ {0}
  BY FS_CardinalityType, FS_EmptySet
<1>2. InOrder(S) = [i \in 1..n |-> CHOOSE p \in S : Cardinality({q \in S : q < p}) = i - 1]
  BY DEF InOrder
<1>3. Len(InOrder(S)) = n
  BY <1>1, <1>2
<1>4. PICK m : m = Max(S)
  OBVIOUS
<1>5. m \in S /\ (\A y \in S : m >= y)
  BY <1>4, MaxExists
<1>6. \A p \in S : Cardinality({q \in S : q < p}) = n - 1 <=> p = m
  BY <1>4, MaxRank
<1>7. InOrder(S)[n] = m
  <2>1. InOrder(S)[n] = CHOOSE p \in S : Cardinality({q \in S : q < p}) = n - 1
    <3>1. n \in 1..n
      BY <1>1
    <3> QED
      BY <1>2, <3>1, Zenon
  <2>2. m = CHOOSE p \in S : Cardinality({q \in S : q < p}) = n - 1
    BY <1>5, <1>6
  <2> QED
    BY <2>1, <2>2
<1>8. ASSUME n > 1 PROVE InOrder(S)[n - 1] = Max(S \ {m})
  <2>1. PICK T : T = S \ {m}
    OBVIOUS
  <2>2. IsFiniteSet(T) /\ Cardinality(T) = n - 1 /\ T \subseteq Nat
    BY <1>5, <2>1, FS_RemoveElement, FS_Subset
  <2>3. T # {}
    BY <1>1, <1>8, <2>2, FS_EmptySet
  <2>4. PICK k : k = Max(T)
    OBVIOUS
  <2>5. k \in T
    BY <2>2, <2>3, <2>4, MaxExists
  <2>6. \A p \in T : Cardinality({q \in T : q < p}) = (n - 1) - 1 <=> p = k
    BY <2>2, <2>3, <2>4, MaxRank
  <2>7. ASSUME NEW p \in T PROVE {q \in S : q < p} = {q \in T : q < p}
    <3>1. ~(m < p)
      <4>1. m \in Nat /\ p \in Nat /\ m >= p
        BY <1>5, <2>1
      <4> QED
        BY <4>1
    <3> QED
      BY <2>1, <3>1
  <2>8. \A p \in T : Cardinality({q \in S : q < p}) = (n - 1) - 1 <=> p = k
    <3>1. ASSUME NEW p \in T
          PROVE  Cardinality({q \in S : q < p}) = (n - 1) - 1 <=> p = k
      <4>1. {q \in S : q < p} = {q \in T : q < p}
        BY <2>7
      <4>2. Cardinality({q \in T : q < p}) = (n - 1) - 1 <=> p = k
        BY <2>6
      <4> QED
        BY <4>1, <4>2
    <3> QED
      BY <3>1
  <2>9. Cardinality({q \in S : q < m}) # (n - 1) - 1
    <3>1. Cardinality({q \in S : q < m}) = n - 1
      BY <1>5, <1>6
    <3> QED
      BY <1>1, <3>1
  <2>10. \A p \in S : Cardinality({q \in S : q < p}) = (n - 1) - 1 <=> p = k
    <3>1. \A p \in S : p = m \/ p \in T
      BY <2>1
    <3>2. m # k
      BY <2>1, <2>5
    <3> QED
      BY <2>8, <2>9, <3>1, <3>2
  <2>11. InOrder(S)[n - 1] = CHOOSE p \in S : Cardinality({q \in S : q < p}) = (n - 1) - 1
    <3>1. n - 1 \in 1..n
      BY <1>1, <1>8
    <3> QED
      BY <1>2, <3>1, Zenon
  <2>12. k = CHOOSE p \in S : Cardinality({q \in S : q < p}) = (n - 1) - 1
    BY <2>1, <2>5, <2>10
  <2> QED
    BY <2>1, <2>4, <2>11, <2>12
<1> QED
  BY <1>1, <1>3, <1>4, <1>7, <1>8

\* The sum of differences.
LEMMA SumMinus ==
    ASSUME NEW S, IsFiniteSet(S), NEW f, NEW g, NEW h,
           \A x \in S : f[x] \in Int /\ g[x] \in Int /\ h[x] = f[x] - g[x]
    PROVE  SumOver(h, S) = SumOver(f, S) - SumOver(g, S)
<1> DEFINE Fine(s) == SumOver(h, s) = SumOver(f, s) - SumOver(g, s)
           H == {n \in Nat : \A s \in SUBSET S : Cardinality(s) = n => Fine(s)}
<1>1. 0 \in H
  <2>1. \A s \in SUBSET S : Cardinality(s) = 0 => s = {}
    BY FS_Subset, FS_EmptySet
  <2>2. Fine({})
    BY SumEmpty
  <2> HIDE DEF Fine
  <2> QED
    BY <2>1, <2>2
<1>2. ASSUME NEW n \in Nat, n \in H PROVE n + 1 \in H
  <2>0. SUFFICES ASSUME NEW s \in SUBSET S, Cardinality(s) = n + 1 PROVE Fine(s)
    OBVIOUS
  <2>1. IsFiniteSet(s) /\ s # {}
    BY <2>0, FS_Subset, FS_EmptySet
  <2>2. PICK x \in s : TRUE
    BY <2>1
  <2>3. PICK t : t = s \ {x}
    OBVIOUS
  <2>4. t \in SUBSET S /\ Cardinality(t) = Cardinality(s) - 1 /\ IsFiniteSet(t)
    BY <2>2, <2>3, Removal, FS_Subset
  <2>5. Cardinality(t) = n
    BY <2>0, <2>4
  <2>6. Fine(t)
    BY <1>2, <2>4, <2>5
  <2>7. x \notin t /\ t \cup {x} = s
    BY <2>2, <2>3
  <2>8. \A y \in t \cup {x} : f[y] \in Int /\ g[y] \in Int /\ h[y] \in Int
    BY <2>7
  <2>9. SumOver(f, s) = SumOver(f, t) + f[x] /\ SumOver(f, t) \in Int
    BY <2>4, <2>7, <2>8, SumAdd
  <2>10. SumOver(g, s) = SumOver(g, t) + g[x] /\ SumOver(g, t) \in Int
    BY <2>4, <2>7, <2>8, SumAdd
  <2>11. SumOver(h, s) = SumOver(h, t) + h[x]
    BY <2>4, <2>7, <2>8, SumAdd
  <2>12. f[x] \in Int /\ g[x] \in Int /\ h[x] = f[x] - g[x]
    BY <2>2
  <2> QED
    BY <2>6, <2>9, <2>10, <2>11, <2>12
<1> HIDE DEF H
<1>3. Nat \subseteq H
  BY <1>1, <1>2, SetInduction
<1>4. Cardinality(S) \in Nat /\ S \in SUBSET S
  BY FS_CardinalityType
<1>5. Fine(S)
  BY <1>3, <1>4 DEF H
<1> QED
  BY <1>5

-----------------------------------------------------------------------------
(***************************************************************************)
(* What is rendered adds up.                                               *)
(***************************************************************************)

\* The last period of the outflow, and the one before.
LastPeriod == Max(PeriodsOf(OutflowField(conf.type)))

PriorPeriod == Max(PeriodsOf(OutflowField(conf.type)) \ {LastPeriod})

\* The variances r are the changes of the labels of the dimension d.
Changes(d, r) ==
    /\ DOMAIN r = PointLabels(d)
    /\ Cardinality(PeriodsOf(OutflowField(conf.type))) > 1 =>
         \A v \in PointLabels(d) :
            r[v].change = PointsAt(d, LastPeriod)[v] - PointsAt(d, PriorPeriod)[v]

\* What the breakdowns, the series and the variances of r show.
Shows(r) ==
    /\ DOMAIN r.breakdowns \subseteq OutflowDimensions(conf.type)
    /\ \A d \in DOMAIN r.breakdowns :
         /\ DOMAIN r.breakdowns[d] = DimLabels(d)
         /\ \A v \in DimLabels(d) : r.breakdowns[d][v].amount = ByDimension(d)[v]
    /\ DOMAIN r.series \subseteq OutflowDimensions(conf.type)
    /\ \A d \in DOMAIN r.series : r.series[d] = DimensionSeries(d)
    /\ DOMAIN r.variance = {} \/ \E d \in OutflowDimensions(conf.type) : Changes(d, r.variance)

PartsOfWhole ==
    /\ FaithInv
    /\ status # "failed" => PartsInv
    /\ status = "rendered" => Shows(result)

\* The series of a label are its points.
LEMMA SeriesPoints ==
    ASSUME PartsInv, BoundInv, NEW d, NEW v \in PointLabels(d), NEW p
    PROVE  At(DimensionSeries(d)[v], p) = PointsAt(d, p)[v]
<1>1. PICK o : o = OutflowField(conf.type)
  OBVIOUS
<1> DEFINE L == {k \in DOMAIN acc.points : k[1] = o /\ k[2] = d}
           D == {k[3] : k \in {l \in L : l[4] = v}}
<1>2. DimensionSeries(d)[v] = [q \in D |-> acc.points[<<o, d, q, v>>]]
  BY <1>1 DEF DimensionSeries, PointLabels
<1>3. \A k \in DOMAIN acc.points : k = <<k[1], k[2], k[3], k[4]>>
  BY DEF PartsInv
<1>4. p \in D <=> <<o, d, p, v>> \in DOMAIN acc.points
  <2>1. ASSUME p \in D PROVE <<o, d, p, v>> \in DOMAIN acc.points
    <3>1. PICK k \in DOMAIN acc.points : k[1] = o /\ k[2] = d /\ k[4] = v /\ p = k[3]
      BY <2>1
    <3>2. k = <<o, d, p, v>>
      BY <1>3, <3>1
    <3> QED
      BY <3>1, <3>2
  <2>2. ASSUME <<o, d, p, v>> \in DOMAIN acc.points PROVE p \in D
    <3>1. PICK k \in DOMAIN acc.points : k = <<o, d, p, v>>
      BY <2>2
    <3>2. k \in {l \in L : l[4] = v} /\ k[3] = p
      BY <3>1
    <3> QED
      BY <3>2
  <2> QED
    BY <2>1, <2>2
<1> HIDE DEF D
<1>5. At(DimensionSeries(d)[v], p) = At(acc.points, <<o, d, p, v>>)
  BY <1>2, <1>4 DEF At
<1>6. PointsAt(d, p)[v] = At(acc.points, <<o, d, p, v>>)
  BY <1>1, LabelsByKey
<1> QED
  BY <1>5, <1>6

\* The series have points for every period of the outflow.
LEMMA SeriesPeriods ==
    ASSUME BaseInv, AccInv, PartsInv, KeyInv, NEW d \in OutflowDimensions(conf.type)
    PROVE  UNION {DOMAIN DimensionSeries(d)[v] : v \in DOMAIN DimensionSeries(d)}
           = PeriodsOf(OutflowField(conf.type))
<1>1. PICK o : o = OutflowField(conf.type)
  OBVIOUS
<1>2. BoundInv /\ OwnerInv /\ PointInv /\ CleanInv
  BY DEF AccInv
<1> DEFINE L == {k \in DOMAIN acc.points : k[1] = o /\ k[2] = d}
           U == UNION {DOMAIN DimensionSeries(d)[v] : v \in DOMAIN DimensionSeries(d)}
<1>3. /\ DOMAIN DimensionSeries(d) = {k[4] : k \in L}
      /\ \A v \in DOMAIN DimensionSeries(d) :
           DOMAIN DimensionSeries(d)[v] = {k[3] : k \in {l \in L : l[4] = v}}
  BY <1>1 DEF DimensionSeries
<1>4. \A p : p \in PeriodsOf(o) <=> <<o, p>> \in DOMAIN acc.by_period
  BY <1>2, PeriodsByKey
<1>5. ASSUME NEW p \in U PROVE p \in PeriodsOf(o)
  <2>1. PICK v \in DOMAIN DimensionSeries(d) : p \in DOMAIN DimensionSeries(d)[v]
    BY <1>5
  <2>2. PICK k \in DOMAIN acc.points : k[1] = o /\ k[3] = p
    BY <1>3, <2>1
  <2>3. <<k[1], k[3]>> \in DOMAIN acc.by_period
    BY <2>2 DEF KeyInv, TypeOK
  <2> QED
    BY <1>4, <2>2, <2>3
<1>6. ASSUME NEW p \in PeriodsOf(o) PROVE p \in U
  <2>1. PICK i \in Read : \E f \in Ns(i) : <<o, p>> = <<f, P(i)>>
    BY <1>2, <1>4 DEF OwnerInv
  <2>2. o \in Ns(i) /\ P(i) = p
    BY <2>1
  <2>3. o \in DOMAIN C(i) /\ d \in DOMAIN C(i)
    BY <1>1, <1>2, <2>2 DEF CleanInv, Ns, Ds
  <2>4. <<o, d>> \in DimensionAggregations(conf.type)
    <3>1. conf.type \in Types
      BY InsightsAssumption DEF BaseInv
    <3> QED
      BY <1>1, <3>1, Contract
  <2>5. PICK a \in DimensionAggregations(conf.type) : a = <<o, d>>
    BY <2>4
  <2>6. <<a[1], a[2], P(i), C(i)[a[2]]>> \in DOMAIN acc.points
    BY <1>2, <2>3, <2>5 DEF PointInv
  <2>7. PICK k \in DOMAIN acc.points : k = <<o, d, p, C(i)[d]>>
    BY <2>2, <2>5, <2>6
  <2>8. k \in L /\ k[4] = C(i)[d] /\ k[3] = p
    BY <2>7
  <2>9. C(i)[d] \in DOMAIN DimensionSeries(d)
    BY <1>3, <2>8
  <2>10. p \in DOMAIN DimensionSeries(d)[C(i)[d]]
    BY <1>3, <2>8, <2>9
  <2> QED
    BY <2>9, <2>10
<1>7. \A p : p \in U <=> p \in PeriodsOf(o)
  BY <1>5, <1>6
<1> HIDE DEF U
<1>8. U = PeriodsOf(o)
  BY <1>7
<1> QED
  BY <1>1, <1>8 DEF U

\* The variance table holds the changes between the last two periods.
LEMMA VarianceChanges ==
    ASSUME BaseInv, AccInv, PartsInv, KeyInv, NEW d \in OutflowDimensions(conf.type)
    PROVE  Changes(d, Variance(d))
<1>1. PICK o : o = OutflowField(conf.type)
  OBVIOUS
<1>2. PICK S : S = PeriodsOf(o)
  OBVIOUS
<1>3. PICK s : s = DimensionSeries(d)
  OBVIOUS
<1>4. PICK ps : ps = InOrder(S)
  OBVIOUS
<1>5. PICK n : n = Len(ps)
  OBVIOUS
<1>6. UNION {DOMAIN s[v] : v \in DOMAIN s} = S
  BY <1>1, <1>2, <1>3, SeriesPeriods
<1>7. InOrder(UNION {DOMAIN DimensionSeries(d)[v] : v \in DOMAIN DimensionSeries(d)}) = ps
  BY <1>3, <1>4, <1>6
<1>8. /\ DOMAIN Variance(d) = DOMAIN s
      /\ \A v \in DOMAIN s : ~(n < 2) =>
           Variance(d)[v].change = At(s[v], ps[n]) - At(s[v], ps[n - 1])
  BY <1>3, <1>5, <1>7 DEF Variance
<1>9. BoundInv /\ OwnerInv
  BY DEF AccInv
<1>10. IsFiniteSet(S) /\ S \subseteq Nat
  <2>1. IsFiniteSet(S) /\ \A p \in S : <<o, p>> \in DOMAIN acc.by_period
    BY <1>2, <1>9, PeriodsByKey
  <2>2. \A p \in S : p \in Nat
    <3>1. ASSUME NEW p \in S PROVE p \in Nat
      <4>1. PICK k \in DOMAIN acc.by_period : k = <<o, p>>
        BY <2>1
      <4>2. k[2] \in Nat
        BY <4>1 DEF KeyInv, TypeOK
      <4> QED
        BY <4>1, <4>2
    <3> QED
      BY <3>1
  <2> QED
    BY <2>1, <2>2
<1>11. ASSUME Cardinality(S) > 1, NEW v \in PointLabels(d)
       PROVE  Variance(d)[v].change = PointsAt(d, LastPeriod)[v] - PointsAt(d, PriorPeriod)[v]
  <2>1. S # {}
    BY <1>11, FS_EmptySet
  <2>2. /\ n = Cardinality(S) /\ n \in Nat \ {0} /\ ps[n] = Max(S)
        /\ n > 1 => ps[n - 1] = Max(S \ {Max(S)})
    BY <1>4, <1>5, <1>10, <2>1, OrderEnds
  <2>3. ps[n] = LastPeriod /\ ps[n - 1] = PriorPeriod /\ ~(n < 2)
    BY <1>1, <1>2, <1>11, <2>2 DEF LastPeriod, PriorPeriod
  <2>4. v \in DOMAIN s
    BY <1>3 DEF PointLabels
  <2>5. Variance(d)[v].change = At(s[v], LastPeriod) - At(s[v], PriorPeriod)
    BY <1>8, <2>3, <2>4
  <2>6. /\ At(s[v], LastPeriod) = PointsAt(d, LastPeriod)[v]
        /\ At(s[v], PriorPeriod) = PointsAt(d, PriorPeriod)[v]
    BY <1>3, <1>9, SeriesPoints
  <2> QED
    BY <2>5, <2>6
<1> QED
  BY <1>1, <1>2, <1>3, <1>8, <1>11 DEF Changes, PointLabels

\* Rendered shows it.
LEMMA RenderedShows ==
    ASSUME BaseInv, AccInv, PartsInv, KeyInv
    PROVE  Shows(Rendered)
<1>1. conf.type \in Types
  BY InsightsAssumption DEF BaseInv
<1>2. PICK r : r = Rendered
  OBVIOUS
<1>3. /\ r.breakdowns = [d \in BreakdownDimensions |-> Breakdown(d)]
      /\ r.series = [d \in SeriesDimensions |-> DimensionSeries(d)]
      /\ r.variance = IF conf.type = "financial_performance" THEN Variance("category") ELSE <<>>
  BY <1>2 DEF Rendered
<1>4. /\ BreakdownDimensions \subseteq OutflowDimensions(conf.type)
      /\ SeriesDimensions \subseteq OutflowDimensions(conf.type)
      /\ conf.type = "financial_performance" => "category" \in OutflowDimensions(conf.type)
  BY <1>1 DEF BreakdownDimensions, SeriesDimensions, OutflowDimensions, Types
<1>5. \A d : /\ DOMAIN Breakdown(d) = DimLabels(d)
             /\ \A v \in DimLabels(d) : Breakdown(d)[v].amount = ByDimension(d)[v]
  BY DEF Breakdown, DimLabels
<1>6. DOMAIN r.variance = {} \/ \E d \in OutflowDimensions(conf.type) : Changes(d, r.variance)
  <2>1. CASE conf.type = "financial_performance"
    BY <1>3, <1>4, <2>1, VarianceChanges
  <2>2. CASE conf.type # "financial_performance"
    BY <1>3, <2>2
  <2> QED
    BY <2>1, <2>2
<1>7. Shows(r)
  BY <1>3, <1>4, <1>5, <1>6 DEF Shows
<1> QED
  BY <1>2, <1>7

\* It stays shown while configuration and accumulator stay.
LEMMA ShowsStays ==
    ASSUME NEW r, Shows(r), UNCHANGED <<conf, acc>>
    PROVE  Shows(r)'
<1>1. \A d : ByDimension(d)' = ByDimension(d) /\ DimensionSeries(d)' = DimensionSeries(d)
  BY DEF ByDimension, DimensionSeries
<1>2. \A d : DimLabels(d)' = DimLabels(d) /\ PointLabels(d)' = PointLabels(d)
  BY <1>1 DEF DimLabels, PointLabels
<1>3. \A d, q : PointsAt(d, q)' = PointsAt(d, q)
  BY <1>2 DEF PointsAt
<1>4. \A f : PeriodsOf(f)' = PeriodsOf(f)
  BY DEF PeriodsOf
<1>5. LastPeriod' = LastPeriod /\ PriorPeriod' = PriorPeriod
  BY <1>4 DEF LastPeriod, PriorPeriod
<1>6. \A d, s : Changes(d, s)' <=> Changes(d, s)
  BY <1>2, <1>3, <1>4, <1>5 DEF Changes
<1> QED
  BY <1>1, <1>2, <1>6 DEF Shows

LEMMA PartsInit == Init => PartsOfWhole
<1> SUFFICES ASSUME Init PROVE PartsOfWhole
  OBVIOUS
<1>1. FaithInv /\ BaseInv
  BY FaithInit DEF FaithInv, VerdictInv
<1>2. /\ acc.by_dim = <<>> /\ acc.points = <<>> /\ acc.by_period = <<>>
      /\ acc.total = [f \in NumericFields |-> 0]
  BY DEF Init, NoRows
<1>3. DOMAIN acc.by_dim = {} /\ DOMAIN acc.points = {} /\ DOMAIN acc.by_period = {}
  BY <1>2
<1>4. \A d : DimLabels(d) = {} /\ PointLabels(d) = {}
  BY <1>3 DEF DimLabels, PointLabels, ByDimension, DimensionSeries
<1>5. \A g : SumOver(g, {}) = 0
  BY SumEmpty
<1>6. OutflowField(conf.type) \in NumericFields
  <2>1. conf.type \in Types
    BY <1>1, InsightsAssumption DEF BaseInv
  <2> QED
    BY <2>1, Contract
<1>7. acc.total[OutflowField(conf.type)] = 0
  BY <1>2, <1>6
<1>8. \A q : At(acc.by_period, <<OutflowField(conf.type), q>>) = 0
  BY <1>3 DEF At
<1>9. PartsInv
  BY <1>3, <1>4, <1>5, <1>7, <1>8, FS_EmptySet DEF PartsInv
<1>10. status # "rendered"
  BY DEF Init
<1> QED
  BY <1>1, <1>9, <1>10 DEF PartsOfWhole

LEMMA PartsInductive == PartsOfWhole /\ [Next]_vars => PartsOfWhole'
<1> SUFFICES ASSUME PartsOfWhole, [Next]_vars PROVE PartsOfWhole'
  OBVIOUS
<1>1. FaithInv /\ FaithInv'
  BY FaithInductive DEF PartsOfWhole
<1>2. ASSUME UNCHANGED <<conf, acc>>, status' # "failed" => status # "failed", status' # "rendered"
      PROVE  PartsOfWhole'
  BY <1>1, <1>2, IdleParts DEF PartsOfWhole
<1>3. CASE ReadProfile
  BY <1>2, <1>3 DEF ReadProfile, Fails
<1>4. ASSUME NEW row \in Rows(conf.type), ReadRow(row) PROVE PartsOfWhole'
  <2>1. /\ BaseInv /\ AccInv /\ AmountInv /\ PartsInv /\ conf' = conf
        /\ rows' = Append(rows, row) /\ status = "rows" /\ job' = job
    BY <1>1, <1>4 DEF PartsOfWhole, FaithInv, VerdictInv, ReadRow
  <2>2. CASE UNCHANGED acc
    <3>1. status' # "rendered"
      BY <1>4 DEF ReadRow, Fails
    <3> QED
      BY <1>2, <2>1, <2>2, <3>1
  <2>3. CASE /\ row.sheet \in Sheets /\ Mapped(row) /\ RowErrors(row) = {}
             /\ acc' = Observed(row) /\ UNCHANGED <<status, error>>
    <3>1. Accepts(row, Len(rows) + 1)
      BY <1>4, <2>1, <2>3, FitsIffNoError DEF Accepts, Reads
    <3>2. PartsInv'
      BY <2>1, <3>1, AcceptParts
    <3> QED
      BY <1>1, <2>1, <2>3, <3>2 DEF PartsOfWhole
  <2> QED
    BY <1>4, <2>2, <2>3 DEF ReadRow
<1>5. CASE EndOfReport
  BY <1>2, <1>5 DEF EndOfReport, Fails
<1>6. CASE Render
  <2>1. /\ BaseInv /\ AccInv /\ PartsInv /\ KeyInv /\ UNCHANGED <<conf, acc>> /\ status = "ready"
    BY <1>1, <1>6 DEF PartsOfWhole, FaithInv, VerdictInv, Render
  <2>2. CASE status' = "failed"
    BY <1>2, <2>1, <2>2
  <2>3. CASE status' = "rendered" /\ result' = Rendered
    <3>1. PICK r : r = Rendered
      OBVIOUS
    <3>2. Shows(r)
      BY <2>1, <3>1, RenderedShows
    <3>3. Shows(r)'
      BY <2>1, <3>2, ShowsStays
    <3>4. Shows(result)'
      BY <2>3, <3>1, <3>3 DEF Shows
    <3>5. PartsInv'
      BY <2>1, IdleParts
    <3> QED
      BY <1>1, <3>4, <3>5 DEF PartsOfWhole
  <2> QED
    BY <1>6, <2>2, <2>3 DEF Render, Fails
<1>7. CASE UNCHANGED vars
  <2>1. UNCHANGED <<conf, acc, status, result>>
    BY <1>7 DEF vars
  <2>2. CASE status # "rendered"
    BY <1>2, <2>1, <2>2
  <2>3. CASE status = "rendered"
    <3>1. PICK r : r = result
      OBVIOUS
    <3>2. Shows(r)'
      BY <2>1, <2>3, <3>1, ShowsStays DEF PartsOfWhole
    <3>3. Shows(result)'
      BY <2>1, <3>1, <3>2 DEF Shows
    <3>4. PartsInv'
      BY <2>1, <2>3, IdleParts DEF PartsOfWhole
    <3> QED
      BY <1>1, <3>3, <3>4 DEF PartsOfWhole
  <2> QED
    BY <2>2, <2>3
<1> QED
  BY <1>3, <1>4, <1>5, <1>6, <1>7 DEF Next

\* The sums of what is rendered, as sums of functions.
LEMMA SumOfAmountsIs ==
    ASSUME NEW d, NEW g, NEW S, S = DOMAIN result.breakdowns[d],
           \A v \in S : g[v] = result.breakdowns[d][v].amount
    PROVE  SumOfAmounts(d) = SumOver(g, S)
<1> DEFINE D == DOMAIN result.breakdowns[d]
           Step(h, s) == IF s = {} THEN 0 ELSE result.breakdowns[d][Pick(s)].amount + h[s \ {Pick(s)}]
<1>1. \A h : \A s \in SUBSET D : SumStep(g, h, s) = Step(h, s)
  BY PickIn DEF SumStep
<1>2. \A h : [s \in SUBSET D |-> SumStep(g, h, s)] = [s \in SUBSET D |-> Step(h, s)]
  BY <1>1
<1> HIDE DEF D, Step
<1>3. PartialSums(g, D) = CHOOSE h : h = [s \in SUBSET D |-> Step(h, s)]
  BY <1>2, Zenon DEF PartialSums
<1> USE DEF D, Step
<1>4. SumOfAmounts(d) = PartialSums(g, D)[D]
  BY <1>3, Zenon DEF SumOfAmounts, MapThenSumSet, MapThenFoldSet, Pick
<1> HIDE DEF Step
<1> QED
  BY <1>4, SumUnfolds

LEMMA SumOfSeriesIs ==
    ASSUME NEW d, NEW p, NEW g, NEW S, S = DOMAIN result.series[d],
           \A v \in S : g[v] = At(result.series[d][v], p)
    PROVE  SumOfSeries(d, p) = SumOver(g, S)
<1> DEFINE D == DOMAIN result.series[d]
           Step(h, s) == IF s = {} THEN 0 ELSE At(result.series[d][Pick(s)], p) + h[s \ {Pick(s)}]
<1>1. \A h : \A s \in SUBSET D : SumStep(g, h, s) = Step(h, s)
  BY PickIn DEF SumStep
<1>2. \A h : [s \in SUBSET D |-> SumStep(g, h, s)] = [s \in SUBSET D |-> Step(h, s)]
  BY <1>1
<1> HIDE DEF D, Step
<1>3. PartialSums(g, D) = CHOOSE h : h = [s \in SUBSET D |-> Step(h, s)]
  BY <1>2, Zenon DEF PartialSums
<1> USE DEF D, Step
<1>4. SumOfSeries(d, p) = PartialSums(g, D)[D]
  BY <1>3, Zenon DEF SumOfSeries, MapThenSumSet, MapThenFoldSet, Pick
<1> HIDE DEF Step
<1> QED
  BY <1>4, SumUnfolds

LEMMA SumOfChangesIs ==
    ASSUME NEW g, NEW S, S = DOMAIN result.variance,
           \A v \in S : g[v] = result.variance[v].change
    PROVE  SumOfChanges = SumOver(g, S)
<1> DEFINE D == DOMAIN result.variance
           Step(h, s) == IF s = {} THEN 0 ELSE result.variance[Pick(s)].change + h[s \ {Pick(s)}]
<1>1. \A h : \A s \in SUBSET D : SumStep(g, h, s) = Step(h, s)
  BY PickIn DEF SumStep
<1>2. \A h : [s \in SUBSET D |-> SumStep(g, h, s)] = [s \in SUBSET D |-> Step(h, s)]
  BY <1>1
<1> HIDE DEF D, Step
<1>3. PartialSums(g, D) = CHOOSE h : h = [s \in SUBSET D |-> Step(h, s)]
  BY <1>2, Zenon DEF PartialSums
<1> USE DEF D, Step
<1>4. SumOfChanges = PartialSums(g, D)[D]
  BY <1>3, Zenon DEF SumOfChanges, MapThenSumSet, MapThenFoldSet, Pick
<1> HIDE DEF Step
<1> QED
  BY <1>4, SumUnfolds

\* Breakdowns add up to the total, series to the amount of each period and
\* variances to the change of the whole (_breakdown, _dimension_series and
\* _variance_table), for any number of reports, rows, labels and periods.
THEOREM PartsAddUp == Spec => []WholeIsSumOfParts
<1>1. PartsOfWhole => WholeIsSumOfParts
  <2> SUFFICES ASSUME PartsOfWhole, status = "rendered" PROVE WholeIsSumOfParts
    BY DEF WholeIsSumOfParts
  <2>1. BaseInv /\ AccInv /\ KeyInv /\ PartsInv /\ Shows(result) /\ BoundInv /\ OwnerInv
    BY DEF PartsOfWhole, FaithInv, VerdictInv, AccInv
  <2>2. PICK o : o = OutflowField(conf.type)
    OBVIOUS
  <2>3. ASSUME NEW d \in DOMAIN result.breakdowns PROVE SumOfAmounts(d) = acc.total[o]
    <3>1. /\ d \in OutflowDimensions(conf.type) /\ DOMAIN result.breakdowns[d] = DimLabels(d)
          /\ \A v \in DimLabels(d) : result.breakdowns[d][v].amount = ByDimension(d)[v]
      BY <2>1 DEF Shows
    <3>2. SumOfAmounts(d) = SumOver(ByDimension(d), DimLabels(d))
      BY <3>1, SumOfAmountsIs
    <3> QED
      BY <2>1, <2>2, <3>1, <3>2 DEF PartsInv
  <2>4. \A p \in PeriodsOf(o) : At(acc.by_period, <<o, p>>) = ByPeriod(o)[p]
    BY <2>1, PeriodsByKey DEF At
  <2>5. ASSUME NEW d \in OutflowDimensions(conf.type), NEW p \in PeriodsOf(o)
        PROVE  SumOver(PointsAt(d, p), PointLabels(d)) = ByPeriod(o)[p]
    BY <2>1, <2>2, <2>4 DEF PartsInv
  <2>6. ASSUME NEW d \in DOMAIN result.series, NEW p \in PeriodsOf(o)
        PROVE  SumOfSeries(d, p) = ByPeriod(o)[p]
    <3>1. d \in OutflowDimensions(conf.type) /\ result.series[d] = DimensionSeries(d)
      BY <2>1 DEF Shows
    <3>2. DOMAIN result.series[d] = PointLabels(d)
      BY <3>1 DEF PointLabels
    <3>3. \A v \in PointLabels(d) : PointsAt(d, p)[v] = At(result.series[d][v], p)
      BY <2>1, <3>1, SeriesPoints
    <3>4. SumOfSeries(d, p) = SumOver(PointsAt(d, p), PointLabels(d))
      BY <3>2, <3>3, SumOfSeriesIs
    <3> QED
      BY <2>5, <3>1, <3>4
  <2>7. ASSUME Cardinality(PeriodsOf(o)) > 1, DOMAIN result.variance # {}
        PROVE  SumOfChanges = ByPeriod(o)[LastPeriod] - ByPeriod(o)[PriorPeriod]
    <3>1. PICK d \in OutflowDimensions(conf.type) : Changes(d, result.variance)
      BY <2>1, <2>7 DEF Shows
    <3>2. PICK f, g, S : f = PointsAt(d, LastPeriod) /\ g = PointsAt(d, PriorPeriod) /\ S = PointLabels(d)
      OBVIOUS
    <3>3. PICK h : h = [v \in S |-> f[v] - g[v]]
      OBVIOUS
    <3>4. DOMAIN result.variance = S /\ \A v \in S : h[v] = result.variance[v].change
      BY <2>2, <2>7, <3>1, <3>2, <3>3 DEF Changes
    <3>5. SumOfChanges = SumOver(h, S)
      BY <3>4, SumOfChangesIs
    <3>6. IsFiniteSet(S) /\ \A v \in S : f[v] \in Int /\ g[v] \in Int
      BY <2>1, <2>2, <3>2, LabelsByKey
    <3>7. SumOver(h, S) = SumOver(f, S) - SumOver(g, S)
      BY <3>3, <3>6, SumMinus
    <3>8. LastPeriod \in PeriodsOf(o) /\ PriorPeriod \in PeriodsOf(o)
      <4>1. PICK T : T = PeriodsOf(o)
        OBVIOUS
      <4>2. IsFiniteSet(T) /\ \A p \in T : <<o, p>> \in DOMAIN acc.by_period
        BY <2>1, <4>1, PeriodsByKey
      <4>3. \A p \in T : p \in Nat
        <5>1. ASSUME NEW p \in T PROVE p \in Nat
          <6>1. PICK k \in DOMAIN acc.by_period : k = <<o, p>>
            BY <4>2
          <6>2. k[2] \in Nat
            BY <2>1, <6>1 DEF KeyInv, TypeOK
          <6> QED
            BY <6>1, <6>2
        <5> QED
          BY <5>1
      <4>4. T \subseteq Nat
        BY <4>3
      <4>5. T # {}
        BY <2>7, <4>1, FS_EmptySet
      <4>6. Max(T) \in T
        BY <4>2, <4>4, <4>5, MaxExists
      <4>7. PICK U : U = T \ {Max(T)}
        OBVIOUS
      <4>8. IsFiniteSet(U) /\ Cardinality(U) = Cardinality(T) - 1 /\ U \subseteq Nat
        BY <4>2, <4>4, <4>6, <4>7, FS_RemoveElement, FS_Subset
      <4>9. Cardinality(T) \in Nat /\ Cardinality(T) > 1
        BY <2>7, <4>1, <4>2, FS_CardinalityType
      <4>10. U # {}
        BY <4>8, <4>9, FS_EmptySet
      <4>11. Max(U) \in U
        BY <4>8, <4>10, MaxExists
      <4> QED
        BY <2>2, <4>1, <4>6, <4>7, <4>11 DEF LastPeriod, PriorPeriod
    <3>9. SumOver(f, S) = ByPeriod(o)[LastPeriod] /\ SumOver(g, S) = ByPeriod(o)[PriorPeriod]
      BY <2>5, <3>2, <3>8
    <3> QED
      BY <3>5, <3>7, <3>9
  <2> QED
    BY <2>2, <2>3, <2>6, <2>7 DEF WholeIsSumOfParts, LastPeriod, PriorPeriod
<1> QED
  BY <1>1, PartsInit, PartsInductive, PTL DEF Spec

-----------------------------------------------------------------------------
(***************************************************************************)
(* The forecast.                                                           *)
(***************************************************************************)

\* The elements of S before p and after it.
Below(S, p) == {q \in S : q < p}

Above(S, p) == {q \in S : q > p}

\* The elements that at most w others come after.
Late(S, w) == {p \in S : Cardinality({q \in S : q > p}) <= w}

\* In a finite set of natural numbers earlier elements have lower ranks, and
\* what is not before an element or itself comes after it.
LEMMA RankFacts ==
    ASSUME NEW S, S \subseteq Nat, IsFiniteSet(S)
    PROVE  /\ \A p \in S : Cardinality(Below(S, p)) \in Nat /\ Cardinality(Above(S, p)) \in Nat
           /\ \A p \in S : Cardinality(Above(S, p)) = Cardinality(S) - 1 - Cardinality(Below(S, p))
           /\ \A p, r \in S : p < r => Cardinality(Below(S, p)) < Cardinality(Below(S, r))
<1>1. \A p : IsFiniteSet(Below(S, p)) /\ IsFiniteSet(Above(S, p))
  BY FS_Subset DEF Below, Above
<1>2. \A p : Cardinality(Below(S, p)) \in Nat /\ Cardinality(Above(S, p)) \in Nat
  BY <1>1, FS_CardinalityType
<1>3. ASSUME NEW p \in S
      PROVE  Cardinality(Above(S, p)) = Cardinality(S) - 1 - Cardinality(Below(S, p))
  <2>1. PICK U : U = S \ Below(S, p)
    OBVIOUS
  <2>2. S \cap Below(S, p) = Below(S, p)
    BY DEF Below
  <2>3. IsFiniteSet(U) /\ Cardinality(U) = Cardinality(S) - Cardinality(Below(S, p))
    BY <2>1, <2>2, FS_Difference, ZenonT(40)
  <2>4. p \in U /\ U \ {p} = Above(S, p)
    <3>1. ASSUME NEW q \in S PROVE ~(q < p) /\ q # p <=> q > p
      <4>1. q \in Nat /\ p \in Nat
        OBVIOUS
      <4> QED
        BY <4>1
    <3>2. ~(p < p)
      BY p \in Nat
    <3> QED
      BY <2>1, <3>1, <3>2 DEF Below, Above
  <2>5. Cardinality(U \ {p}) = Cardinality(U) - 1
    BY <2>3, <2>4, FS_RemoveElement
  <2>6. Cardinality(S) \in Nat
    BY FS_CardinalityType
  <2> QED
    BY <1>2, <2>3, <2>4, <2>5, <2>6
<1>4. ASSUME NEW p \in S, NEW r \in S, p < r
      PROVE  Cardinality(Below(S, p)) < Cardinality(Below(S, r))
  <2>1. PICK U : U = Below(S, r) \ {p}
    OBVIOUS
  <2>2. p \in Below(S, r)
    BY <1>4 DEF Below
  <2>3. IsFiniteSet(U) /\ Cardinality(U) = Cardinality(Below(S, r)) - 1
    BY <1>1, <2>1, <2>2, FS_RemoveElement, FS_Subset
  <2>4. Below(S, p) \subseteq U
    <3>1. ASSUME NEW q \in S, q < p PROVE q < r /\ q # p
      <4>1. q \in Nat /\ p \in Nat /\ r \in Nat
        OBVIOUS
      <4> QED
        BY <1>4, <3>1, <4>1
    <3> QED
      BY <2>1, <3>1 DEF Below
  <2>5. Cardinality(Below(S, p)) <= Cardinality(U)
    BY <2>3, <2>4, FS_Subset
  <2> QED
    BY <1>2, <2>3, <2>5
<1> QED
  BY <1>2, <1>3, <1>4

\* Every rank is taken.
LEMMA RanksTaken ==
    ASSUME NEW S, S \subseteq Nat, IsFiniteSet(S), NEW n \in Nat, n = Cardinality(S)
    PROVE  \A i \in 1..n : \E p \in S : Cardinality(Below(S, p)) = i - 1
<1> DEFINE Taken(s, k) == \A i \in 1..k : \E p \in s : Cardinality(Below(s, p)) = i - 1
           H == {k \in Nat : \A s \in SUBSET S : Cardinality(s) = k => Taken(s, k)}
<1>1. 0 \in H
  <2>1. 1..0 = {}
    OBVIOUS
  <2>2. \A s : Taken(s, 0)
    BY <2>1, Zenon
  <2> QED
    BY <2>2
<1>2. ASSUME NEW k \in Nat, k \in H PROVE k + 1 \in H
  <2>0. SUFFICES ASSUME NEW s \in SUBSET S, Cardinality(s) = k + 1 PROVE Taken(s, k + 1)
    OBVIOUS
  <2>1. IsFiniteSet(s) /\ s # {} /\ s \subseteq Nat
    <3>1. IsFiniteSet(s)
      BY FS_Subset
    <3>2. s # {}
      BY <2>0, FS_EmptySet
    <3> QED
      BY <3>1, <3>2
  <2>2. PICK m : m = Max(s)
    OBVIOUS
  <2>3. m \in s /\ \A y \in s : m >= y
    BY <2>1, <2>2, MaxExists
  <2>4. s \ {m} \in SUBSET S /\ Cardinality(s \ {m}) = k
    <3>1. s \ {m} \in SUBSET S /\ Cardinality(s \ {m}) = Cardinality(s) - 1
      BY <2>3, Removal
    <3> QED
      BY <2>0, <3>1
  <2>5. Taken(s \ {m}, k)
    BY <1>2, <2>4
  <2>6. Cardinality(Below(s, m)) = (k + 1) - 1
    BY <2>0, <2>1, <2>2, <2>3, MaxRank DEF Below
  <2>7. ASSUME NEW p \in s \ {m} PROVE Below(s, p) = Below(s \ {m}, p)
    <3>1. ~(m < p)
      <4>1. m \in Nat /\ p \in Nat /\ m >= p
        BY <2>1, <2>3
      <4> QED
        BY <4>1
    <3> QED
      BY <3>1 DEF Below
  <2>8. ASSUME NEW i \in 1..(k + 1) PROVE \E p \in s : Cardinality(Below(s, p)) = i - 1
    <3>1. CASE i = k + 1
      BY <2>3, <2>6, <3>1
    <3>2. CASE i # k + 1
      <4>1. i \in 1..k
        BY <3>2
      <4>2. PICK p \in s \ {m} : Cardinality(Below(s \ {m}, p)) = i - 1
        BY <2>5, <4>1
      <4>3. Cardinality(Below(s, p)) = i - 1
        BY <2>7, <4>2
      <4> QED
        BY <4>3
    <3> QED
      BY <3>1, <3>2
  <2> QED
    BY <2>8
<1> HIDE DEF H
<1>3. Nat \subseteq H
  BY <1>1, <1>2, SetInduction
<1> QED
  BY <1>3 DEF H

\* The periods in order are those of ranks 0, 1 and so on.
LEMMA OrderRanks ==
    ASSUME NEW S, S \subseteq Nat, IsFiniteSet(S), NEW n \in Nat, n = Cardinality(S)
    PROVE  \A i \in 1..n : /\ InOrder(S)[i] \in S
                           /\ Cardinality(Below(S, InOrder(S)[i])) = i - 1
<1> TAKE i \in 1..n
<1>1. InOrder(S) = [j \in 1..n |-> CHOOSE p \in S : Cardinality(Below(S, p)) = j - 1]
  BY Zenon DEF InOrder, Below
<1>2. InOrder(S)[i] = CHOOSE p \in S : Cardinality(Below(S, p)) = i - 1
  BY <1>1, Zenon
<1>3. \E p \in S : Cardinality(Below(S, p)) = i - 1
  BY RanksTaken
<1> QED
  BY <1>2, <1>3, Zenon

\* The periods that at most w others come after are the last w + 1 in order.
LEMMA RecentPeriods ==
    ASSUME NEW S, S \subseteq Nat, IsFiniteSet(S), NEW n \in Nat \ {0}, n = Cardinality(S),
           NEW w \in Nat, NEW m \in 1..n, m = IF n - 1 > w THEN n - w ELSE 1
    PROVE  Cardinality(Late(S, w)) = n - m + 1 /\ Min(Late(S, w)) = InOrder(S)[m]
<1>0. PICK T : T = Late(S, w)
  OBVIOUS
<1>1. PICK x : x = InOrder(S)[m]
  OBVIOUS
<1>2. x \in S /\ Cardinality(Below(S, x)) = m - 1 /\ x \in Nat
  BY <1>1, OrderRanks
<1>3. \A p \in S : /\ Cardinality(Below(S, p)) \in Nat /\ p \in Nat
                   /\ Cardinality(Above(S, p)) = n - 1 - Cardinality(Below(S, p))
                   /\ p < x => Cardinality(Below(S, p)) < m - 1
                   /\ x < p => m - 1 < Cardinality(Below(S, p))
  BY <1>2, RankFacts
<1>4. T = {p \in S : Cardinality(Above(S, p)) <= w}
  BY <1>0 DEF Above, Late
<1>5. ASSUME NEW p \in S PROVE p \in T <=> ~(p < x)
  <2>1. PICK k \in Nat : k = Cardinality(Below(S, p))
    BY <1>3
  <2>2. p \in T <=> n - 1 - k <= w
    BY <1>3, <1>4, <2>1
  <2>3. p = x => k = m - 1
    BY <1>2, <2>1
  <2>4. (p < x => k < m - 1) /\ (x < p => m - 1 < k) /\ p \in Nat
    BY <1>3, <2>1
  <2>5. p < x \/ p = x \/ x < p
    BY <1>2, <2>4
  <2>6. Cardinality(Above(S, p)) \in Nat /\ n - 1 - k \in Nat
    BY <1>3, <2>1, RankFacts
  <2> QED
    BY <1>2, <2>2, <2>3, <2>4, <2>5, <2>6
<1>6. T = S \ Below(S, x)
  BY <1>4, <1>5 DEF Below
<1>7. S \cap Below(S, x) = Below(S, x)
  BY DEF Below
<1>8. Cardinality(T) = n - (m - 1)
  <2>1. Cardinality(S \ Below(S, x)) = Cardinality(S) - Cardinality(S \cap Below(S, x))
    BY FS_Difference
  <2> QED
    BY <1>2, <1>6, <1>7, <2>1
<1>9. x \in T /\ \A y \in T : x <= y
  BY <1>2, <1>3, <1>4, <1>5
<1>10. ASSUME NEW y \in T, \A z \in T : y <= z PROVE y = x
  <2>1. y <= x /\ x <= y /\ y \in S
    BY <1>4, <1>9, <1>10
  <2>2. y \in Nat /\ x \in Nat
    BY <1>2, <2>1
  <2> QED
    BY <2>1, <2>2
<1>11. Min(T) = x
  BY <1>9, <1>10, Zenon DEF Min
<1> QED
  BY <1>0, <1>1, <1>8, <1>11

\* The fold of a sequence from the left takes the last position of a set first.
LeftStep(s, h, t) == IF t = {} THEN 0 ELSE h[t \ {Max(t)}] + s[Max(t)]

SumLeft(s) == FoldLeft(+, 0, s)

LeftSums(s) == CHOOSE h : h = [t \in SUBSET DOMAIN s |-> LeftStep(s, h, t)]

LEMMA FoldUnfolds ==
    ASSUME NEW s
    PROVE  SumLeft(s) = LeftSums(s)[DOMAIN s]
BY Zenon DEF SumLeft, FoldLeft, MapThenFoldSet, LeftSums, LeftStep

\* The sums in any order solve its recursion, so it has a solution.
LEMMA LeftSumsExist ==
    ASSUME NEW c, NEW D, IsFiniteSet(D), D \subseteq Nat, \A a \in D : c[a] \in Int
    PROVE  \E h : h = [t \in SUBSET D |-> LeftStep(c, h, t)]
<1> DEFINE g == [t \in SUBSET D |-> SumOver(c, t)]
<1>1. ASSUME NEW t \in SUBSET D PROVE g[t] = LeftStep(c, g, t)
  <2>1. CASE t = {}
    BY <2>1, SumEmpty DEF LeftStep
  <2>2. CASE t # {}
    <3>1. PICK m : m = Max(t)
      OBVIOUS
    <3>2. m \in t
      <4>1. IsFiniteSet(t) /\ t \subseteq Nat
        BY FS_Subset
      <4> QED
        BY <2>2, <3>1, <4>1, MaxExists
    <3>3. PICK u : u = t \ {m}
      OBVIOUS
    <3>4. IsFiniteSet(u) /\ m \notin u /\ u \cup {m} = t /\ u \in SUBSET D
          /\ \A y \in u \cup {m} : c[y] \in Int
      BY <3>2, <3>3, FS_Subset
    <3>5. SumOver(c, u \cup {m}) = SumOver(c, u) + c[m]
      BY <3>4, SumAdd
    <3>6. g[t] = g[u] + c[m]
      BY <3>4, <3>5
    <3> HIDE DEF g
    <3> QED
      BY <2>2, <3>1, <3>3, <3>6 DEF LeftStep
  <2> QED
    BY <2>1, <2>2
<1>2. g = [t \in SUBSET D |-> g[t]]
  OBVIOUS
<1> HIDE DEF g
<1>3. g = [t \in SUBSET D |-> LeftStep(c, g, t)]
  BY <1>1, <1>2, Zenon
<1> QED
  BY <1>3, Zenon

LEMMA LeftSumsUnfold ==
    ASSUME NEW c, NEW D, D = DOMAIN c, IsFiniteSet(D), D \subseteq Nat, \A a \in D : c[a] \in Int
    PROVE  \A t \in SUBSET D : LeftSums(c)[t] = LeftStep(c, LeftSums(c), t)
<1>1. \E h : h = [t \in SUBSET D |-> LeftStep(c, h, t)]
  <2> DEFINE E(b, S) == \E h : h = [t \in SUBSET S |-> LeftStep(b, h, t)]
  <2>1. \A b, S : IsFiniteSet(S) /\ S \subseteq Nat /\ (\A a \in S : b[a] \in Int) => E(b, S)
    BY LeftSumsExist
  <2> HIDE DEF E
  <2>2. E(c, D)
    BY <2>1
  <2> QED
    BY <2>2 DEF E
<1>2. LeftSums(c) = CHOOSE h : h = [t \in SUBSET D |-> LeftStep(c, h, t)]
  BY Zenon DEF LeftSums
<1>3. LeftSums(c) = [t \in SUBSET D |-> LeftStep(c, LeftSums(c), t)]
  BY <1>1, <1>2, Zenon
<1>4. PICK f : f = LeftSums(c) /\ f = [t \in SUBSET D |-> LeftStep(c, f, t)]
  BY <1>3, Zenon
<1>5. \A t \in SUBSET D : f[t] = LeftStep(c, f, t)
  BY <1>4
<1> QED
  BY <1>4, <1>5

\* The changes between neighbouring values add up to the change from the first
\* to the last.
LEMMA ChangesTelescope ==
    ASSUME NEW n \in Nat, NEW s, DOMAIN s = 1..n, NEW w,
           \A i \in 1..(n + 1) : w[i] \in Int,
           \A i \in 1..n : s[i] = w[i + 1] - w[i]
    PROVE  SumLeft(s) = w[n + 1] - w[1]
<1> DEFINE H == {k \in Nat : k <= n => LeftSums(s)[1..k] = w[k + 1] - w[1]}
<1>1. \A i \in 1..n : s[i] \in Int
  <2> TAKE i \in 1..n
  <2>1. i \in 1..(n + 1) /\ i + 1 \in 1..(n + 1)
    OBVIOUS
  <2>2. w[i] \in Int /\ w[i + 1] \in Int
    BY <2>1
  <2> QED
    BY <2>2
<1>2. \A t \in SUBSET (1..n) : LeftSums(s)[t] = LeftStep(s, LeftSums(s), t)
  <2>1. IsFiniteSet(1..n) /\ 1..n \subseteq Nat
    BY FS_Interval
  <2> QED
    BY <1>1, <2>1, LeftSumsUnfold, Zenon
<1>3. 0 \in H
  <2>1. 1..0 = {} /\ {} \in SUBSET (1..n) /\ 1 \in 1..(n + 1)
    OBVIOUS
  <2>2. LeftSums(s)[{}] = 0
    BY <1>2, <2>1 DEF LeftStep
  <2>3. w[0 + 1] - w[1] = 0
    <3>1. w[1] \in Int /\ 0 + 1 = 1
      BY <2>1
    <3> QED
      BY <3>1
  <2> QED
    BY <2>1, <2>2, <2>3
<1>4. ASSUME NEW k \in Nat, k \in H PROVE k + 1 \in H
  <2>1. SUFFICES ASSUME k + 1 <= n PROVE LeftSums(s)[1..(k + 1)] = w[(k + 1) + 1] - w[1]
    OBVIOUS
  <2>2. LeftSums(s)[1..k] = w[k + 1] - w[1]
    BY <1>4, <2>1
  <2>3. PICK t : t = 1..(k + 1)
    OBVIOUS
  <2>4. t \in SUBSET (1..n) /\ t # {} /\ k + 1 \in t /\ t \subseteq Nat /\ t \ {k + 1} = 1..k
        /\ \A y \in t : k + 1 >= y
    <3>1. \A y \in Int : y \in t <=> 1 <= y /\ y <= k + 1
      BY <2>3
    <3>2. t \subseteq Int
      BY <2>3
    <3>3. t \subseteq 1..n /\ k + 1 \in t /\ t \subseteq Nat /\ \A y \in t : k + 1 >= y
      BY <2>1, <3>1, <3>2
    <3>4. t \ {k + 1} = 1..k
      <4>1. \A y \in Int : y \in 1..k <=> y \in t /\ y # k + 1
        BY <3>1
      <4>2. 1..k \subseteq Int
        OBVIOUS
      <4> QED
        BY <3>2, <4>1, <4>2
    <3> QED
      BY <3>3, <3>4
  <2>5. Max(t) = k + 1
    <3>1. IsFiniteSet(t)
      BY <2>3, FS_Interval
    <3> QED
      BY <2>4, <3>1, MaxExists
  <2>6. LeftSums(s)[t] = LeftSums(s)[1..k] + s[k + 1]
    BY <1>2, <2>4, <2>5 DEF LeftStep
  <2>7. 1 \in 1..(n + 1) /\ k + 1 \in 1..(n + 1) /\ (k + 1) + 1 \in 1..(n + 1) /\ k + 1 \in 1..n
    BY <2>1
  <2>8. PICK a \in Int, b \in Int, c \in Int : a = w[1] /\ b = w[k + 1] /\ c = w[(k + 1) + 1]
    BY <2>7
  <2>9. s[k + 1] = c - b
    BY <2>7, <2>8
  <2>10. (b - a) + (c - b) = c - a
    OBVIOUS
  <2> QED
    BY <2>2, <2>3, <2>6, <2>8, <2>9, <2>10
<1> HIDE DEF H
<1>5. Nat \subseteq H
  BY <1>3, <1>4, SetInduction
<1>6. LeftSums(s)[1..n] = w[n + 1] - w[1]
  BY <1>5 DEF H
<1> QED
  BY <1>6, FoldUnfolds

\* The number of changes that the trend is divided by.
Changing(n) == IF n = 0 THEN 1 ELSE n

\* The trend of the cash flow is the change since the first of the recent
\* periods, over as many changes as there are between them.
LEMMA ForecastSteps ==
    ASSUME OwnerInv, BoundInv, KeyInv, NEW S, S = PeriodsOf("net_cash"), S # {},
           NEW v, v = ByPeriod("net_cash"),
           NEW T, T = Late(S, Window),
           NEW n, n = Cardinality(T) - 1, NEW k, k = Changing(n)
    PROVE  /\ n \in Nat /\ Max(S) \in S /\ Min(T) \in S /\ \A p \in S : v[p] \in Int
           /\ n = 0 => Min(T) = Max(S)
           /\ \A step \in 0..3 :
                Forecast[step + 1] = <<v[Max(S)] * k + (v[Max(S)] - v[Min(T)]) * step, k>>
<1> DEFINE pr == InOrder(DOMAIN ByPeriod("net_cash"))
           ch == [i \in 1..Len(pr) - 1 |->
                    ByPeriod("net_cash")[pr[i + 1]] - ByPeriod("net_cash")[pr[i]]]
           rc == Recent(ch)
           tr == SumLeft(rc)
           le == IF rc = <<>> THEN 1 ELSE Len(rc)
<1>1. Forecast = IF pr = <<>> THEN <<>>
                 ELSE [i \in 1..4 |-> <<Latest("net_cash") * le + tr * (i - 1), le>>]
  BY Zenon DEF Forecast, SumLeft
<1>2. /\ IsFiniteSet(S) /\ \A p \in S : v[p] \in Int
      /\ DOMAIN v = S
  BY PeriodsByKey
<1>3. S \subseteq Nat
  <2>1. \A p \in S : <<"net_cash", p>> \in DOMAIN acc.by_period
    BY PeriodsByKey
  <2> QED
    BY <2>1 DEF KeyInv, TypeOK
<1>4. PICK c : c = Cardinality(S)
  OBVIOUS
<1>5. c \in Nat \ {0} /\ Len(InOrder(S)) = c /\ InOrder(S)[c] = Max(S)
  BY <1>2, <1>3, <1>4, OrderEnds
<1>6. PICK m : m = IF c - 1 > Window THEN c - Window ELSE 1
  OBVIOUS
<1>7. Window \in Nat /\ m \in 1..c /\ m \in Nat
  BY <1>5, <1>6, InsightsAssumption
<1>8. Cardinality(T) = c - m + 1 /\ Min(T) = InOrder(S)[m]
  <2>1. c = Cardinality(S) /\ c \in Nat \ {0}
    BY <1>4, <1>5
  <2> QED
    BY <1>2, <1>3, <1>6, <1>7, <2>1, RecentPeriods
<1>9. n = c - m /\ n \in Nat
  BY <1>5, <1>7, <1>8
<1>10. pr = InOrder(S) /\ Len(pr) = c
  BY <1>2, <1>5
<1>11. \A i \in 1..c : pr[i] \in S /\ v[pr[i]] \in Int
  BY <1>2, <1>3, <1>4, <1>5, <1>10, OrderRanks
<1> HIDE DEF pr
<1>12. ch = [i \in 1..(c - 1) |-> v[pr[i + 1]] - v[pr[i]]]
  BY <1>10
<1>13. Len(ch) = c - 1 /\ \A i \in 1..(c - 1) : ch[i] = v[pr[i + 1]] - v[pr[i]] /\ ch[i] \in Int
  <2>1. c - 1 \in Nat
    BY <1>5
  <2>2. \A i \in 1..(c - 1) : i \in 1..c /\ i + 1 \in 1..c
    BY <1>5
  <2> HIDE DEF ch
  <2> QED
    BY <1>11, <1>12, <2>1, <2>2
<1> HIDE DEF ch
<1>14. rc = SubSeq(ch, m, c - 1)
  <2>1. rc = SubSeq(ch, IF Len(ch) > Window THEN Len(ch) - Window + 1 ELSE 1, Len(ch))
    BY Zenon DEF Recent
  <2>2. m = (IF Len(ch) > Window THEN Len(ch) - Window + 1 ELSE 1) /\ Len(ch) = c - 1
    BY <1>5, <1>6, <1>7, <1>13
  <2> QED
    BY <2>1, <2>2, Zenon
<1>15. rc \in Seq(Int) /\ Len(rc) = n /\ \A i \in 1..n : rc[i] = ch[m + i - 1]
  <2>1. m \in Int /\ c - 1 \in Int /\ \A i \in m..(c - 1) : ch[i] \in Int
    BY <1>5, <1>7, <1>13
  <2>2. /\ SubSeq(ch, m, c - 1) \in Seq(Int)
        /\ Len(SubSeq(ch, m, c - 1)) = IF m <= c - 1 THEN (c - 1) - m + 1 ELSE 0
        /\ \A i \in 1..((c - 1) - m + 1) : SubSeq(ch, m, c - 1)[i] = ch[m + i - 1]
    BY <2>1, SubSeqProperties
  <2>3. n = (c - 1) - m + 1 /\ n = IF m <= c - 1 THEN (c - 1) - m + 1 ELSE 0
    BY <1>5, <1>7, <1>9
  <2> QED
    BY <1>14, <2>2, <2>3
<1> HIDE DEF rc
<1> DEFINE w == [i \in 1..(n + 1) |-> v[pr[m + i - 1]]]
<1>16. \A i \in 1..(n + 1) : w[i] = v[pr[m + i - 1]] /\ w[i] \in Int
  <2>1. \A i \in 1..(n + 1) : m + i - 1 \in 1..c
    BY <1>5, <1>7, <1>9
  <2> QED
    BY <1>11, <2>1
<1> HIDE DEF w
<1>17. \A i \in 1..n : rc[i] = w[i + 1] - w[i]
  <2> TAKE i \in 1..n
  <2>1. m + i - 1 \in 1..(c - 1) /\ (m + i - 1) + 1 = m + (i + 1) - 1
        /\ i \in 1..(n + 1) /\ i + 1 \in 1..(n + 1)
    BY <1>5, <1>7, <1>9
  <2>2. rc[i] = v[pr[(m + i - 1) + 1]] - v[pr[m + i - 1]]
    BY <1>13, <1>15, <2>1
  <2> QED
    BY <1>16, <2>1, <2>2
<1>18. DOMAIN rc = 1..n
  BY <1>15
<1>19. tr = w[n + 1] - w[1]
  <2>1. n \in Nat /\ \A i \in 1..(n + 1) : w[i] \in Int
    BY <1>9, <1>16
  <2> QED
    BY <1>17, <1>18, <2>1, ChangesTelescope
<1> HIDE DEF tr
<1>20. w[n + 1] = v[Max(S)] /\ w[1] = v[Min(T)]
  <2>1. n + 1 \in 1..(n + 1) /\ 1 \in 1..(n + 1) /\ m + (n + 1) - 1 = c /\ m + 1 - 1 = m
    <3>1. n \in Nat /\ m \in Nat /\ c \in Nat /\ n = c - m
      BY <1>5, <1>7, <1>9
    <3>2. n + 1 \in 1..(n + 1) /\ 1 \in 1..(n + 1)
      BY <3>1
    <3> QED
      BY <3>1, <3>2
  <2>2. w[n + 1] = v[pr[c]] /\ w[1] = v[pr[m]]
    BY <1>16, <2>1
  <2> QED
    BY <1>5, <1>8, <1>10, <2>2
<1>21. le = k
  <2>1. rc = <<>> <=> n = 0
    BY <1>15, EmptySeq
  <2> QED
    BY <1>15, <2>1 DEF Changing
<1> HIDE DEF le
<1>22. Latest("net_cash") = v[Max(S)] /\ pr # <<>>
  <2>1. pr # <<>>
    BY <1>5, <1>10
  <2> QED
    BY <2>1 DEF Latest
<1>23. ASSUME NEW step \in 0..3
       PROVE  Forecast[step + 1] = <<v[Max(S)] * k + (v[Max(S)] - v[Min(T)]) * step, k>>
  <2>1. step + 1 \in 1..4 /\ (step + 1) - 1 = step
    OBVIOUS
  <2>2. Forecast[step + 1] = <<Latest("net_cash") * le + tr * ((step + 1) - 1), le>>
    BY <1>1, <1>22, <2>1, Zenon
  <2> QED
    BY <1>19, <1>20, <1>21, <1>22, <2>1, <2>2
<1>24. Max(S) \in S /\ Min(T) \in S
  <2>1. c \in 1..c
    BY <1>5
  <2> QED
    BY <1>5, <1>7, <1>8, <1>10, <1>11, <2>1
<1>25. n = 0 => Min(T) = Max(S)
  <2>1. n = 0 => m = c
    BY <1>5, <1>7, <1>9
  <2> QED
    BY <1>5, <1>8, <2>1
<1> QED
  BY <1>2, <1>9, <1>23, <1>24, <1>25

\* ForecastContinues, of the figures that are rendered.
Continues(cash, forecast) ==
    LET n == Cardinality(Late(DOMAIN cash, Window)) - 1
        last == cash[Max(DOMAIN cash)]
        first == cash[Min(Late(DOMAIN cash, Window))]
    IN  \A step \in 0..3 :
          IF n = 0 THEN forecast[step + 1][1] = last * forecast[step + 1][2]
          ELSE forecast[step + 1][1] * n = (n * last + step * (last - first)) * forecast[step + 1][2]

ForecastRendered ==
    status = "rendered" /\ conf.type = "executive_summary" =>
       Continues(result.by_period["net_cash"], result.forecast)

LEMMA ForecastIsContinued == ForecastContinues <=> ForecastRendered
BY Zenon DEF ForecastContinues, ForecastRendered, Continues, Late

\* The forecast that render computes continues the cash flow.
LEMMA RenderContinues ==
    ASSUME OwnerInv, BoundInv, KeyInv, PeriodsOf("net_cash") # {}
    PROVE  Continues(ByPeriod("net_cash"), Forecast)
<1>1. PICK S, v : S = PeriodsOf("net_cash") /\ v = ByPeriod("net_cash")
  OBVIOUS
<1>2. DOMAIN v = S /\ S # {}
  BY <1>1, PeriodsByKey
<1>3. PICK T : T = Late(S, Window)
  OBVIOUS
<1>4. PICK n : n = Cardinality(T) - 1
  OBVIOUS
<1>5. PICK k : k = Changing(n)
  OBVIOUS
<1>6. /\ n \in Nat /\ Max(S) \in S /\ Min(T) \in S /\ \A p \in S : v[p] \in Int
      /\ n = 0 => Min(T) = Max(S)
      /\ \A step \in 0..3 :
           Forecast[step + 1] = <<v[Max(S)] * k + (v[Max(S)] - v[Min(T)]) * step, k>>
  BY <1>1, <1>2, <1>3, <1>4, <1>5, ForecastSteps
<1>7. PICK a \in Int, b \in Int : a = v[Max(S)] /\ b = v[Min(T)]
  BY <1>6
<1>8. n = 0 => a = b
  BY <1>6, <1>7
<1>9. ASSUME NEW step \in 0..3
      PROVE  IF n = 0 THEN Forecast[step + 1][1] = a * Forecast[step + 1][2]
             ELSE Forecast[step + 1][1] * n = (n * a + step * (a - b)) * Forecast[step + 1][2]
  <2>1. PICK x : x = a * k + (a - b) * step
    OBVIOUS
  <2>2. Forecast[step + 1] = <<x, k>>
    BY <1>6, <1>7, <2>1
  <2>3. Forecast[step + 1][1] = x /\ Forecast[step + 1][2] = k
    BY <2>2
  <2>4. IF n = 0 THEN x = a * k ELSE x * n = (n * a + step * (a - b)) * k
    <3>1. n \in Nat /\ step \in Nat
      BY <1>6
    <3>2. CASE n = 0
      <4>1. k = 1 /\ a = b
        BY <1>5, <1>8, <3>2 DEF Changing
      <4>2. (a - b) * step = 0 /\ a * k \in Int
        BY <3>1, <4>1
      <4> QED
        BY <2>1, <3>2, <4>2
    <3>3. CASE n # 0
      <4>1. k = n /\ x = a * n + (a - b) * step
        BY <1>5, <2>1, <3>3 DEF Changing
      <4>2. a * n = n * a /\ (a - b) * step = step * (a - b)
        BY <3>1
      <4> QED
        BY <3>3, <4>1, <4>2
    <3> QED
      BY <3>2, <3>3
  <2> QED
    BY <2>3, <2>4
<1>10. Continues(v, Forecast)
  BY <1>2, <1>3, <1>4, <1>7, <1>9, Zenon DEF Continues
<1> QED
  BY <1>1, <1>10

\* The inductive invariant behind the forecast.
ForecastInv == FaithInv /\ ForecastRendered

LEMMA ForecastInductive == ForecastInv /\ [Next]_vars => ForecastInv'
<1> SUFFICES ASSUME ForecastInv, [Next]_vars PROVE ForecastInv'
  OBVIOUS
<1>1. FaithInv /\ FaithInv' /\ ForecastRendered
  BY FaithInductive DEF ForecastInv
<1>2. SUFFICES ForecastRendered'
  BY <1>1 DEF ForecastInv
<1>3. CASE status' # "rendered"
  BY <1>3 DEF ForecastRendered
<1>4. CASE UNCHANGED <<conf, status, result>>
  <2>1. conf' = conf /\ status' = status /\ result' = result
    BY <1>4
  <2> QED
    BY <1>1, <2>1 DEF ForecastRendered
<1>5. CASE Render
  <2>1. CASE status' # "rendered"
    BY <1>3, <2>1
  <2>2. CASE status' = "rendered"
    <3>1. status = "ready" /\ RenderError = "none" /\ result' = Rendered /\ conf' = conf
      BY <1>5, <2>2 DEF Render, Fails
    <3>2. SUFFICES ASSUME conf.type = "executive_summary"
                   PROVE  Continues(result'.by_period["net_cash"], result'.forecast)
      BY <3>1 DEF ForecastRendered
    <3>3. OwnerInv /\ BoundInv /\ KeyInv
      BY <1>1, <3>1 DEF FaithInv, VerdictInv, AccInv
    <3>4. PeriodsOf("net_cash") # {}
      <4>1. "net_cash" \in RequiredNumeric(conf.type)
        BY <3>2 DEF RequiredNumeric
      <4> QED
        BY <3>1, <4>1 DEF RenderError
    <3>5. result'.forecast = Forecast
      BY <3>1, <3>2 DEF Rendered
    <3>6. result'.by_period = ComparisonSeries
      BY <3>1 DEF Rendered
    <3>7. ComparisonSeries["net_cash"] = ByPeriod("net_cash")
      BY <3>2 DEF ComparisonSeries
    <3> QED
      BY <3>3, <3>4, <3>5, <3>6, <3>7, RenderContinues
  <2> QED
    BY <2>1, <2>2
<1>6. CASE ReadProfile \/ EndOfReport \/ \E row \in Rows(conf.type) : ReadRow(row)
  <2>1. status' # "rendered"
    BY <1>6 DEF ReadProfile, EndOfReport, ReadRow, Fails
  <2> QED
    BY <1>3, <2>1
<1>7. CASE UNCHANGED vars
  BY <1>4, <1>7 DEF vars
<1> QED
  BY <1>5, <1>6, <1>7 DEF Next

\* The forecast continues the cash flow from its latest value by the mean of the
\* last changes (_cash_flow_forecast_series), for any number of periods and any
\* window.
THEOREM ForecastFollowsCash == Spec => []ForecastContinues
<1>1. Init => ForecastInv
  <2>1. Init => status # "rendered"
    BY DEF Init
  <2> QED
    BY <2>1, FaithInit DEF ForecastInv, ForecastRendered
<1>2. ForecastInv => ForecastContinues
  BY ForecastIsContinued DEF ForecastInv
<1> QED
  BY <1>1, <1>2, ForecastInductive, PTL DEF Spec

-----------------------------------------------------------------------------
(***************************************************************************)
(* Signals: totals and counts, by the rows.                                *)
(***************************************************************************)

\* The rows that give a measure, and what they give.
RowsOf(f) == {i \in Read : f \in Ns(i)}

GivenBy(f) == [i \in RowsOf(f) |-> C(i)[f]]

\* A measure has been counted if it has a period, and its total is that of the rows.
CountsInv ==
    /\ \A f \in NumericFields : acc.count[f] = 0 <=> PeriodsOf(f) = {}
    /\ \A f \in NumericFields \ NonAdditive : acc.total[f] = SumOver(GivenBy(f), RowsOf(f))

\* What an accepted row does to the total of a measure that is added up.
LEMMA RowTotalStep ==
    ASSUME NEW row, NEW n, Accepts(row, n), AmountInv, CountsInv,
           NEW f \in NumericFields \ NonAdditive
    PROVE  acc'.total[f] = SumOver(GivenBy(f)', RowsOf(f)')
<1>1. OneMore(row, n) /\ IsFiniteSet(Read)
  BY ReadsOneMore DEF Accepts
<1>2. PICK I, A : I = RowsOf(f) /\ A = GivenBy(f)
  OBVIOUS
<1>3. PICK J, B : J = RowsOf(f)' /\ B = GivenBy(f)'
  OBVIOUS
<1>4. PICK v : v = Cells(row)[f]
  OBVIOUS
<1>5. n \notin I /\ J = IF f \in Numbers(row) THEN I \cup {n} ELSE I
  BY <1>1, <1>2, <1>3 DEF OneMore, RowsOf
<1>6. IsFiniteSet(I)
  <2>1. I \subseteq Read
    BY <1>2 DEF RowsOf
  <2> QED
    BY <1>1, <2>1, FS_Subset
<1>7. /\ \A i \in I : A[i] \in Int /\ B[i] = A[i]
      /\ f \in Numbers(row) => B[n] = v
  <2>1. \A i \in I : i \in J /\ B[i] = C(i)'[f] /\ A[i] = C(i)[f] /\ C(i)' = C(i) /\ f \in Ns(i) /\ i \in Read
    BY <1>1, <1>2, <1>3, <1>5 DEF OneMore, RowsOf, GivenBy
  <2>2. \A i \in I : C(i)[f] \in Int
    <3>1. ASSUME NEW i \in I PROVE C(i)[f] \in Int
      <4>1. i \in Read /\ f \in Ns(i) /\ f \in DOMAIN C(i)
        BY <2>1 DEF Ns
      <4>2. C(i)[f] \in Int \cup {Text}
        BY <4>1, ReadFacts DEF Accepts, Reads
      <4>3. C(i)[f] # Text
        BY <4>1 DEF Accepts, Reads, AccInv, CleanInv
      <4> QED
        BY <4>2, <4>3
    <3> QED
      BY <3>1
  <2>3. f \in Numbers(row) => B[n] = v
    BY <1>1, <1>3, <1>4, <1>5 DEF OneMore, GivenBy
  <2> QED
    BY <2>1, <2>2, <2>3
<1>8. f \in Numbers(row) => v \in Int
  BY <1>4, FittingRow DEF Accepts, Reads
<1>9. SumOver(B, I) = SumOver(A, I) /\ SumOver(A, I) \in Int
  BY <1>6, <1>7, SumSame, SumIsInteger
<1>10. f \in Numbers(row) => SumOver(B, J) = SumOver(A, I) + v
  <2> SUFFICES ASSUME f \in Numbers(row) PROVE SumOver(B, J) = SumOver(A, I) + v
    OBVIOUS
  <2>1. J = I \cup {n} /\ B[n] = v /\ v \in Int
    BY <1>5, <1>7, <1>8
  <2>2. \A i \in I \cup {n} : B[i] \in Int
    BY <1>7, <2>1
  <2> QED
    BY <1>5, <1>6, <1>9, <2>1, <2>2, SumAdd
<1>11. f \in Counted(row) <=> f \in Numbers(row)
  BY DEF Counted
<1>12. acc'.total[f] = acc.total[f] + IF f \in Counted(row) THEN v ELSE 0
  BY <1>4 DEF Accepts, Observed
<1>13. acc.total[f] = SumOver(A, I)
  BY <1>2 DEF CountsInv
<1>14. CASE f \in Numbers(row)
  BY <1>3, <1>10, <1>11, <1>12, <1>13, <1>14
<1>15. CASE f \notin Numbers(row)
  <2>1. J = I
    BY <1>5, <1>15
  <2> QED
    BY <1>3, <1>9, <1>11, <1>12, <1>13, <1>15, <2>1
<1> QED
  BY <1>14, <1>15

LEMMA AcceptCounts ==
    ASSUME NEW row, NEW n, Accepts(row, n), AmountInv, CountsInv
    PROVE  CountsInv'
<1>1. ASSUME NEW f \in NumericFields PROVE acc'.count[f] = 0 <=> PeriodsOf(f)' = {}
  <2>1. PICK p : p = Period(row)
    OBVIOUS
  <2>2. /\ PeriodsOf(f)' = PeriodsOf(f) \cup IF f \in Numbers(row) THEN {p} ELSE {}
        /\ f \in Counted(row) <=> f \in Numbers(row) /\ (f \in NonAdditive => p \notin PeriodsOf(f))
    BY <2>1, AmountStep
  <2>3. acc'.count[f] = acc.count[f] + IF f \in Counted(row) THEN 1 ELSE 0
    BY DEF Accepts, Observed
  <2>4. acc.count[f] \in Nat /\ (acc.count[f] = 0 <=> PeriodsOf(f) = {})
    BY DEF AmountInv, CountsInv
  <2>5. CASE f \in Counted(row)
    BY <2>2, <2>3, <2>4, <2>5
  <2>6. CASE f \notin Counted(row)
    <3>1. PeriodsOf(f)' = PeriodsOf(f)
      <4>1. CASE f \in Numbers(row)
        BY <2>2, <2>6, <4>1
      <4>2. CASE f \notin Numbers(row)
        BY <2>2, <4>2
      <4> QED
        BY <4>1, <4>2
    <3> QED
      BY <2>3, <2>4, <2>6, <3>1
  <2> QED
    BY <2>5, <2>6
<1>2. \A f \in NumericFields \ NonAdditive : acc'.total[f] = SumOver(GivenBy(f)', RowsOf(f)')
  BY RowTotalStep
<1> QED
  BY <1>1, <1>2 DEF CountsInv

LEMMA IdleCounts ==
    ASSUME CountsInv, UNCHANGED acc, Read' = Read,
           \A i \in Read : C(i)' = C(i) /\ Ns(i)' = Ns(i)
    PROVE  CountsInv'
<1>1. \A f : PeriodsOf(f)' = PeriodsOf(f)
  BY DEF PeriodsOf
<1>2. \A f : RowsOf(f)' = RowsOf(f)
  BY DEF RowsOf
<1>3. \A f : GivenBy(f)' = GivenBy(f)
  BY <1>2 DEF GivenBy, RowsOf
<1> QED
  BY <1>1, <1>2, <1>3 DEF CountsInv

-----------------------------------------------------------------------------
(***************************************************************************)
(* The order of the list: a change has the place that the number of those  *)
(* ahead of it gives it.  Places differ, they are below the number of      *)
(* changes, and so every one of them is taken.                             *)
(***************************************************************************)

\* The elements of F ahead of x, for pairs of a place and a period.
Precedes(F, x) == {y \in F : y[2] > x[2] \/ (y[2] = x[2] /\ y[1] < x[1])}

Place(F, x) == Cardinality(Precedes(F, x))

\* Places grow along the order and tell the elements apart.
LEMMA PlacesDiffer ==
    ASSUME NEW F, F \subseteq Nat \X Nat, IsFiniteSet(F)
    PROVE  /\ \A x \in F : Place(F, x) \in Nat /\ Place(F, x) < Cardinality(F)
           /\ \A x, y \in F : Place(F, x) = Place(F, y) => x = y
           /\ \A x, y \in F : Place(F, x) <= Place(F, y) => x[2] >= y[2]
<1>1. \A x \in F : x = <<x[1], x[2]>> /\ x[1] \in Nat /\ x[2] \in Nat
  OBVIOUS
<1>2. \A x : IsFiniteSet(Precedes(F, x)) /\ Place(F, x) \in Nat
  BY FS_Subset, FS_CardinalityType DEF Precedes, Place
<1>3. ASSUME NEW x \in F, NEW y \in F, y \in Precedes(F, x) PROVE Place(F, y) < Place(F, x)
  <2>1. PICK U : U = Precedes(F, x) \ {y}
    OBVIOUS
  <2>2. IsFiniteSet(U) /\ Cardinality(U) = Place(F, x) - 1
    BY <1>2, <1>3, <2>1, FS_RemoveElement, FS_Subset DEF Place
  <2>3. Precedes(F, y) \subseteq U
    <3>1. ASSUME NEW z \in Precedes(F, y) PROVE z \in Precedes(F, x) /\ z # y
      <4>1. z \in F /\ (z[2] > y[2] \/ (z[2] = y[2] /\ z[1] < y[1]))
        BY DEF Precedes
      <4>2. y[2] > x[2] \/ (y[2] = x[2] /\ y[1] < x[1])
        BY <1>3 DEF Precedes
      <4>3. /\ x[1] \in Nat /\ x[2] \in Nat /\ y[1] \in Nat /\ y[2] \in Nat
            /\ z[1] \in Nat /\ z[2] \in Nat
        BY <1>1, <4>1
      <4>4. z[2] > x[2] \/ (z[2] = x[2] /\ z[1] < x[1])
        BY <4>1, <4>2, <4>3
      <4>5. z[2] # y[2] \/ z[1] # y[1]
        BY <4>1, <4>3
      <4> QED
        BY <4>1, <4>4, <4>5 DEF Precedes
    <3> QED
      BY <2>1, <3>1
  <2>4. Place(F, y) <= Cardinality(U)
    BY <2>2, <2>3, FS_Subset DEF Place
  <2> QED
    BY <1>2, <2>2, <2>4
<1>4. \A x, y \in F : x = y \/ y \in Precedes(F, x) \/ x \in Precedes(F, y)
  <2> SUFFICES ASSUME NEW x \in F, NEW y \in F, x # y
               PROVE  y \in Precedes(F, x) \/ x \in Precedes(F, y)
    OBVIOUS
  <2>1. x[1] \in Nat /\ x[2] \in Nat /\ y[1] \in Nat /\ y[2] \in Nat
    BY <1>1
  <2>2. x[1] # y[1] \/ x[2] # y[2]
    BY <1>1
  <2>3. \/ y[2] > x[2] \/ (y[2] = x[2] /\ y[1] < x[1])
        \/ x[2] > y[2] \/ (x[2] = y[2] /\ x[1] < y[1])
    BY <2>1, <2>2
  <2> QED
    BY <2>3 DEF Precedes
<1>5. ASSUME NEW x \in F PROVE Place(F, x) < Cardinality(F)
  <2>1. x \notin Precedes(F, x)
    BY <1>1 DEF Precedes
  <2>2. Precedes(F, x) \in SUBSET (F \ {x})
    BY <2>1 DEF Precedes
  <2>3. /\ IsFiniteSet(F \ {x}) /\ Cardinality(F \ {x}) = Cardinality(F) - 1
        /\ Cardinality(F) \in Nat
    BY FS_RemoveElement, FS_Subset, FS_CardinalityType
  <2>4. Place(F, x) <= Cardinality(F \ {x})
    BY <2>2, <2>3, FS_Subset DEF Place
  <2> QED
    BY <1>2, <2>3, <2>4
<1>6. ASSUME NEW x \in F, NEW y \in F, Place(F, x) <= Place(F, y) PROVE x[2] >= y[2]
  <2>1. ~(Place(F, y) < Place(F, x)) /\ x[2] \in Nat /\ y[2] \in Nat
    BY <1>1, <1>2, <1>6
  <2>2. y \notin Precedes(F, x)
    BY <1>3, <2>1
  <2>3. ~(y[2] > x[2])
    BY <2>2 DEF Precedes
  <2> QED
    BY <2>1, <2>3
<1>7. ASSUME NEW x \in F, NEW y \in F, Place(F, x) = Place(F, y) PROVE x = y
  <2>1. ~(Place(F, y) < Place(F, x)) /\ ~(Place(F, x) < Place(F, y))
    BY <1>2, <1>7
  <2> QED
    BY <1>3, <1>4, <2>1
<1> QED
  BY <1>2, <1>5, <1>6, <1>7

\* Every place is taken.
LEMMA PlacesTaken ==
    ASSUME NEW F, F \subseteq Nat \X Nat, IsFiniteSet(F), NEW n \in Nat, n = Cardinality(F)
    PROVE  \A j \in 1..n : \E x \in F : Place(F, x) = j - 1
<1> DEFINE g == [x \in F |-> Place(F, x) + 1]
           T == {g[x] : x \in F}
<1>1. \A x \in F : Place(F, x) \in Nat /\ Place(F, x) < n
  BY PlacesDiffer
<1>2. \A x \in F : g[x] = Place(F, x) + 1 /\ g[x] \in 1..n
  BY <1>1
<1>3. \A x, y \in F : g[x] = g[y] => x = y
  <2>1. \A x, y \in F : Place(F, x) = Place(F, y) => x = y
    BY PlacesDiffer
  <2> QED
    BY <1>1, <2>1
<1>4. g = [x \in F |-> g[x]]
  OBVIOUS
<1> HIDE DEF g
<1>5. IsFiniteSet(T) /\ Cardinality(T) = n
  BY <1>3, <1>4, ImageCardinality
<1>6. T \in SUBSET (1..n)
  BY <1>2
<1>7. \A j : j \in T => \E x \in F : g[x] = j
  OBVIOUS
<1>8. IsFiniteSet(1..n) /\ Cardinality(1..n) = n
  BY FS_Interval
<1> HIDE DEF T
<1>9. T = 1..n
  BY <1>5, <1>6, <1>8, FS_Subset
<1>10. ASSUME NEW j \in 1..n PROVE \E x \in F : Place(F, x) = j - 1
  <2>1. PICK x \in F : g[x] = j
    BY <1>7, <1>9
  <2>2. Place(F, x) + 1 = j /\ Place(F, x) \in Nat
    BY <1>1, <1>2, <2>1
  <2>3. Place(F, x) = j - 1
    BY <2>2
  <2> QED
    BY <2>3
<1> QED
  BY <1>10

\* How many changes are listed.
ListLength == Min({MaxAnomalies, Cardinality(Found)})

\* The changes that are found, at their places.
Listed(a) ==
    /\ Len(a) = ListLength /\ DOMAIN a = 1..ListLength
    /\ \A j \in 1..ListLength : \E x \in Found : a[j] = Reported(x) /\ Place(Found, x) = j - 1

LEMMA MinOfTwo ==
    ASSUME NEW a \in Nat, NEW b \in Nat
    PROVE  /\ Min({a, b}) \in Nat /\ Min({a, b}) <= a /\ Min({a, b}) <= b
           /\ Min({a, b}) = a \/ Min({a, b}) = b
<1>1. PICK m \in {a, b} : \A y \in {a, b} : m <= y
  <2>1. CASE a <= b
    BY <2>1
  <2>2. CASE ~(a <= b)
    <3>1. b <= a /\ b <= b
      BY <2>2
    <3> QED
      BY <3>1
  <2> QED
    BY <2>1, <2>2
<1>2. Min({a, b}) \in {a, b} /\ \A y \in {a, b} : Min({a, b}) <= y
  BY <1>1, Zenon DEF Min
<1> QED
  BY <1>2

LEMMA LengthOfList ==
    ASSUME NEW a, NEW n \in Nat, DOMAIN a = 1..n, a = [j \in 1..n |-> a[j]]
    PROVE  Len(a) = n
<1>1. PICK S : S = {a[j] : j \in 1..n}
  OBVIOUS
<1>2. a \in [1..n -> S]
  BY <1>1
<1>3. a \in Seq(S)
  BY <1>2, SeqDef
<1>4. Len(a) \in Nat /\ DOMAIN a = 1..Len(a)
  BY <1>3, LenProperties
<1>5. 1..n = 1..Len(a)
  BY <1>4
<1> QED
  BY <1>4, <1>5

\* What is found is a finite set of places and periods.
LEMMA FoundFinite ==
    ASSUME BaseInv, AccInv, KeyInv
    PROVE  /\ Found \subseteq Nat \X Nat /\ IsFiniteSet(Found)
           /\ MappedPeriods \subseteq Nat /\ IsFiniteSet(MappedPeriods)
<1>1. conf.type \in Types
  BY InsightsAssumption DEF BaseInv
<1>2. MappedPeriods \subseteq Nat
  BY DEF KeyInv, TypeOK, MappedPeriods
<1>3. IsFiniteSet(MappedPeriods)
  <2> DEFINE K == DOMAIN acc.by_period
             g == [k \in K |-> k[2]]
  <2>1. IsFiniteSet(K)
    BY DEF AccInv, BoundInv
  <2>2. MappedPeriods = {g[k] : k \in K}
    BY DEF MappedPeriods
  <2>3. g = [k \in K |-> g[k]]
    OBVIOUS
  <2> HIDE DEF g, K
  <2> QED
    BY <2>1, <2>2, <2>3, ImageFinite
<1>4. DOMAIN PrimaryFields \subseteq 1..3
  BY <1>1 DEF PrimaryFields, Types
<1>5. IsFiniteSet(DOMAIN PrimaryFields)
  <2>1. \A n \in Nat : IsFiniteSet(1..n)
    BY FS_Interval
  <2> QED
    BY <1>4, <2>1, FS_Subset, Zenon
<1>6. IsFiniteSet((DOMAIN PrimaryFields) \X MappedPeriods)
  BY <1>3, <1>5, FS_Product
<1>7. Found \in SUBSET ((DOMAIN PrimaryFields) \X MappedPeriods)
  BY DEF Found
<1>8. IsFiniteSet(Found)
  BY <1>6, <1>7, FS_Subset
<1>9. Found \subseteq Nat \X Nat
  <2>1. DOMAIN PrimaryFields \subseteq Nat
    BY <1>4
  <2> QED
    BY <1>2, <1>7, <2>1
<1> QED
  BY <1>2, <1>3, <1>8, <1>9

\* _anomalies lists them.
LEMMA AnomaliesListed ==
    ASSUME BaseInv, AccInv, KeyInv
    PROVE  Listed(Anomalies)
<1>1. Found \subseteq Nat \X Nat /\ IsFiniteSet(Found)
  BY FoundFinite
<1>2. PICK c \in Nat : c = Cardinality(Found)
  BY <1>1, FS_CardinalityType
<1>3. PICK n : n = ListLength
  OBVIOUS
<1>4. n \in Nat /\ n <= c
  BY <1>2, <1>3, InsightsAssumption, MinOfTwo DEF ListLength
<1>5. \A x : Cardinality(Ahead(x)) = Place(Found, x)
  BY DEF Ahead, Place, Precedes
<1>6. Anomalies = [j \in 1..n |-> Reported(CHOOSE x \in Found : Cardinality(Ahead(x)) = j - 1)]
  BY <1>3, Zenon DEF Anomalies, ListLength
<1>7. \A j \in 1..n : Anomalies[j] = Reported(CHOOSE x \in Found : Cardinality(Ahead(x)) = j - 1)
  BY <1>6, Zenon
<1>8. ASSUME NEW j \in 1..n
      PROVE  \E x \in Found : Anomalies[j] = Reported(x) /\ Place(Found, x) = j - 1
  <2>1. j \in 1..c
    BY <1>4
  <2>2. \E x \in Found : Cardinality(Ahead(x)) = j - 1
    BY <1>1, <1>2, <1>5, <2>1, PlacesTaken
  <2>3. PICK x : x = CHOOSE y \in Found : Cardinality(Ahead(y)) = j - 1
    OBVIOUS
  <2>4. x \in Found /\ Cardinality(Ahead(x)) = j - 1
    BY <2>2, <2>3, Zenon
  <2>5. Anomalies[j] = Reported(x)
    BY <1>7, <2>3, Zenon
  <2> QED
    BY <1>5, <2>4, <2>5
<1> DEFINE e(j) == Reported(CHOOSE x \in Found : Cardinality(Ahead(x)) = j - 1)
<1> HIDE DEF e
<1>9. DOMAIN Anomalies = 1..n /\ Anomalies = [j \in 1..n |-> Anomalies[j]]
  <2>1. Anomalies = [j \in 1..n |-> e(j)]
    BY <1>6, Zenon DEF e
  <2> QED
    BY <2>1
<1>10. Len(Anomalies) = n
  BY <1>4, <1>9, LengthOfList
<1> QED
  BY <1>3, <1>8, <1>9, <1>10 DEF Listed

-----------------------------------------------------------------------------
(***************************************************************************)
(* What is found is what the rows make notable.                            *)
(***************************************************************************)

\* All required measures have the same periods.
SamePeriods ==
    \A f \in RequiredNumeric(conf.type) :
       PeriodsOf(f) # {} /\ PeriodsOf(f) = PeriodsOf(OutflowField(conf.type))

LEMMA NothingMissing ==
    ASSUME BaseInv, RenderError = "none"
    PROVE  SamePeriods
<1>1. conf.type \in Types
  BY InsightsAssumption DEF BaseInv
<1>2. OutflowField(conf.type) \in RequiredNumeric(conf.type)
  BY <1>1, Contract
<1>3. PICK R : R = RequiredNumeric(conf.type)
  OBVIOUS
<1>4. ~(\E f \in R : PeriodsOf(f) = {}) /\ ~(\E f, g \in R : PeriodsOf(f) # PeriodsOf(g))
  BY <1>3 DEF RenderError
<1> QED
  BY <1>2, <1>3, <1>4 DEF SamePeriods

\* At least a quarter, with squares and with absolute values.
LEMMA QuarterOfSquares ==
    ASSUME NEW a \in Int, NEW b \in Int
    PROVE  100 * Abs(b - a) >= 25 * Abs(a) <=> 16 * (b - a) * (b - a) >= a * a
<1>1. PICK x \in Nat : x = Abs(b - a) /\ x * x = (b - a) * (b - a)
  <2>1. PICK d \in Int : d = b - a
    OBVIOUS
  <2>2. Abs(d) \in Nat
    BY DEF Abs
  <2>3. Abs(d) * Abs(d) = d * d
    <3>1. CASE d < 0
      <4>1. Abs(d) = -d
        BY <3>1 DEF Abs
      <4>2. (-d) * (-d) = d * d
        OBVIOUS
      <4> QED
        BY <4>1, <4>2
    <3>2. CASE ~(d < 0)
      BY <3>2 DEF Abs
    <3> QED
      BY <3>1, <3>2
  <2> QED
    BY <2>1, <2>2, <2>3
<1>2. PICK y \in Nat : y = Abs(a) /\ y * y = a * a
  <2>1. Abs(a) \in Nat
    BY DEF Abs
  <2>2. Abs(a) * Abs(a) = a * a
    <3>1. CASE a < 0
      <4>1. Abs(a) = -a
        BY <3>1 DEF Abs
      <4>2. (-a) * (-a) = a * a
        OBVIOUS
      <4> QED
        BY <4>1, <4>2
    <3>2. CASE ~(a < 0)
      BY <3>2 DEF Abs
    <3> QED
      BY <3>1, <3>2
  <2> QED
    BY <2>1, <2>2
<1>3. 16 * (b - a) * (b - a) = 16 * (x * x)
  <2>1. PICK d \in Int : d = b - a
    OBVIOUS
  <2>2. 16 * d * d = 16 * (d * d)
    OBVIOUS
  <2> QED
    BY <1>1, <2>1, <2>2
<1>4. 100 * x >= 25 * y <=> 4 * x >= y
  OBVIOUS
<1>5. 16 * (x * x) = (4 * x) * (4 * x)
  OBVIOUS
<1>6. PICK z \in Nat : z = 4 * x
  OBVIOUS
<1>7. z >= y <=> z * z >= y * y
  <2>1. CASE z >= y
    <3>1. z * z >= z * y /\ z * y >= y * y
      BY <2>1
    <3> QED
      BY <2>1, <3>1
  <2>2. CASE ~(z >= y)
    <3>1. y >= z + 1
      BY <2>2
    <3>2. y * y >= (z + 1) * y /\ (z + 1) * y >= (z + 1) * (z + 1)
      BY <3>1
    <3>3. (z + 1) * (z + 1) = z * z + 2 * z + 1
      OBVIOUS
    <3>4. ~(z * z >= y * y)
      BY <3>2, <3>3
    <3> QED
      BY <2>2, <3>4
  <2> QED
    BY <2>1, <2>2
<1> QED
  BY <1>1, <1>2, <1>3, <1>4, <1>5, <1>6, <1>7

\* The period before q in a finite set of periods.
LEMMA PriorIsNeighbour ==
    ASSUME NEW S, S \subseteq Nat, IsFiniteSet(S), NEW p \in S, NEW q \in S
    PROVE  p < q /\ (\A o \in S : o <= p \/ o >= q) <=>
           (\E o \in S : o < q) /\ p = Max({o \in S : o < q})
<1>1. PICK T : T = {o \in S : o < q}
  OBVIOUS
<1>2. T \subseteq Nat /\ IsFiniteSet(T)
  BY <1>1, FS_Subset
<1>3. ASSUME p < q, \A o \in S : o <= p \/ o >= q PROVE (\E o \in S : o < q) /\ p = Max(T)
  <2>1. p \in T
    BY <1>1, <1>3
  <2>2. \A y \in T : p >= y
    <3>1. ASSUME NEW y \in T PROVE p >= y
      <4>1. y \in S /\ y < q /\ y \in Nat /\ p \in Nat /\ q \in Nat
        BY <1>1, <1>2
      <4> QED
        BY <1>3, <4>1
    <3> QED
      BY <3>1
  <2> QED
    BY <1>2, <1>3, <2>1, <2>2, MaxExists
<1>4. ASSUME \E o \in S : o < q, p = Max(T) PROVE p < q /\ \A o \in S : o <= p \/ o >= q
  <2>1. T # {}
    BY <1>1, <1>4
  <2>2. p \in T /\ \A y \in T : p >= y
    BY <1>2, <1>4, <2>1, MaxExists
  <2>3. p < q
    BY <1>1, <2>2
  <2>4. ASSUME NEW o \in S PROVE o <= p \/ o >= q
    <3>1. o \in Nat /\ p \in Nat /\ q \in Nat
      OBVIOUS
    <3>2. CASE o < q
      <4>1. p >= o
        BY <1>1, <2>2, <3>2
      <4> QED
        BY <3>1, <4>1
    <3>3. CASE ~(o < q)
      BY <3>1, <3>3
    <3> QED
      BY <3>2, <3>3
  <2> QED
    BY <2>3, <2>4
<1> QED
  BY <1>1, <1>3, <1>4

\* The changes up to the period q that the rows make notable are those that are
\* flagged.
LEMMA FlaggedIsNotable ==
    ASSUME FaithInv, status # "failed", SamePeriods, NEW f \in RequiredNumeric(conf.type), NEW p, NEW q
    PROVE  p \in AllPeriods /\ q \in AllPeriods /\ IsNotable(f, p, q) <=>
           Flagged(f, q) /\ p = PriorTo(f, q)
<1>1. BaseInv /\ AccInv /\ KeyInv /\ OwnerInv /\ BoundInv
  BY DEF FaithInv, VerdictInv, AccInv
<1>2. conf.type \in Types
  BY <1>1, InsightsAssumption DEF BaseInv
<1>3. PICK o : o = OutflowField(conf.type)
  OBVIOUS
<1>4. o \in RequiredNumeric(conf.type)
  BY <1>2, <1>3, Contract
<1>5. PICK S, B : S = PeriodsOf(f) /\ B = ByPeriod(f)
  OBVIOUS
<1>6. S = PeriodsOf(o)
  BY <1>3, <1>5 DEF SamePeriods
<1>7. \A r : r \in S <=> r \in AllPeriods /\ Giving(f, r) # {}
  <2>1. S = {r \in AllPeriods : Giving(f, r) # {}}
    BY <1>5, FieldFaithful
  <2> QED
    BY <2>1
<1>8. \A r : r \in S <=> r \in AllPeriods /\ Giving(o, r) # {}
  <2>1. S = {r \in AllPeriods : Giving(o, r) # {}}
    BY <1>4, <1>6, FieldFaithful
  <2> QED
    BY <2>1
<1>9. \A r \in S : B[r] = Amount(f, Giving(f, r)) /\ B[r] \in Int
  BY <1>1, <1>5, FieldFaithful, PeriodsByKey
<1>10. S \subseteq Nat /\ IsFiniteSet(S)
  <2>1. \A r \in S : <<f, r>> \in DOMAIN acc.by_period
    BY <1>1, <1>5, PeriodsByKey
  <2>2. \A r \in S : r \in Nat
    BY <1>1, <2>1 DEF KeyInv, TypeOK
  <2> QED
    BY <1>1, <1>5, <2>2, PeriodsByKey
<1>11. Neighbours(p, q) <=> p < q /\ \A r \in S : r <= p \/ r >= q
  BY <1>3, <1>8 DEF Neighbours
<1>12. Flagged(f, q) <=> /\ q \in S /\ \E r \in S : r < q
                         /\ Notable(B[PriorTo(f, q)], B[q])
  BY <1>5 DEF Flagged
<1>13. PriorTo(f, q) = Max({r \in S : r < q})
  BY <1>5 DEF PriorTo
<1>14. CASE p \in S /\ q \in S
  <2>1. PICK a \in Int, b \in Int : a = B[p] /\ b = B[q]
    BY <1>9, <1>14
  <2>2. a = Amount(f, Giving(f, p)) /\ b = Amount(f, Giving(f, q))
    BY <1>9, <1>14, <2>1
  <2>3. /\ p \in AllPeriods /\ q \in AllPeriods /\ Giving(f, p) # {} /\ Giving(f, q) # {}
    BY <1>7, <1>14
  <2>4. IsNotable(f, p, q) <=> Neighbours(p, q) /\ a # 0 /\ 100 * Abs(b - a) >= 25 * Abs(a)
    BY <2>2, <2>3 DEF IsNotable
  <2>5. a # 0 /\ 100 * Abs(b - a) >= 25 * Abs(a) <=> Notable(a, b)
    BY QuarterOfSquares DEF Notable
  <2>6. Neighbours(p, q) <=> (\E r \in S : r < q) /\ p = PriorTo(f, q)
    <3>1. p < q /\ (\A r \in S : r <= p \/ r >= q) <=>
          (\E r \in S : r < q) /\ p = Max({r \in S : r < q})
      BY <1>10, <1>14, PriorIsNeighbour
    <3> QED
      BY <1>11, <1>13, <3>1
  <2>7. p = PriorTo(f, q) => (Flagged(f, q) <=> (\E r \in S : r < q) /\ Notable(a, b))
    BY <1>12, <1>14, <2>1
  <2> QED
    BY <2>3, <2>4, <2>5, <2>6, <2>7
<1>15. CASE ~(p \in S /\ q \in S)
  <2>1. ~(p \in AllPeriods /\ q \in AllPeriods /\ IsNotable(f, p, q))
    BY <1>7, <1>15 DEF IsNotable
  <2>2. ASSUME Flagged(f, q), p = PriorTo(f, q) PROVE FALSE
    <3>1. PICK T : T = {r \in S : r < q}
      OBVIOUS
    <3>2. T # {} /\ T \subseteq Nat /\ IsFiniteSet(T) /\ q \in S
      BY <1>10, <1>12, <2>2, <3>1, FS_Subset
    <3>3. p \in T
      BY <1>13, <2>2, <3>1, <3>2, MaxExists
    <3> QED
      BY <1>15, <3>1, <3>2, <3>3
  <2> QED
    BY <2>1, <2>2
<1> QED
  BY <1>14, <1>15

\* The change that is found at x.
ChangeAt(x) == <<PrimaryFields[x[1]], PriorTo(PrimaryFields[x[1]], x[2]), x[2]>>

LEMMA PrimaryFacts ==
    ASSUME conf.type \in Types
    PROVE  /\ \A i \in DOMAIN PrimaryFields : PrimaryFields[i] \in RequiredNumeric(conf.type)
           /\ \A i, j \in DOMAIN PrimaryFields : PrimaryFields[i] = PrimaryFields[j] => i = j
BY DEF PrimaryFields, RequiredNumeric, Types

\* What the rows make notable is found.
LEMMA FoundIsNotable ==
    ASSUME FaithInv, status # "failed", SamePeriods
    PROVE  /\ \A n : n \in NotableChanges <=> \E x \in Found : n = ChangeAt(x)
           /\ Cardinality(NotableChanges) = Cardinality(Found)
<1>1. BaseInv /\ AccInv /\ KeyInv /\ OwnerInv /\ BoundInv
  BY DEF FaithInv, VerdictInv, AccInv
<1>2. conf.type \in Types
  BY <1>1, InsightsAssumption DEF BaseInv
<1>3. PICK D : D = DOMAIN PrimaryFields
  OBVIOUS
<1>4. /\ \A i \in D : PrimaryFields[i] \in RequiredNumeric(conf.type)
      /\ \A i, j \in D : PrimaryFields[i] = PrimaryFields[j] => i = j
  BY <1>2, <1>3, PrimaryFacts
<1>5. \A f \in RequiredNumeric(conf.type) : \A p, q :
         p \in AllPeriods /\ q \in AllPeriods /\ IsNotable(f, p, q) <=>
         Flagged(f, q) /\ p = PriorTo(f, q)
  BY FlaggedIsNotable
<1>6. \A f, q : Flagged(f, q) => q \in MappedPeriods
  <2>1. \A f, q : q \in PeriodsOf(f) => <<f, q>> \in DOMAIN acc.by_period
    BY <1>1, PeriodsByKey
  <2>2. ASSUME NEW f, NEW q, <<f, q>> \in DOMAIN acc.by_period PROVE q \in MappedPeriods
    <3>1. <<f, q>>[2] = q
      OBVIOUS
    <3> QED
      BY <2>2, <3>1 DEF MappedPeriods
  <2> QED
    BY <2>1, <2>2 DEF Flagged
<1>7. \A x : x \in Found <=> \E i \in D : \E q : x = <<i, q>> /\ Flagged(PrimaryFields[i], q)
  BY <1>3, <1>6 DEF Found
<1>8. \A n : n \in NotableChanges <=>
         \E i \in D : \E p, q : /\ n = <<PrimaryFields[i], p, q>>
                                /\ p \in AllPeriods /\ q \in AllPeriods
                                /\ IsNotable(PrimaryFields[i], p, q)
  <2>1. \A f : f \in ToSet(PrimaryFields) <=> \E i \in D : f = PrimaryFields[i]
    BY <1>3 DEF ToSet
  <2> HIDE DEF IsNotable
  <2> QED
    BY <2>1 DEF NotableChanges
<1>9. \A n : n \in NotableChanges <=>
         \E i \in D : \E q : /\ n = <<PrimaryFields[i], PriorTo(PrimaryFields[i], q), q>>
                             /\ Flagged(PrimaryFields[i], q)
  BY <1>4, <1>5, <1>8
<1>10. \A i, q : ChangeAt(<<i, q>>) = <<PrimaryFields[i], PriorTo(PrimaryFields[i], q), q>>
  BY DEF ChangeAt
<1>11. \A n : n \in NotableChanges <=> \E x \in Found : n = ChangeAt(x)
  <2>1. ASSUME NEW n \in NotableChanges PROVE \E x \in Found : n = ChangeAt(x)
    <3>1. PICK i \in D : \E q : /\ n = <<PrimaryFields[i], PriorTo(PrimaryFields[i], q), q>>
                               /\ Flagged(PrimaryFields[i], q)
      BY <1>9
    <3>2. PICK q : /\ n = <<PrimaryFields[i], PriorTo(PrimaryFields[i], q), q>>
                   /\ Flagged(PrimaryFields[i], q)
      BY <3>1
    <3>3. <<i, q>> \in Found /\ n = ChangeAt(<<i, q>>)
      BY <1>7, <1>10, <3>2
    <3> QED
      BY <3>3
  <2>2. ASSUME NEW x \in Found PROVE ChangeAt(x) \in NotableChanges
    <3>1. PICK i \in D : \E q : x = <<i, q>> /\ Flagged(PrimaryFields[i], q)
      BY <1>7
    <3>2. PICK q : x = <<i, q>> /\ Flagged(PrimaryFields[i], q)
      BY <3>1
    <3> QED
      BY <1>9, <1>10, <3>2
  <2> QED
    BY <2>1, <2>2
<1> DEFINE g == [x \in Found |-> ChangeAt(x)]
<1>12. \A x, y \in Found : ChangeAt(x) = ChangeAt(y) => x = y
  <2> SUFFICES ASSUME NEW x \in Found, NEW y \in Found, ChangeAt(x) = ChangeAt(y) PROVE x = y
    OBVIOUS
  <2>1. PICK i \in D : \E q : x = <<i, q>>
    BY <1>7
  <2>2. PICK q : x = <<i, q>>
    BY <2>1
  <2>3. PICK j \in D : \E r : y = <<j, r>>
    BY <1>7
  <2>4. PICK r : y = <<j, r>>
    BY <2>3
  <2>5. PrimaryFields[i] = PrimaryFields[j] /\ q = r
    BY <1>10, <2>2, <2>4
  <2> QED
    BY <1>4, <2>1, <2>2, <2>3, <2>4, <2>5
<1>13. IsFiniteSet(Found)
  BY <1>1, FoundFinite
<1>14. g = [x \in Found |-> g[x]] /\ \A x \in Found : g[x] = ChangeAt(x)
  OBVIOUS
<1>15. NotableChanges = {g[x] : x \in Found}
  BY <1>11, <1>14
<1> HIDE DEF g
<1>16. \A x, y \in Found : g[x] = g[y] => x = y
  BY <1>12, <1>14
<1>17. Cardinality({g[x] : x \in Found}) = Cardinality(Found)
  BY <1>13, <1>14, <1>16, ImageCardinality
<1> QED
  BY <1>11, <1>15, <1>17

\* A list of what is found, at its places, is complete.
LEMMA ListIsComplete ==
    ASSUME FaithInv, status # "failed", SamePeriods, Listed(result.anomalies)
    PROVE  /\ ReportedChanges \subseteq NotableChanges
           /\ Len(result.anomalies) = Min({MaxAnomalies, Cardinality(NotableChanges)})
           /\ \A a \in ReportedChanges, n \in NotableChanges \ ReportedChanges : a[3] >= n[3]
           /\ \A i, j \in DOMAIN result.anomalies :
                i < j => result.anomalies[i].current >= result.anomalies[j].current
<1>1. BaseInv /\ AccInv /\ KeyInv
  BY DEF FaithInv, VerdictInv
<1>2. PICK F : F = Found
  OBVIOUS
<1>3. F \subseteq Nat \X Nat /\ IsFiniteSet(F)
  BY <1>1, <1>2, FoundFinite
<1>4. /\ \A x \in F : Place(F, x) \in Nat
      /\ \A x, y \in F : Place(F, x) = Place(F, y) => x = y
      /\ \A x, y \in F : Place(F, x) <= Place(F, y) => x[2] >= y[2]
  BY <1>3, PlacesDiffer
<1>5. PICK L : L = ListLength
  OBVIOUS
<1>6. L \in Nat
  <2>1. Cardinality(Found) \in Nat /\ MaxAnomalies \in Nat
    BY <1>2, <1>3, FS_CardinalityType, InsightsAssumption
  <2> QED
    BY <1>5, <2>1, MinOfTwo DEF ListLength
<1>7. /\ \A n : n \in NotableChanges <=> \E x \in F : n = ChangeAt(x)
      /\ Cardinality(NotableChanges) = Cardinality(Found)
  BY <1>2, FoundIsNotable
<1>8. PICK a : a = result.anomalies
  OBVIOUS
<1>9. /\ Len(a) = L /\ DOMAIN a = 1..L
      /\ \A j \in 1..L : \E x \in F : a[j] = Reported(x) /\ Place(F, x) = j - 1
  BY <1>2, <1>5, <1>8 DEF Listed
<1>10. \A x : /\ Reported(x).current = x[2]
              /\ <<Reported(x).field, Reported(x).prior, Reported(x).current>> = ChangeAt(x)
  BY DEF Reported, ChangeAt
<1>11. \A c : c \in ReportedChanges <=> \E j \in 1..L : c = <<a[j].field, a[j].prior, a[j].current>>
  BY <1>8, <1>9 DEF ReportedChanges, ToSet
<1>12. ASSUME NEW c \in ReportedChanges PROVE \E x \in F : Place(F, x) < L /\ c = ChangeAt(x)
  <2>1. PICK j \in 1..L : c = <<a[j].field, a[j].prior, a[j].current>>
    BY <1>11
  <2>2. PICK x \in F : a[j] = Reported(x) /\ Place(F, x) = j - 1
    BY <1>9
  <2>3. c = ChangeAt(x)
    BY <1>10, <2>1, <2>2
  <2>4. Place(F, x) < L
    BY <1>6, <2>2
  <2> QED
    BY <2>3, <2>4
<1>13. ASSUME NEW x \in F, Place(F, x) < L PROVE ChangeAt(x) \in ReportedChanges
  <2>1. PICK j \in 1..L : j - 1 = Place(F, x)
    <3>1. Place(F, x) + 1 \in 1..L /\ (Place(F, x) + 1) - 1 = Place(F, x)
      BY <1>4, <1>6, <1>13
    <3> QED
      BY <3>1
  <2>2. PICK y \in F : a[j] = Reported(y) /\ Place(F, y) = j - 1
    BY <1>9
  <2>3. y = x
    BY <1>4, <2>1, <2>2
  <2>4. ChangeAt(x) = <<a[j].field, a[j].prior, a[j].current>>
    BY <1>10, <2>2, <2>3
  <2> QED
    BY <1>11, <2>4
<1>14. ReportedChanges \subseteq NotableChanges
  BY <1>7, <1>12
<1>15. Len(a) = Min({MaxAnomalies, Cardinality(NotableChanges)})
  BY <1>5, <1>7, <1>9 DEF ListLength
<1>16. ASSUME NEW c \in ReportedChanges, NEW n \in NotableChanges \ ReportedChanges
       PROVE  c[3] >= n[3]
  <2>1. PICK x \in F : Place(F, x) < L /\ c = ChangeAt(x)
    BY <1>12
  <2>2. PICK y \in F : n = ChangeAt(y)
    BY <1>7
  <2>3. ~(Place(F, y) < L)
    BY <1>13, <2>2
  <2>4. Place(F, x) <= Place(F, y)
    BY <1>4, <1>6, <2>1, <2>3
  <2>5. x[2] >= y[2]
    BY <1>4, <2>4
  <2>6. c[3] = x[2] /\ n[3] = y[2]
    BY <2>1, <2>2 DEF ChangeAt
  <2> QED
    BY <2>5, <2>6
<1>17. ASSUME NEW i \in 1..L, NEW j \in 1..L, i < j PROVE a[i].current >= a[j].current
  <2>1. PICK x \in F : a[i] = Reported(x) /\ Place(F, x) = i - 1
    BY <1>9
  <2>2. PICK y \in F : a[j] = Reported(y) /\ Place(F, y) = j - 1
    BY <1>9
  <2>3. Place(F, x) <= Place(F, y)
    BY <1>17, <2>1, <2>2
  <2>4. x[2] >= y[2]
    BY <1>4, <2>3
  <2> QED
    BY <1>10, <2>1, <2>2, <2>4
<1> QED
  BY <1>8, <1>9, <1>14, <1>15, <1>16, <1>17

\* The sum of the rows is the total.
LEMMA RowsAddUp ==
    ASSUME CountsInv, NEW f \in NumericFields \ NonAdditive
    PROVE  SumOfRows(f) = acc.total[f]
<1> DEFINE I == {i \in Read : f \in Numbers(rows[i])}
           Step(h, s) == IF s = {} THEN 0 ELSE Value(Pick(s), f) + h[s \ {Pick(s)}]
<1>1. PICK g : g = GivenBy(f)
  OBVIOUS
<1>2. I = RowsOf(f)
  BY DEF RowsOf, Ns, C, Numbers
<1>3. \A i \in I : g[i] = Value(i, f)
  BY <1>1, <1>2 DEF GivenBy, Value, C
<1> HIDE DEF I
<1>4. \A h : \A s \in SUBSET I : SumStep(g, h, s) = Step(h, s)
  BY <1>3, PickIn DEF SumStep
<1>5. \A h : [s \in SUBSET I |-> SumStep(g, h, s)] = [s \in SUBSET I |-> Step(h, s)]
  BY <1>4
<1> HIDE DEF Step
<1>6. PartialSums(g, I) = CHOOSE h : h = [s \in SUBSET I |-> Step(h, s)]
  BY <1>5, Zenon DEF PartialSums
<1> USE DEF I, Step
<1>7. SumOfRows(f) = PartialSums(g, I)[I]
  BY <1>6, Zenon DEF SumOfRows, MapThenSumSet, MapThenFoldSet, Pick
<1> HIDE DEF I, Step
<1>8. SumOfRows(f) = SumOver(g, I)
  BY <1>7, SumUnfolds
<1>9. acc.total[f] = SumOver(g, I)
  BY <1>1, <1>2 DEF CountsInv
<1> QED
  BY <1>8, <1>9

\* The rows that give the outflow of a label, and what they give.
RowsAt(d, v) == {i \in Read : OutflowField(conf.type) \in Ns(i) /\ d \in Ds(i) /\ C(i)[d] = v}

GivenAt(d, v) == [i \in RowsAt(d, v) |-> C(i)[OutflowField(conf.type)]]

\* The amount of a label is that of its rows.
LabelSums ==
    \A d \in OutflowDimensions(conf.type) : \A v :
       At(acc.by_dim, <<OutflowField(conf.type), d, v>>) = SumOver(GivenAt(d, v), RowsAt(d, v))

\* What an accepted row does to the amount of a label.
LEMMA LabelStep ==
    ASSUME NEW row, NEW n, Accepts(row, n), PartsInv, LabelSums,
           NEW d \in OutflowDimensions(conf.type), NEW w, NEW o, o = OutflowField(conf.type)
    PROVE  At(acc'.by_dim, <<o, d, w>>) = SumOver(GivenAt(d, w)', RowsAt(d, w)')
<1>1. OneMore(row, n) /\ IsFiniteSet(Read) /\ conf' = conf
  BY ReadsOneMore DEF Accepts, Reads
<1>2. PICK I, A : I = RowsAt(d, w) /\ A = GivenAt(d, w)
  OBVIOUS
<1>3. PICK J, B : J = RowsAt(d, w)' /\ B = GivenAt(d, w)'
  OBVIOUS
<1>4. PICK x, u : x = Cells(row)[o] /\ u = Cells(row)[d]
  OBVIOUS
<1>5. BaseInv /\ RowFits(row) /\ row \in Rows(conf.type) /\ Mapped(row) /\ CleanInv
  BY DEF Accepts, Reads, AccInv
<1>6. o \in Numbers(row) => d \in Dimensions(row) /\ x \in Int
  <2>1. o \in Numbers(row) => d \in Dimensions(row)
    BY <1>5 DEF RowFits, NumberFits
  <2>2. o \in Numbers(row) => x \in Int
    BY <1>4, <1>5, FittingRow
  <2> QED
    BY <2>1, <2>2
<1>8. n \notin I /\ J = IF o \in Numbers(row) /\ w = u THEN I \cup {n} ELSE I
  <2>1. n \notin I
    BY <1>1, <1>2 DEF OneMore, RowsAt
  <2>2. \A i : i \in J <=> i \in I \/ (i = n /\ o \in Numbers(row) /\ w = u)
    BY <1>1, <1>2, <1>3, <1>4, <1>6 DEF OneMore, RowsAt
  <2> QED
    BY <2>1, <2>2
<1>9. IsFiniteSet(I)
  <2>1. I \subseteq Read
    BY <1>2 DEF RowsAt
  <2> QED
    BY <1>1, <2>1, FS_Subset
<1>10. /\ \A i \in I : A[i] \in Int /\ B[i] = A[i]
       /\ o \in Numbers(row) /\ w = u => B[n] = x
  <2>1. \A i \in I : i \in J /\ B[i] = C(i)'[o] /\ A[i] = C(i)[o] /\ C(i)' = C(i) /\ o \in Ns(i) /\ i \in Read
    BY <1>1, <1>2, <1>3, <1>8 DEF OneMore, RowsAt, GivenAt
  <2>2. \A i \in I : C(i)[o] \in Int
    <3>1. ASSUME NEW i \in I PROVE C(i)[o] \in Int
      <4>1. i \in Read /\ o \in Ns(i) /\ o \in DOMAIN C(i)
        BY <2>1 DEF Ns
      <4>2. C(i)[o] \in Int \cup {Text}
        BY <1>5, <4>1, ReadFacts
      <4>3. C(i)[o] # Text
        BY <1>5, <4>1 DEF CleanInv
      <4> QED
        BY <4>2, <4>3
    <3> QED
      BY <3>1
  <2>3. o \in Numbers(row) /\ w = u => B[n] = x
    BY <1>1, <1>3, <1>4, <1>8 DEF OneMore, GivenAt
  <2> QED
    BY <2>1, <2>2, <2>3
<1>11. SumOver(B, I) = SumOver(A, I) /\ SumOver(A, I) \in Int
  BY <1>9, <1>10, SumSame, SumIsInteger
<1>12. o \in Numbers(row) /\ w = u => SumOver(B, J) = SumOver(A, I) + x
  <2> SUFFICES ASSUME o \in Numbers(row) /\ w = u PROVE SumOver(B, J) = SumOver(A, I) + x
    OBVIOUS
  <2>1. J = I \cup {n} /\ B[n] = x /\ x \in Int
    BY <1>6, <1>8, <1>10
  <2>2. \A i \in I \cup {n} : B[i] \in Int
    BY <1>10, <2>1
  <2> QED
    BY <1>8, <1>9, <1>11, <2>1, <2>2, SumAdd
<1>13. PICK k : k = <<o, d, w>>
  OBVIOUS
<1>14. PICK D, M : D = acc.by_dim /\ M = AddedByDimension(row)
  OBVIOUS
<1>15. At(M, k) = IF o \in Numbers(row) /\ w = u THEN x ELSE 0
  BY <1>4, <1>5, <1>13, <1>14, PartsAdded
<1>16. At(acc'.by_dim, k) = At(D, k) + At(M, k)
  <2>1. /\ DOMAIN acc'.by_dim = DOMAIN D \cup DOMAIN M
        /\ \A l \in DOMAIN acc'.by_dim : acc'.by_dim[l] = At(D, l) + At(M, l)
    BY <1>14, PartKeys
  <2> QED
    BY <2>1 DEF At
<1>17. At(D, k) = SumOver(A, I)
  BY <1>2, <1>13, <1>14 DEF LabelSums
<1>18. CASE o \in Numbers(row) /\ w = u
  BY <1>3, <1>12, <1>13, <1>15, <1>16, <1>17, <1>18
<1>19. CASE ~(o \in Numbers(row) /\ w = u)
  <2>1. J = I
    BY <1>8, <1>19
  <2>2. SumOver(B, J) = SumOver(A, I)
    BY <1>11, <2>1
  <2>3. At(M, k) = 0
    BY <1>15, <1>19
  <2> QED
    BY <1>3, <1>11, <1>13, <1>16, <1>17, <2>2, <2>3
<1> QED
  BY <1>18, <1>19

LEMMA AcceptLabelSums ==
    ASSUME NEW row, NEW n, Accepts(row, n), PartsInv, LabelSums
    PROVE  LabelSums'
<1>1. conf' = conf
  BY DEF Accepts, Reads
<1>2. PICK o : o = OutflowField(conf.type)
  OBVIOUS
<1>3. \A d \in OutflowDimensions(conf.type) : \A v :
         At(acc'.by_dim, <<o, d, v>>) = SumOver(GivenAt(d, v)', RowsAt(d, v)')
  BY <1>2, LabelStep
<1> QED
  BY <1>1, <1>2, <1>3 DEF LabelSums

LEMMA IdleLabelSums ==
    ASSUME LabelSums, UNCHANGED <<conf, acc>>, Read' = Read,
           \A i \in Read : C(i)' = C(i) /\ Ns(i)' = Ns(i) /\ Ds(i)' = Ds(i)
    PROVE  LabelSums'
<1>1. \A d, v : RowsAt(d, v)' = RowsAt(d, v)
  BY DEF RowsAt
<1>2. \A d, v : GivenAt(d, v)' = GivenAt(d, v)
  BY <1>1 DEF GivenAt, RowsAt
<1> QED
  BY <1>1, <1>2 DEF LabelSums

\* The sum of the rows of a label is its amount.
LEMMA LabelRowsAddUp ==
    ASSUME LabelSums, NEW d \in OutflowDimensions(conf.type), NEW v,
           NEW f, f = OutflowField(conf.type)
    PROVE  /\ SumOfLabel(f, d, v) = At(acc.by_dim, <<f, d, v>>)
           /\ Bearing(f, d, v) = {} => SumOfLabel(f, d, v) = 0
<1> DEFINE Step(h, s) == IF s = {} THEN 0 ELSE Value(Pick(s), f) + h[s \ {Pick(s)}]
           I == Bearing(f, d, v)
<1>1. PICK g : g = GivenAt(d, v)
  OBVIOUS
<1>2. I = RowsAt(d, v)
  BY DEF Bearing, RowsAt, Ns, Ds, C, Numbers, Dimensions, Value
<1>3. \A i \in I : g[i] = Value(i, f)
  BY <1>1, <1>2 DEF GivenAt, Value, C
<1> HIDE DEF I
<1>4. \A h : \A s \in SUBSET I : SumStep(g, h, s) = Step(h, s)
  BY <1>3, PickIn DEF SumStep
<1>5. \A h : [s \in SUBSET I |-> SumStep(g, h, s)] = [s \in SUBSET I |-> Step(h, s)]
  BY <1>4
<1> HIDE DEF Step
<1>6. PartialSums(g, I) = CHOOSE h : h = [s \in SUBSET I |-> Step(h, s)]
  BY <1>5, Zenon DEF PartialSums
<1> USE DEF I, Step
<1>7. SumOfLabel(f, d, v) = PartialSums(g, I)[I]
  BY <1>6, Zenon DEF SumOfLabel, MapThenSumSet, MapThenFoldSet, Pick
<1> HIDE DEF I, Step
<1>8. SumOfLabel(f, d, v) = SumOver(g, I)
  BY <1>7, SumUnfolds
<1>9. At(acc.by_dim, <<f, d, v>>) = SumOver(g, I)
  BY <1>1, <1>2 DEF LabelSums
<1>10. I = {} => SumOver(g, I) = 0
  BY SumEmpty
<1> QED
  BY <1>8, <1>9, <1>10 DEF I

\* Only required measures are met, and once all periods are covered each of them
\* has a total.
LEMMA TotalsKnown ==
    ASSUME BaseInv, AccInv, AmountInv, CountsInv, SamePeriods, NEW f \in NumericFields
    PROVE  /\ f \in RequiredNumeric(conf.type) =>
                Total(f) = acc.total[f] /\ Total(f) \in Int /\ Total(f) # Null
           /\ f \notin RequiredNumeric(conf.type) => Total(f) = Null /\ PeriodsOf(f) = {}
<1>1. acc.total[f] \in Int /\ (acc.count[f] = 0 <=> PeriodsOf(f) = {})
  BY DEF AmountInv, CountsInv
<1>2. Null \notin Int
  BY InsightsAssumption
<1>3. ASSUME f \notin RequiredNumeric(conf.type) PROVE PeriodsOf(f) = {}
  <2>1. \A i \in Read : f \notin Ns(i)
    BY <1>3, ReadFacts
  <2>2. \A p : <<f, p>> \in DOMAIN acc.by_period => \E i \in Read : f \in Ns(i)
    <3>1. \A key : key \in DOMAIN acc.by_period => \E i \in Read : \E g \in Ns(i) : key = <<g, P(i)>>
      BY DEF AccInv, OwnerInv
    <3> QED
      BY <3>1
  <2>3. \A p \in PeriodsOf(f) : <<f, p>> \in DOMAIN acc.by_period
    BY PeriodsByKey DEF AccInv
  <2> QED
    BY <2>1, <2>2, <2>3
<1>4. f \in RequiredNumeric(conf.type) => PeriodsOf(f) # {}
  BY DEF SamePeriods
<1> QED
  BY <1>1, <1>2, <1>3, <1>4 DEF Total

\* The dimension that concentration is measured in has labels, and the top is
\* the largest amount of one.
LEMMA TopKnown ==
    ASSUME BaseInv, AccInv, KeyInv, PartsInv, SamePeriods, NEW d, d = Concentration(conf.type)
    PROVE  /\ Top # Null /\ Top \in Int
           /\ \A h \in Int : 2 * Top >= h <=> \E v \in DimLabels(d) : 2 * ByDimension(d)[v] >= h
<1>1. conf.type \in Types
  BY InsightsAssumption DEF BaseInv
<1>2. PICK o : o = OutflowField(conf.type)
  OBVIOUS
<1>3. d \in OutflowDimensions(conf.type) /\ o \in RequiredNumeric(conf.type) /\ o \in NumericFields
      /\ d \in DimensionFields
      /\ <<o, d>> \in DimensionAggregations(conf.type)
  <2>1. d \in OutflowDimensions(conf.type)
    BY <1>1 DEF Concentration, OutflowDimensions, Types
  <2> QED
    BY <1>1, <1>2, <2>1, Contract
<1>4. PICK L, B : L = DimLabels(d) /\ B = ByDimension(d)
  OBVIOUS
<1>5. /\ \A v : v \in L <=> <<o, d, v>> \in DOMAIN acc.by_dim
      /\ (\A v \in L : B[v] \in Int) /\ IsFiniteSet(L) /\ DOMAIN B = L
  BY <1>2, <1>4, LabelsByKey DEF AccInv, DimLabels
<1>6. L # {}
  <2>1. PICK p : p \in PeriodsOf(o)
    BY <1>3 DEF SamePeriods
  <2>2. <<o, p>> \in DOMAIN acc.by_period
    BY <2>1, PeriodsByKey DEF AccInv
  <2>3. PICK i \in Read : o \in Ns(i)
    <3>1. \A key : key \in DOMAIN acc.by_period => \E i \in Read : \E g \in Ns(i) : key = <<g, P(i)>>
      BY DEF AccInv, OwnerInv
    <3>2. PICK i \in Read : \E g \in Ns(i) : <<o, p>> = <<g, P(i)>>
      BY <2>2, <3>1
    <3> QED
      BY <3>2
  <2>4. d \in Ds(i)
    BY <1>2, <1>3, <2>3 DEF AccInv, CleanInv
  <2>5. o \in DOMAIN C(i) /\ d \in DOMAIN C(i)
    BY <2>3, <2>4 DEF Ns, Ds
  <2>6. PICK v : v = C(i)[d]
    OBVIOUS
  <2>7. PICK a \in DimensionAggregations(conf.type) : a = <<o, d>>
    BY <1>3
  <2>8. a[1] \in DOMAIN C(i) /\ a[2] \in DOMAIN C(i) /\ <<o, d, P(i), v>> = <<a[1], a[2], P(i), C(i)[a[2]]>>
    BY <2>5, <2>6, <2>7
  <2>9. <<o, d, P(i), v>> \in DOMAIN acc.points
    BY <2>3, <2>7, <2>8 DEF AccInv, PointInv
  <2>10. PICK k \in DOMAIN acc.points : k = <<o, d, P(i), v>>
    BY <2>9
  <2>11. <<k[1], k[2], k[4]>> \in DOMAIN acc.by_dim
    BY DEF KeyInv, TypeOK
  <2>12. <<o, d, v>> \in DOMAIN acc.by_dim
    BY <2>10, <2>11
  <2> QED
    BY <1>5, <2>12
<1>7. PICK T : T = {B[v] : v \in L}
  OBVIOUS
<1>8. T \subseteq Int /\ T # {} /\ \A y : y \in T <=> \E v \in L : y = B[v]
  BY <1>5, <1>6, <1>7
<1>9. IsFiniteSet(T)
  <2>1. B = [v \in L |-> B[v]]
    BY <1>4, <1>5 DEF ByDimension
  <2> QED
    BY <1>5, <1>7, <2>1, ImageFinite
<1>10. Max(T) \in T /\ \A y \in T : Max(T) >= y
  BY <1>8, <1>9, LargestExists
<1>11. Top = Max(T)
  <2>1. DOMAIN B # {} /\ T = {B[v] : v \in DOMAIN B}
    BY <1>5, <1>6, <1>7
  <2> QED
    BY <1>4, <2>1 DEF Top
<1>12. PICK m \in Int : m = Top
  BY <1>8, <1>10, <1>11
<1>13. ASSUME NEW h \in Int PROVE 2 * m >= h <=> \E v \in L : 2 * B[v] >= h
  <2>1. PICK u \in L : B[u] = m
    BY <1>8, <1>10, <1>11, <1>12
  <2>2. ASSUME NEW v \in L, 2 * B[v] >= h PROVE 2 * m >= h
    <3>1. m >= B[v] /\ B[v] \in Int
      BY <1>5, <1>8, <1>10, <1>11, <1>12
    <3> QED
      BY <2>2, <3>1
  <2> QED
    BY <2>1, <2>2
<1>14. m # Null
  BY InsightsAssumption
<1> QED
  BY <1>4, <1>12, <1>13, <1>14

-----------------------------------------------------------------------------
(***************************************************************************)
(* What is rendered of them.                                               *)
(***************************************************************************)

\* The risks, by the totals.
RisksShown(risks) ==
    LET o == OutflowField(conf.type)
        d == Concentration(conf.type)
    IN
    /\ "outflow_exceeds_revenue" \in risks <=>
         "revenue" \in RequiredNumeric(conf.type) /\ acc.total[o] > acc.total["revenue"]
    /\ "spend_above_budget" \in risks <=>
         conf.type = "financial_performance" /\ acc.total["spend"] > acc.total["budget"]
    /\ "outflow_concentration" \in risks <=>
         acc.total[o] > 0 /\ \E v \in DimLabels(d) : 2 * ByDimension(d)[v] >= acc.total[o]

\* The goals for which there is data, by the periods.
Grounded(g) ==
    \/ g \in {"reduce_expenses", "improve_operational_efficiency"}
    \/ /\ g \in {"improve_cash_flow", "grow_revenue", "increase_profitability"}
       /\ conf.type # "operational_kpi"
    \/ g = "stay_on_budget" /\ conf.type = "financial_performance"
    \/ g = "improve_forecasting" /\ Cardinality(PeriodsOf(OutflowField(conf.type))) > 1

SignalsShown(r) ==
    /\ SamePeriods
    /\ Listed(r.anomalies)
    /\ RisksShown(r.risks)
    /\ \A g \in conf.goals : r.recommendations[g] # Null <=> Grounded(g)

LEMMA RisksRendered ==
    ASSUME BaseInv, AccInv, KeyInv, AmountInv, PartsInv, CountsInv, SamePeriods
    PROVE  RisksShown(Risks)
<1>1. conf.type \in Types
  BY InsightsAssumption DEF BaseInv
<1>2. PICK o, d : o = OutflowField(conf.type) /\ d = Concentration(conf.type)
  OBVIOUS
<1>3. PICK R : R = RequiredNumeric(conf.type)
  OBVIOUS
<1>4. \A f \in NumericFields : /\ f \in R => Total(f) = acc.total[f] /\ Total(f) # Null
                               /\ f \notin R => Total(f) = Null
  BY <1>3, TotalsKnown
<1>5. o \in R /\ o \in NumericFields /\ d \in OutflowDimensions(conf.type)
  <2>1. d \in OutflowDimensions(conf.type)
    BY <1>1, <1>2 DEF Concentration, OutflowDimensions, Types
  <2> QED
    BY <1>1, <1>2, <1>3, <2>1, Contract
<1>6. "revenue" \in NumericFields /\ "spend" \in NumericFields /\ "budget" \in NumericFields
  BY DEF NumericFields
<1>7. (conf.type = "financial_performance" <=> "spend" \in R /\ "budget" \in R)
  BY <1>1, <1>3 DEF RequiredNumeric, Types
<1>8. PICK s : s = SumOf(ByDimension(d))
  OBVIOUS
<1>9. s = acc.total[o] /\ s \in Int
  <2>1. PICK g : g = ByDimension(d)
    OBVIOUS
  <2>2. SumOf(g) = SumOver(g, DOMAIN g)
    BY Zenon DEF SumOf, SumOver
  <2>3. acc.total[o] = SumOver(g, DOMAIN g)
    BY <1>2, <1>5, <2>1 DEF PartsInv, DimLabels
  <2>4. acc.total[o] \in Int
    BY <1>5 DEF AmountInv
  <2> QED
    BY <1>8, <2>1, <2>2, <2>3, <2>4
<1>10. Top # Null /\ (2 * Top >= s <=> \E v \in DimLabels(d) : 2 * ByDimension(d)[v] >= s)
  BY <1>2, <1>9, TopKnown
<1>11. "outflow_exceeds_revenue" \in Risks <=> Exceeds(Total(o), Total("revenue"))
  BY <1>2 DEF Risks
<1>12. "spend_above_budget" \in Risks <=> Exceeds(Total("spend"), Total("budget"))
  BY DEF Risks
<1>13. "outflow_concentration" \in Risks <=> Top # Null /\ s > 0 /\ 2 * Top >= s
  BY <1>2, <1>8 DEF Risks
<1>14. Exceeds(Total(o), Total("revenue")) <=> "revenue" \in R /\ acc.total[o] > acc.total["revenue"]
  BY <1>4, <1>5, <1>6 DEF Exceeds
<1>15. Exceeds(Total("spend"), Total("budget")) <=>
         conf.type = "financial_performance" /\ acc.total["spend"] > acc.total["budget"]
  BY <1>4, <1>6, <1>7 DEF Exceeds
<1> QED
  BY <1>2, <1>3, <1>9, <1>10, <1>11, <1>12, <1>13, <1>14, <1>15 DEF RisksShown

\* Once all required measures have the same periods these are all there are.
LEMMA PeriodsCovered ==
    ASSUME BaseInv, AccInv, KeyInv, AmountInv, CountsInv, SamePeriods
    PROVE  MappedPeriods = PeriodsOf(OutflowField(conf.type))
<1>1. conf.type \in Types
  BY InsightsAssumption DEF BaseInv
<1>2. PICK o : o = OutflowField(conf.type)
  OBVIOUS
<1>3. o \in RequiredNumeric(conf.type)
  BY <1>1, <1>2, Contract
<1>4. ASSUME NEW f PROVE \A p : p \in PeriodsOf(f) <=> <<f, p>> \in DOMAIN acc.by_period
  BY PeriodsByKey DEF AccInv
<1>5. \A k \in DOMAIN acc.by_period : k = <<k[1], k[2]>> /\ k[1] \in NumericFields
  <2>1. \A k \in DOMAIN acc.by_period : k = <<k[1], k[2]>>
    BY DEF AccInv, OwnerInv
  <2>2. \A k \in DOMAIN acc.by_period : k[1] \in NumericFields
    BY DEF KeyInv, TypeOK
  <2> QED
    BY <2>1, <2>2
<1>6. \A f \in NumericFields : PeriodsOf(f) \subseteq PeriodsOf(o)
  BY <1>2, TotalsKnown DEF SamePeriods
<1>7. ASSUME NEW p \in MappedPeriods PROVE p \in PeriodsOf(o)
  <2>1. PICK k \in DOMAIN acc.by_period : p = k[2]
    BY DEF MappedPeriods
  <2>2. p \in PeriodsOf(k[1]) /\ k[1] \in NumericFields
    BY <1>4, <1>5, <2>1
  <2> QED
    BY <1>6, <2>2
<1>8. ASSUME NEW p \in PeriodsOf(o) PROVE p \in MappedPeriods
  <2>1. PICK k \in DOMAIN acc.by_period : k = <<o, p>>
    BY <1>4
  <2>2. k[2] = p
    BY <2>1
  <2> QED
    BY <2>2 DEF MappedPeriods
<1> QED
  BY <1>2, <1>7, <1>8

\* The evidence of a goal.
LEMMA EvidenceKnown ==
    ASSUME BaseInv, AccInv, KeyInv, AmountInv, PartsInv, CountsInv, SamePeriods, NEW g \in Goals
    PROVE  Evidence(g) # Null <=> Grounded(g)
<1>1. conf.type \in Types
  BY InsightsAssumption DEF BaseInv
<1>2. PICK o, R : o = OutflowField(conf.type) /\ R = RequiredNumeric(conf.type)
  OBVIOUS
<1>3. \A f \in NumericFields : /\ f \in R => Total(f) \in Int /\ Total(f) # Null
                               /\ f \notin R => Total(f) = Null
  BY <1>2, TotalsKnown
<1>4. Null \notin Int \X Int /\ Null \notin Int
  BY InsightsAssumption
<1>5. \A f \in R : Latest(f) # Null
  <2> SUFFICES ASSUME NEW f \in R PROVE Latest(f) # Null
    OBVIOUS
  <2>1. PICK S, B : S = PeriodsOf(f) /\ B = ByPeriod(f)
    OBVIOUS
  <2>2. S # {} /\ IsFiniteSet(S) /\ (\A p \in S : B[p] \in Int)
        /\ \A p \in S : <<f, p>> \in DOMAIN acc.by_period
    BY <1>2, <2>1, PeriodsByKey DEF SamePeriods, AccInv
  <2>3. S \subseteq Nat
    BY <2>2 DEF KeyInv, TypeOK
  <2>4. Max(S) \in S
    BY <2>2, <2>3, MaxExists
  <2>5. Latest(f) = B[Max(S)]
    BY <2>1, <2>2 DEF Latest
  <2> QED
    BY <1>4, <2>2, <2>4, <2>5
<1>6. \A f, h \in NumericFields : Both(Total(f), Total(h)) # Null <=> f \in R /\ h \in R
  <2> SUFFICES ASSUME NEW f \in NumericFields, NEW h \in NumericFields
               PROVE  Both(Total(f), Total(h)) # Null <=> f \in R /\ h \in R
    OBVIOUS
  <2>1. CASE f \in R /\ h \in R
    <3>1. PICK x \in Int, y \in Int : x = Total(f) /\ y = Total(h) /\ x # Null /\ y # Null
      BY <1>3, <2>1
    <3>2. Both(x, y) = <<x, y>>
      BY <3>1 DEF Both
    <3>3. <<x, y>> \in Int \X Int
      OBVIOUS
    <3> QED
      BY <1>4, <2>1, <3>1, <3>2, <3>3
  <2>2. CASE ~(f \in R /\ h \in R)
    BY <1>3, <2>2 DEF Both
  <2> QED
    BY <2>1, <2>2
<1>7. Top # Null
  BY TopKnown
<1>8. /\ o \in R /\ o \in NumericFields
      /\ {"revenue", "spend", "budget"} \subseteq NumericFields
      /\ "revenue" \in R <=> conf.type # "operational_kpi"
      /\ "spend" \in R /\ "budget" \in R <=> conf.type = "financial_performance"
      /\ conf.type = "executive_summary" => "net_cash" \in R
      /\ conf.type = "financial_performance" => "cash_balance" \in R
  BY <1>1, <1>2 DEF RequiredNumeric, Types, OutflowField, NumericFields
<1>9. MappedPeriods = PeriodsOf(o) /\ Cardinality(MappedPeriods) \in Nat
  BY <1>2, PeriodsCovered, FoundFinite, FS_CardinalityType
<1>10. CASE g \in {"benchmark_against_peers", "improve_collections_ar"}
  BY <1>10 DEF Evidence, Grounded
<1>11. CASE g = "improve_cash_flow"
  <2>1. Evidence(g) = IF conf.type = "executive_summary" THEN Latest("net_cash")
                      ELSE IF conf.type = "financial_performance" THEN Latest("cash_balance") ELSE Null
    BY <1>11 DEF Evidence
  <2>2. Grounded(g) <=> conf.type # "operational_kpi"
    BY <1>11 DEF Grounded
  <2> QED
    BY <1>1, <1>5, <1>8, <2>1, <2>2 DEF Types
<1>12. CASE g \in {"reduce_expenses", "improve_operational_efficiency"}
  BY <1>7, <1>12 DEF Evidence, Grounded
<1>13. CASE g = "stay_on_budget"
  <2>1. Evidence(g) = Both(Total("budget"), Total("spend"))
    BY <1>13 DEF Evidence
  <2>2. Grounded(g) <=> conf.type = "financial_performance"
    BY <1>13 DEF Grounded
  <2> QED
    BY <1>6, <1>8, <2>1, <2>2
<1>14. CASE g = "grow_revenue"
  <2>1. Evidence(g) = Total("revenue")
    BY <1>14 DEF Evidence
  <2>2. Grounded(g) <=> conf.type # "operational_kpi"
    BY <1>14 DEF Grounded
  <2> QED
    BY <1>3, <1>8, <2>1, <2>2
<1>15. CASE g = "increase_profitability"
  <2>1. Evidence(g) = Both(Total("revenue"), Total(o))
    BY <1>2, <1>15 DEF Evidence
  <2>2. Grounded(g) <=> conf.type # "operational_kpi"
    BY <1>15 DEF Grounded
  <2> QED
    BY <1>6, <1>8, <2>1, <2>2
<1>16. CASE g = "improve_forecasting"
  <2>1. PICK c \in Nat : c = Cardinality(MappedPeriods)
    BY <1>9
  <2>2. Evidence(g) = IF c < 2 THEN Null ELSE c
    BY <1>16, <2>1 DEF Evidence
  <2>3. Grounded(g) <=> c > 1
    BY <1>2, <1>9, <1>16, <2>1 DEF Grounded
  <2> QED
    BY <1>4, <2>1, <2>2, <2>3
<1> QED
  BY <1>10, <1>11, <1>12, <1>13, <1>14, <1>15, <1>16 DEF Goals

\* It stays shown while configuration and accumulator stay.
LEMMA SignalsStay ==
    ASSUME NEW r, SignalsShown(r), UNCHANGED <<conf, acc>>
    PROVE  SignalsShown(r)'
<1>1. \A f : PeriodsOf(f)' = PeriodsOf(f)
  BY DEF PeriodsOf
<1>2. \A f : ByPeriod(f)' = ByPeriod(f)
  BY <1>1 DEF ByPeriod
<1>3. \A d : ByDimension(d)' = ByDimension(d)
  BY DEF ByDimension
<1>4. \A d : DimLabels(d)' = DimLabels(d)
  BY <1>3 DEF DimLabels
<1>5. MappedPeriods' = MappedPeriods /\ PrimaryFields' = PrimaryFields
  BY DEF MappedPeriods, PrimaryFields
<1>6. \A f, p : PriorTo(f, p)' = PriorTo(f, p)
  BY <1>1 DEF PriorTo
<1>7. \A f, p : Flagged(f, p)' <=> Flagged(f, p)
  BY <1>1, <1>2, <1>6 DEF Flagged
<1>8. Found' = Found
  BY <1>5, <1>7 DEF Found
<1>9. \A x : Reported(x)' = Reported(x)
  BY <1>5, <1>6 DEF Reported
<1>10. ListLength' = ListLength
  BY <1>8 DEF ListLength
<1>11. \A a : Listed(a) => Listed(a)'
  BY <1>8, <1>9, <1>10 DEF Listed
<1>12. SamePeriods' <=> SamePeriods
  BY <1>1 DEF SamePeriods
<1>13. \A s : RisksShown(s) => RisksShown(s)'
  BY <1>3, <1>4 DEF RisksShown
<1>14. \A g : Grounded(g)' <=> Grounded(g)
  BY <1>1 DEF Grounded
<1> QED
  BY <1>11, <1>12, <1>13, <1>14 DEF SignalsShown

LEMMA SignalsRendered ==
    ASSUME BaseInv, AccInv, KeyInv, AmountInv, PartsInv, CountsInv, RenderError = "none"
    PROVE  SignalsShown(Rendered)
<1>1. SamePeriods
  BY NothingMissing
<1>2. PICK r : r = Rendered
  OBVIOUS
<1>3. /\ r.anomalies = Anomalies /\ r.risks = Risks
      /\ r.recommendations = [g \in conf.goals |-> Evidence(g)]
  BY <1>2 DEF Rendered
<1>4. Listed(Anomalies) /\ RisksShown(Risks)
  BY <1>1, AnomaliesListed, RisksRendered
<1>5. conf.goals \subseteq Goals
  BY InsightsAssumption DEF BaseInv
<1>6. \A g \in conf.goals : r.recommendations[g] # Null <=> Grounded(g)
  BY <1>1, <1>3, <1>5, EvidenceKnown
<1> QED
  BY <1>1, <1>2, <1>3, <1>4, <1>6 DEF SignalsShown

\* The inductive invariant behind the signals.
SignalsInv ==
    /\ PartsOfWhole
    /\ status # "failed" => CountsInv /\ LabelSums
    /\ status = "rendered" => SignalsShown(result)

LEMMA SignalsInit == Init => SignalsInv
<1> SUFFICES ASSUME Init PROVE SignalsInv
  OBVIOUS
<1>1. PartsOfWhole
  BY PartsInit
<1>2. /\ acc.by_period = <<>> /\ acc.by_dim = <<>> /\ rows = <<>>
      /\ acc.total = [f \in NumericFields |-> 0] /\ acc.count = [f \in NumericFields |-> 0]
  BY DEF Init, NoRows
<1>3. DOMAIN acc.by_period = {} /\ DOMAIN acc.by_dim = {} /\ Read = {}
  BY <1>2 DEF Read
<1>4. \A f : PeriodsOf(f) = {} /\ RowsOf(f) = {}
  BY <1>3 DEF PeriodsOf, RowsOf
<1>5. \A d, v : RowsAt(d, v) = {}
  BY <1>3 DEF RowsAt
<1>6. \A g : SumOver(g, {}) = 0
  BY SumEmpty
<1>7. \A f \in NumericFields : acc.total[f] = 0 /\ acc.count[f] = 0
  BY <1>2
<1>8. CountsInv
  BY <1>4, <1>6, <1>7 DEF CountsInv
<1>9. \A k : At(acc.by_dim, k) = 0
  BY <1>3 DEF At
<1>10. LabelSums
  BY <1>5, <1>6, <1>9 DEF LabelSums
<1>11. status # "rendered"
  BY DEF Init
<1> QED
  BY <1>1, <1>8, <1>10, <1>11 DEF SignalsInv

\* Steps that read no row, or one that does not count.
LEMMA SignalsIdle ==
    ASSUME SignalsInv, PartsOfWhole', UNCHANGED <<conf, acc>>,
           status' # "failed" => status # "failed",
           status' # "failed" => Read' = Read /\ \A i \in Read : C(i)' = C(i) /\ Ns(i)' = Ns(i) /\ Ds(i)' = Ds(i),
           status' = "rendered" => SignalsShown(result)'
    PROVE  SignalsInv'
<1>1. status' # "failed" => CountsInv' /\ LabelSums'
  <2> SUFFICES ASSUME status' # "failed" PROVE CountsInv' /\ LabelSums'
    OBVIOUS
  <2>1. /\ CountsInv /\ LabelSums /\ Read' = Read
        /\ \A i \in Read : C(i)' = C(i) /\ Ns(i)' = Ns(i) /\ Ds(i)' = Ds(i)
    BY DEF SignalsInv
  <2>2. CountsInv'
    BY <2>1, IdleCounts
  <2>3. LabelSums'
    BY <2>1, IdleLabelSums
  <2> QED
    BY <2>2, <2>3
<1> QED
  BY <1>1 DEF SignalsInv

LEMMA SignalsRow ==
    ASSUME SignalsInv, PartsOfWhole', NEW row \in Rows(conf.type), ReadRow(row)
    PROVE  SignalsInv'
<1>1. PICK n : n = Len(rows) + 1
  OBVIOUS
<1>2. /\ BaseInv /\ AccInv /\ AmountInv /\ PartsInv /\ CountsInv /\ LabelSums /\ conf' = conf
      /\ rows' = Append(rows, row) /\ status = "rows" /\ status' # "rendered"
  BY DEF SignalsInv, PartsOfWhole, FaithInv, VerdictInv, ReadRow, Fails
<1>3. CASE status' = "failed"
  BY <1>2, <1>3 DEF SignalsInv
<1>4. CASE row.sheet \in Sheets /\ ~Mapped(row) /\ UNCHANGED <<acc, status, error>>
  <2>1. /\ Read' = Read
        /\ \A i \in DOMAIN rows : C(i)' = C(i) /\ Ns(i)' = Ns(i) /\ Ds(i)' = Ds(i)
    BY <1>1, <1>2, <1>4, RowAppended
  <2>2. Read \subseteq DOMAIN rows
    BY DEF Read
  <2> QED
    BY <1>2, <1>4, <2>1, <2>2, SignalsIdle
<1>5. CASE /\ row.sheet \in Sheets /\ Mapped(row) /\ RowErrors(row) = {}
           /\ acc' = Observed(row) /\ UNCHANGED <<status, error>>
  <2>1. Accepts(row, n)
    BY <1>1, <1>2, <1>5, FitsIffNoError DEF Accepts, Reads
  <2>2. CountsInv' /\ LabelSums'
    BY <1>2, <2>1, AcceptCounts, AcceptLabelSums
  <2> QED
    BY <1>2, <2>2 DEF SignalsInv
<1> QED
  BY <1>3, <1>4, <1>5 DEF ReadRow, Fails

LEMMA SignalsInductive == SignalsInv /\ [Next]_vars => SignalsInv'
<1> SUFFICES ASSUME SignalsInv, [Next]_vars PROVE SignalsInv'
  OBVIOUS
<1>1. PartsOfWhole /\ PartsOfWhole'
  BY PartsInductive DEF SignalsInv
<1>2. ASSUME UNCHANGED <<conf, rows, acc>>, status' # "failed" => status # "failed",
             status' = "rendered" => SignalsShown(result)'
      PROVE  SignalsInv'
  <2>1. Read' = Read /\ \A i : C(i)' = C(i) /\ Ns(i)' = Ns(i) /\ Ds(i)' = Ds(i)
    BY <1>2 DEF Read, Mapped, C, Cells, Ns, Ds
  <2> QED
    BY <1>1, <1>2, <2>1, SignalsIdle
<1>3. CASE ReadProfile
  BY <1>2, <1>3 DEF ReadProfile, Fails
<1>4. CASE \E row \in Rows(conf.type) : ReadRow(row)
  BY <1>1, <1>4, SignalsRow
<1>5. CASE EndOfReport
  BY <1>2, <1>5 DEF EndOfReport, Fails
<1>6. CASE Render
  <2>1. status = "ready" /\ UNCHANGED <<conf, rows, acc>>
    BY <1>6 DEF Render
  <2>2. CASE status' = "failed"
    BY <1>2, <2>1, <2>2
  <2>3. CASE status' # "failed"
    <3>1. RenderError = "none" /\ status' = "rendered" /\ result' = Rendered
      BY <1>6, <2>3 DEF Render, Fails
    <3>2. BaseInv /\ AccInv /\ KeyInv /\ AmountInv /\ PartsInv /\ CountsInv
      BY <2>1 DEF SignalsInv, PartsOfWhole, FaithInv, VerdictInv
    <3>3. PICK r : r = Rendered
      OBVIOUS
    <3>4. SignalsShown(r)
      BY <3>1, <3>2, <3>3, SignalsRendered
    <3>5. SignalsShown(r)'
      BY <2>1, <3>4, SignalsStay
    <3>6. SignalsShown(result)'
      BY <3>1, <3>3, <3>5 DEF SignalsShown
    <3> QED
      BY <1>2, <2>1, <3>6
  <2> QED
    BY <2>2, <2>3
<1>7. CASE UNCHANGED vars
  <2>1. UNCHANGED <<conf, rows, acc, status, result>>
    BY <1>7 DEF vars
  <2>2. CASE status # "rendered"
    BY <1>2, <2>1, <2>2
  <2>3. CASE status = "rendered"
    <3>1. PICK r : r = result
      OBVIOUS
    <3>2. SignalsShown(r)'
      BY <2>1, <2>3, <3>1, SignalsStay DEF SignalsInv
    <3>3. SignalsShown(result)'
      BY <2>1, <3>1, <3>2 DEF SignalsShown
    <3> QED
      BY <1>2, <2>1, <3>3
  <2> QED
    BY <2>2, <2>3
<1> QED
  BY <1>3, <1>4, <1>5, <1>6, <1>7 DEF Next

\* What is shown by the totals follows from the rows.
LEMMA RisksFollowRows ==
    ASSUME SignalsInv, status = "rendered"
    PROVE  /\ "outflow_exceeds_revenue" \in result.risks <=>
                /\ "revenue" \in RequiredNumeric(conf.type)
                /\ SumOfRows(OutflowField(conf.type)) > SumOfRows("revenue")
           /\ "spend_above_budget" \in result.risks <=>
                conf.type = "financial_performance" /\ SumOfRows("spend") > SumOfRows("budget")
           /\ "outflow_concentration" \in result.risks <=>
                Concentrated(OutflowField(conf.type), Concentration(conf.type))
<1>1. /\ BaseInv /\ AccInv /\ PartsInv /\ CountsInv /\ LabelSums /\ AmountInv
      /\ SignalsShown(result)
  BY DEF SignalsInv, PartsOfWhole, FaithInv, VerdictInv
<1>2. conf.type \in Types
  BY <1>1, InsightsAssumption DEF BaseInv
<1>3. PICK o, d : o = OutflowField(conf.type) /\ d = Concentration(conf.type)
  OBVIOUS
<1>4. PICK risks : risks = result.risks
  OBVIOUS
<1>5. o \in NumericFields /\ o \notin NonAdditive /\ d \in OutflowDimensions(conf.type)
      /\ d \in DimensionFields
  <2>1. d \in OutflowDimensions(conf.type)
    BY <1>2, <1>3 DEF Concentration, OutflowDimensions, Types
  <2> QED
    BY <1>2, <1>3, <2>1, Contract
<1>6. {"revenue", "spend", "budget"} \subseteq NumericFields \ NonAdditive
  BY DEF NumericFields, NonAdditive
<1>7. \A f \in NumericFields \ NonAdditive : SumOfRows(f) = acc.total[f]
  BY <1>1, RowsAddUp
<1>8. /\ "outflow_exceeds_revenue" \in risks <=>
           "revenue" \in RequiredNumeric(conf.type) /\ acc.total[o] > acc.total["revenue"]
      /\ "spend_above_budget" \in risks <=>
           conf.type = "financial_performance" /\ acc.total["spend"] > acc.total["budget"]
      /\ "outflow_concentration" \in risks <=>
           acc.total[o] > 0 /\ \E v \in DimLabels(d) : 2 * ByDimension(d)[v] >= acc.total[o]
  BY <1>1, <1>3, <1>4 DEF SignalsShown, RisksShown
<1>9. PICK t \in Int : t = acc.total[o]
  BY <1>1, <1>5 DEF AmountInv
<1>10. \A v : /\ v \in DimLabels(d) => SumOfLabel(o, d, v) = ByDimension(d)[v]
              /\ v \notin DimLabels(d) => SumOfLabel(o, d, v) = 0
  <2>1. \A v : SumOfLabel(o, d, v) = At(acc.by_dim, <<o, d, v>>)
    BY <1>1, <1>3, <1>5, LabelRowsAddUp
  <2>2. /\ \A v : v \in DimLabels(d) <=> <<o, d, v>> \in DOMAIN acc.by_dim
        /\ \A v \in DimLabels(d) : ByDimension(d)[v] = acc.by_dim[<<o, d, v>>]
    BY <1>1, <1>3, LabelsByKey DEF AccInv
  <2> QED
    BY <2>1, <2>2 DEF At
<1>11. \A v : v \notin Labels(d) => SumOfLabel(o, d, v) = 0
  <2> SUFFICES ASSUME NEW v, v \notin Labels(d) PROVE SumOfLabel(o, d, v) = 0
    OBVIOUS
  <2>1. Bearing(o, d, v) = {}
    BY DEF Bearing, Labels
  <2> QED
    BY <1>1, <1>3, <1>5, <2>1, LabelRowsAddUp
<1>12. Concentrated(o, d) <=> t > 0 /\ \E v \in DimLabels(d) : 2 * ByDimension(d)[v] >= t
  <2>1. SumOfRows(o) = t
    BY <1>5, <1>7, <1>9
  <2>2. ASSUME t > 0, NEW v, 2 * SumOfLabel(o, d, v) >= t PROVE SumOfLabel(o, d, v) # 0
    BY <1>9, <2>2
  <2>3. ASSUME t > 0, NEW v \in DimLabels(d), 2 * ByDimension(d)[v] >= t
        PROVE  v \in Labels(d) /\ 2 * SumOfLabel(o, d, v) >= t
    BY <1>10, <1>11, <2>2, <2>3
  <2>4. ASSUME t > 0, NEW v \in Labels(d), 2 * SumOfLabel(o, d, v) >= t
        PROVE  v \in DimLabels(d) /\ 2 * ByDimension(d)[v] >= t
    BY <1>10, <2>2, <2>4
  <2> QED
    BY <2>1, <2>3, <2>4 DEF Concentrated
<1> QED
  BY <1>3, <1>4, <1>5, <1>6, <1>7, <1>8, <1>9, <1>12

\* The list of changes reported, the risks and the evidence that
\* recommendations cite (_anomalies, _risks and _recommendations) are what the
\* rows that were read call for: the latest changes of a quarter or more, no
\* other ones and none left out but for the limit, for any rows and all limits.
THEOREM SignalsFollowRows == Spec => []SignalsComplete
<1>1. SignalsInv => SignalsComplete
  <2> SUFFICES ASSUME SignalsInv, status = "rendered" PROVE SignalsComplete
    BY DEF SignalsComplete
  <2>1. FaithInv /\ SamePeriods /\ Listed(result.anomalies) /\ BaseInv
        /\ \A g \in conf.goals : result.recommendations[g] # Null <=> Grounded(g)
    BY DEF SignalsInv, PartsOfWhole, FaithInv, VerdictInv, SignalsShown
  <2>2. /\ ReportedChanges \subseteq NotableChanges
        /\ Len(result.anomalies) = Min({MaxAnomalies, Cardinality(NotableChanges)})
        /\ \A a \in ReportedChanges, n \in NotableChanges \ ReportedChanges : a[3] >= n[3]
        /\ \A i, j \in DOMAIN result.anomalies :
             i < j => result.anomalies[i].current >= result.anomalies[j].current
    BY <2>1, ListIsComplete
  <2>3. AdviceIsGrounded
    <3>1. PICK o : o = OutflowField(conf.type)
      OBVIOUS
    <3>2. conf.type \in Types
      BY <2>1, InsightsAssumption DEF BaseInv
    <3>3. o \in RequiredNumeric(conf.type)
      BY <3>1, <3>2, Contract
    <3>4. PeriodsOf(o) = {p \in AllPeriods : Giving(o, p) # {}}
      BY <2>1, <3>3, FieldFaithful
    <3>5. Cardinality(PeriodsOf(o)) = Cardinality({p \in AllPeriods : Giving(o, p) # {}})
      BY <3>4
    <3> QED
      BY <2>1, <3>1, <3>5 DEF AdviceIsGrounded, Grounded
  <2> QED
    BY <2>2, <2>3, RisksFollowRows DEF SignalsComplete
<1> QED
  BY <1>1, SignalsInit, SignalsInductive, PTL DEF Spec

=============================================================================
