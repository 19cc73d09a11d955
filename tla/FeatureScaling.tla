--------------------------- MODULE FeatureScaling ---------------------------
(***************************************************************************)
(* MixedRobustPreprocessor of core/benchmark_utils/data_transform.py, the  *)
(* scaler of the prepared bundles, as _export_mode_manifest uses it.  fit  *)
(* gives one column after the other a kind and names the columns it will   *)
(* put out, then walks over them once more to plan where each comes from   *)
(* and goes to; transform handles the columns of one kind together, by     *)
(* these plans, and treats what is extreme in them.                        *)
(*                                                                         *)
(* What the statistics say of a column and the numbers of scaling are      *)
(* left open: a cell that comes out is named by the column it was made of, *)
(* the row whose value it has, and what was done with it.  That all rows   *)
(* of a batch, whatever sequences they belong to, are filled as one column *)
(* is how _transform_feature_batch calls transform.                        *)
(***************************************************************************)
EXTENDS Integers, SequencesExt, FiniteSetsExt

CONSTANTS Shapes   \* bound: the numbers of rows and columns, as pairs

ASSUME ShapeAssumption == Shapes \subseteq (Nat \ {0}) \X (Nat \ {0})

VARIABLES scaling,       \* "unfitted", "naming", "planning", "fitted", "transformed"
          shape,         \* <<rows, columns>>
          extremeAction, \* extreme_action: "none", "nan", "ffill"
          indicators,    \* zero_inflated_add_indicator
          columns,       \* feature_names_in_
          feature,       \* the one of them that fit is at, by its place
          output,        \* output_index: the place of the next output
          kind,          \* of each of them, the kind of its policy
          names,         \* feature_names_out_, as <<column, role>>
          plans,         \* of each kind: where its columns come from and go to
          zeroPlan,      \* the same of the indicators
          cells,         \* the batch: "plain", "odd" or "hole" (NaN)
          testMode,      \* the exported mode is the test
          out            \* what transform returns

fitVars == <<extremeAction, indicators, columns, feature, output, kind, names, plans, zeroPlan>>
scalingVars == <<scaling, shape, fitVars, cells, testMode, out>>

Kinds == {"almost_constant", "zero_inflated", "extreme_vals", "robust"}

NoPlan == [in |-> <<>>, out |-> <<>>]
NaN == <<"NaN">>
Unset == <<"unset">>  \* what np.empty happens to return

Height == shape[1]
Width == shape[2]

ScalingInit ==
  /\ scaling = "unfitted"
  /\ shape \in Shapes
  /\ extremeAction \in {"none", "nan", "ffill"}
  /\ indicators \in BOOLEAN
  /\ columns = <<>> /\ feature = 1 /\ output = 1
  /\ kind = <<>> /\ names = <<>>
  /\ plans = [k \in Kinds |-> NoPlan] /\ zeroPlan = NoPlan
  /\ cells = <<>> /\ testMode = FALSE /\ out = <<>>

----------------------------------------------------------------------------
\* fit, and the walk of _build_transform_plans at its end

Increasing(s) == \A i, j \in DOMAIN s : i < j => s[i] < s[j]

\* _select_columns leaves out the columns that are to be dropped.
SelectColumns ==
  /\ scaling = "unfitted"
  /\ \E n \in 1 .. Width : columns' \in {s \in [1 .. n -> 1 .. Width] : Increasing(s)}
  /\ scaling' = "naming"
  /\ UNCHANGED <<shape, extremeAction, indicators, feature, output, kind, names, plans, zeroPlan,
                 cells, testMode, out>>

\* What the report says of a column decides its kind, the first that applies:
\* the zero-inflated columns leave out the constant ones.
KindOf(report) ==
  IF report.zeros /\ ~ report.constant THEN "zero_inflated"
  ELSE IF report.constant THEN "almost_constant"
  ELSE IF report.extreme THEN "extreme_vals"
  ELSE "robust"

Shown(k) == k = "zero_inflated" /\ indicators

NamesOf(column, k) ==
  IF Shown(k) THEN <<<<column, "is_nonzero">>, <<column, "value">>>> ELSE <<<<column, "value">>>>

\* To the next column, or to what follows the loop
NextFeature(here, after) ==
  IF feature = Len(columns)
  THEN feature' = 1 /\ scaling' = after
  ELSE feature' = feature + 1 /\ scaling' = here

NameColumn ==
  /\ scaling = "naming"
  /\ \E report \in [zeros : BOOLEAN, constant : BOOLEAN, extreme : BOOLEAN] :
       /\ kind' = Append(kind, KindOf(report))
       /\ names' = names \o NamesOf(columns[feature], KindOf(report))
  /\ NextFeature("naming", "planning")
  /\ UNCHANGED <<shape, extremeAction, indicators, columns, output, plans, zeroPlan, cells, testMode, out>>

PlanOn(plan, from, to) == [in |-> Append(plan.in, from), out |-> Append(plan.out, to)]

\* Mutant: the indicator takes no place of its own.
PlanColumnOver ==
  /\ scaling = "planning"
  /\ LET k == kind[feature]
     IN  /\ plans' = [plans EXCEPT ![k] = PlanOn(plans[k], feature, output)]
         /\ zeroPlan' = IF Shown(k) THEN PlanOn(zeroPlan, Len(plans[k].in) + 1, output) ELSE zeroPlan
         /\ output' = output + 1
  /\ NextFeature("planning", "fitted")
  /\ UNCHANGED <<shape, extremeAction, indicators, columns, kind, names, cells, testMode, out>>

\* The indicators are listed by their place in the group of the zero-inflated
\* columns.
PlanColumn ==
  /\ scaling = "planning"
  /\ LET k     == kind[feature]
         place == IF Shown(k) THEN output + 1 ELSE output
     IN  /\ plans' = [plans EXCEPT ![k] = PlanOn(plans[k], feature, place)]
         /\ zeroPlan' = IF Shown(k) THEN PlanOn(zeroPlan, Len(plans[k].in) + 1, output) ELSE zeroPlan
         /\ output' = place + 1
  /\ NextFeature("planning", "fitted")
  /\ UNCHANGED <<shape, extremeAction, indicators, columns, kind, names, cells, testMode, out>>

----------------------------------------------------------------------------
\* In a column of the given kind an odd cell is extreme, or zero, or nothing
\* special.  NaN stays what it is.
Selected(x, r, f) == IF x[r][columns[f]] = "hole" THEN NaN ELSE <<columns[f], r>>

Odd(x, r, f) == x[r][columns[f]] = "odd"

\* _forward_backward_fill_nan_matrix on one column: each cell from the last
\* row up to its own that is filled, else the first row; then, where that is
\* empty too, from the next row that is filled, else the last row.
ForwardFill(column) ==
  [r \in 1 .. Height |-> column[Max({1} \cup {q \in 1 .. r : column[q] # NaN})]]

BackwardFill(column) ==
  [r \in 1 .. Height |-> column[Min({Height} \cup {q \in r .. Height : column[q] # NaN})]]

\* _apply_extreme_action_matrix on a column f of the extreme ones: as it is,
\* or without what is extreme, or filled
Raw(x, f) == [r \in 1 .. Height |-> Selected(x, r, f)]

Masked(x, f) == [r \in 1 .. Height |-> IF Odd(x, r, f) THEN NaN ELSE Selected(x, r, f)]

AnyMasked(x) == \E r \in 1 .. Height, i \in DOMAIN plans["extreme_vals"].in :
                  Odd(x, r, plans["extreme_vals"].in[i])

TreatExtremes(x, action, f) ==
  IF action = "none" \/ ~ AnyMasked(x) THEN Raw(x, f)
  ELSE IF action = "nan" THEN Masked(x, f)
  ELSE BackwardFill(ForwardFill(Masked(x, f)))

\* _transform_selected_array: group after group is put at its output places.
\* The indicators are computed from the unscaled cells.
Value(x, action, k, f, r) ==
  IF k = "extreme_vals" THEN TreatExtremes(x, action, f)[r] ELSE Selected(x, r, f)

Done(k) == IF k = "almost_constant" THEN "centered" ELSE "scaled"

GroupCells(x, action, k, r) ==
  {<<plans[k].out[i], <<Done(k), Value(x, action, k, plans[k].in[i], r)>>>> : i \in DOMAIN plans[k].in}

Indicator(x, f, r) == <<"nonzero", columns[f], Selected(x, r, f) # NaN /\ ~ Odd(x, r, f)>>

IndicatorCells(x, r) ==
  {<<zeroPlan.out[i], Indicator(x, plans["zero_inflated"].in[zeroPlan.in[i]], r)>>
     : i \in DOMAIN zeroPlan.in}

RowCells(x, action, r) ==
  IndicatorCells(x, r) \cup UNION {GroupCells(x, action, k, r) : k \in Kinds}

Placed(row, place) ==
  IF \E c \in row : c[1] = place THEN (CHOOSE c \in row : c[1] = place)[2] ELSE Unset

Transformed(x, action) ==
  [r \in 1 .. Height |-> [place \in DOMAIN names |-> Placed(RowCells(x, action, r), place)]]

\* The mode scaler of the test has its extreme action switched off.
ModeAction(test) == IF test THEN "none" ELSE extremeAction

Transform ==
  /\ scaling = "fitted"
  /\ cells' \in [1 .. Height -> [1 .. Width -> {"plain", "odd", "hole"}]]
  /\ testMode' \in BOOLEAN
  /\ out' = Transformed(cells', ModeAction(testMode'))
  /\ scaling' = "transformed"
  /\ UNCHANGED <<shape, fitVars>>

ScalingNext == SelectColumns \/ NameColumn \/ PlanColumn \/ Transform

ScalingSpec == ScalingInit /\ [][ScalingNext]_scalingVars

----------------------------------------------------------------------------
KindOfColumn(c) == kind[CHOOSE f \in DOMAIN columns : columns[f] = c]

IsExtreme(r, c) == KindOfColumn(c) = "extreme_vals" /\ cells[r][c] = "odd"

\* The rows of column c that keep a value of their own
Kept(c) == {r \in 1 .. Height : cells[r][c] # "hole" /\ ~ IsExtreme(r, c)}

\* Where the value of row r comes from: the nearest kept row before it, or
\* else the nearest after it
SourceRow(r, c) ==
  CHOOSE q \in Kept(c) :
    IF \E p \in Kept(c) : p <= r
    THEN q <= r /\ \A p \in Kept(c) : p <= r => p <= q
    ELSE \A p \in Kept(c) : q <= p

OwnCell(r, c) == IF cells[r][c] = "hole" THEN NaN ELSE <<c, r>>

FilledCell(r, c) == IF Kept(c) = {} THEN NaN ELSE <<c, SourceRow(r, c)>>

TreatedCell(r, c) ==
  IF \/ KindOfColumn(c) # "extreme_vals" \/ testMode \/ extremeAction = "none"
     \/ ~ \E q \in 1 .. Height, d \in ToSet(columns) : IsExtreme(q, d)
  THEN OwnCell(r, c)
  ELSE IF extremeAction = "nan"
  THEN IF IsExtreme(r, c) THEN NaN ELSE OwnCell(r, c)
  ELSE FilledCell(r, c)

\* Every column that is put out holds what its name says: the indicator or the
\* scaled values of that column of the input, however the columns are grouped
\* and whatever was dropped.  An extreme value is replaced by the nearest one
\* that is neither extreme nor missing, earlier before later, and never in the
\* test; so are the missing values of these columns, but only in a batch in
\* which some column has an extreme one.
ScaledByName ==
  scaling = "transformed" =>
    \A r \in 1 .. Height, place \in DOMAIN names :
      LET c == names[place][1]
      IN  out[r][place] =
            IF names[place][2] = "is_nonzero" THEN <<"nonzero", c, cells[r][c] = "plain">>
            ELSE <<IF KindOfColumn(c) = "almost_constant" THEN "centered" ELSE "scaled",
                   TreatedCell(r, c)>>
=============================================================================
