----------------------------- MODULE Postprocess -----------------------------
(***************************************************************************)
(* postprocess and the dispatch of postprocessor: from the sums of the     *)
(* leaves of a row to its outputs.                                         *)
(*                                                                         *)
(* A number is an integer, one of the infinities or NaN.  A value is a     *)
(* function applied to a number; what exp and its kin return is not        *)
(* computed, but it is ordered, and multiplied and added to as floating    *)
(* point is: 0 * inf is NaN, and NaN is neither greater nor less.          *)
(***************************************************************************)
EXTENDS Integers, Sequences, SequencesExt

Infinity == 1000000
NaN      == 2000000
Lowest   == -999999      \* numeric_limits::lowest(), below every finite number

RowOps  == {"disable", "softmax", "max_index"}
ElemOps == {"disable", "signed_square", "hinge", "sigmoid", "exponential",
            "logarithm_one_plus_exp"}

(* A formula's constant is "one", "sigmoid_alpha" or, in place of -ratio_c / log 2,
   "minus_ratio_c_over_log_2"; exp(x / c) falls where c is negative. *)
Result(fn, of, constant) == [fn |-> fn, of |-> of, constant |-> constant]
Number(x) == Result("disable", x, "one")
Untouched == Result("untouched", 0, "one")

IsNaN(v) == v.of = NaN
IsInfinite(v) ==
  CASE v.fn \in {"disable", "signed_square"} -> v.of \in {Infinity, -Infinity}
    [] v.fn \in {"exponential", "logarithm_one_plus_exp"} ->
         v.of = IF v.constant = "minus_ratio_c_over_log_2" THEN -Infinity ELSE Infinity
    [] OTHER -> FALSE
IsLowest(v) == v = Number(Lowest)

(* The order of values of one function; hinge has been computed. *)
Rank(v) == IF v.constant = "minus_ratio_c_over_log_2" THEN -v.of ELSE v.of

Greater(v, w) ==
  /\ ~IsNaN(v) /\ ~IsNaN(w)
  /\ IF IsLowest(w)
     THEN ~(IsInfinite(v) /\ v.of = -Infinity /\ v.fn \in {"disable", "signed_square"})
     ELSE Rank(v) > Rank(w)

(* flag * v and the sum of two products of which at most one is not 0 or NaN *)
Times(flag, v) == IF flag THEN v
                  ELSE IF IsNaN(v) \/ IsInfinite(v) THEN Number(NaN) ELSE Number(0)
PlusValue(v, w) == IF IsNaN(v) \/ IsNaN(w) THEN Number(NaN)
                   ELSE IF v = Number(0) THEN w ELSE v

(* A number divided by the average factor, as a fraction *)
Divide(x, factor) ==
  IF x \in {Infinity, -Infinity, NaN} THEN x ELSE (x * factor.outputs) \div factor.trees
AddNumber(x, y) ==
  IF x \in {Infinity, -Infinity, NaN} THEN x ELSE x + y

Element(op, x, constant) ==
  CASE op = "disable" -> Number(x)
    [] op = "hinge"   -> Number(IF x # NaN /\ x > 0 THEN 1 ELSE 0)
    [] OTHER          -> Result(op, x, constant)

IsNewMax(v, max_value) == Greater(v, max_value)

(* One step of the first loop for softmax and max_index; outputs count from 0. *)
Compare(best, v) ==
  LET is_new_max == IsNewMax(v, best.max_value)
  IN  [output_index |-> best.output_index + 1,
       max_index |-> IF is_new_max THEN best.output_index ELSE best.max_index,
       max_value |-> PlusValue(Times(is_new_max, v), Times(~is_new_max, best.max_value))]

NoBest == [output_index |-> 0, max_index |-> 0, max_value |-> Number(Lowest)]
BestOf(vals) ==
  LET best[i \in 0 .. Len(vals)] ==
        IF i = 0 THEN NoBest ELSE Compare(best[i - 1], vals[i])
  IN  best[Len(vals)]

(* exp(v - max) over the sum of exp(w - max) for every w of vals *)
Share(v, max, vals) == [share |-> v, max |-> max, among |-> vals]

(* bias[output_index * use_bias] * use_bias *)
BiasOf(bias, i, default_kind) == IF default_kind THEN bias[i] ELSE 0 * bias[1]

(* postprocess: the row out once the row val has been processed; p is the
   postprocessor.  max_index writes the first output only. *)
Postprocessed(p, default_kind, val, bias, out) ==
  LET vals == [i \in DOMAIN val |->
                 Element(p.elem, AddNumber(Divide(val[i], p.average_factor),
                                           BiasOf(bias, i, default_kind)), p.constant)]
      best == BestOf(vals)
  IN  CASE p.row = "max_index" -> [out EXCEPT ![1] = Number(best.max_index)]
        [] p.row = "softmax"   -> [i \in DOMAIN val |-> Share(vals[i], best.max_value, vals)]
        [] p.row = "disable"   -> vals

(* The postprocessor constructed by default *)
NoPostprocessor ==
  [row |-> "disable", elem |-> "disable",
   average_factor |-> [trees |-> 1, outputs |-> 1], constant |-> "one"]

(* The value a combination of operations has in the dispatch: each is a bit
   of its own, so the combinations are told apart by the union of the bits. *)
OpsToVal(row, elem) == {row, elem} \ {"disable"}

(* The switch of postprocessor::operator(): every combination that is not
   listed, which is only the one of two disabled operations, takes the default. *)
Dispatched(row, elem) ==
  LET listed == {[row |-> r, elem |-> e] : r \in RowOps, e \in ElemOps}
                  \ {[row |-> "disable", elem |-> "disable"]}
  IN  IF \E c \in listed : OpsToVal(c.row, c.elem) = OpsToVal(row, elem)
      THEN CHOOSE c \in listed : OpsToVal(c.row, c.elem) = OpsToVal(row, elem)
      ELSE [row |-> "disable", elem |-> "disable"]

Apply(p, default_kind, val, bias, out) ==
  Postprocessed([p EXCEPT !.row = Dispatched(p.row, p.elem).row,
                          !.elem = Dispatched(p.row, p.elem).elem],
                default_kind, val, bias, out)
=============================================================================
