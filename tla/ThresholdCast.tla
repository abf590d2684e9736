--------------------------- MODULE ThresholdCast ---------------------------
(***************************************************************************)
(* A node keeps every numeric test as "less than a threshold": a threshold *)
(* of an inclusive test is moved up by one representable value, and a      *)
(* threshold may first have to be narrowed from double to float, which     *)
(* rounds it.  Both steps change the number that is stored; neither may    *)
(* change the outcome of a comparison.                                     *)
(*                                                                         *)
(* A floating-point type is a function from the positions of its values in *)
(* ascending order, 1 .. size, to the integers that stand for the values.  *)
(* The first and the last are -inf and +inf.  Nodes and inputs hold        *)
(* positions.                                                              *)
(***************************************************************************)
EXTENDS Integers

CONSTANTS
  FloatSize, Float,     \* number of values of float, and the values
  DoubleSize, Double    \* the same for double

Ascending(T, n) == \A i, j \in 1 .. n : i < j => T[i] < T[j]

ASSUME TypesAssumption ==
  /\ FloatSize \in Nat \ {0, 1} /\ DoubleSize \in Nat \ {0, 1}
  /\ Float  \in [1 .. FloatSize -> Int]  /\ Ascending(Float, FloatSize)
  /\ Double \in [1 .. DoubleSize -> Int] /\ Ascending(Double, DoubleSize)
  /\ Float[1] = Double[1] /\ Float[FloatSize] = Double[DoubleSize]

(* The threshold type of a forest *)
Size(double)  == IF double THEN DoubleSize ELSE FloatSize
Value(double) == IF double THEN Double ELSE Float

(* The thresholds of models: values of double, those of float among them. *)
Thresholds == {Double[p] : p \in 1 .. DoubleSize}

(* std::nextafter towards one infinity or the other; an infinity stays. *)
NextUp(p, n) == IF p = n THEN p ELSE p + 1
NextDown(p)  == IF p = 1 THEN p ELSE p - 1

(* static_cast of the threshold x: one of the values next to x, whichever
   way the conversion rounds, and x itself where the type has it. *)
Rounded(double, x) ==
  LET n == Size(double)
      T == Value(double)
  IN  {p \in 1 .. n : /\ p > 1 => T[p - 1] < x
                      /\ p < n => x < T[p + 1]
                      /\ \A q \in 1 .. n : T[q] = x => q = p}

(* Mutant of Narrowed: a threshold stays where the conversion rounded it. *)
NarrowedAsConverted(p, x, inclusive) == p

(* cast_threshold, once the conversion to float has given position p *)
Narrowed(p, x, inclusive) ==
  IF inclusive /\ Float[p] > x THEN NextDown(p)
  ELSE IF ~inclusive /\ Float[p] < x THEN NextUp(p, FloatSize)
  ELSE p

(* nextafter of add_node *)
Raised(p, n, inclusive) == IF inclusive THEN NextUp(p, n) ELSE p

(* Where the threshold x of a test can end up in a node *)
Stored(double, x, inclusive) ==
  {Raised(IF double THEN p ELSE Narrowed(p, x, inclusive), Size(double), inclusive) :
     p \in Rounded(double, x)}

(* The test of the model on an input, and the test of the node *)
ModelTest(double, v, x, inclusive) ==
  IF inclusive THEN Value(double)[v] <= x ELSE Value(double)[v] < x
NodeTest(v, stored) == v < stored

(* The one input that is told apart: an infinite value against an inclusive
   test whose threshold is infinite, where nextafter has nowhere to go. *)
AtInfinity(double, v, x, inclusive) ==
  inclusive /\ v = Size(double) /\ x = Value(double)[v]
=============================================================================
