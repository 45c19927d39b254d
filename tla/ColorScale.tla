----------------------------- MODULE ColorScale -----------------------------
(***************************************************************************)
(* The colours of the county map: a variable with its least and its        *)
(* greatest value m is cut into up to six classes, one of the colours for  *)
(* each, and the legend has a line for every class.  A value is a whole    *)
(* number of parts of which One make one, so that a value of the program   *)
(* with a fraction is one that One does not divide.                        *)
(***************************************************************************)
EXTENDS Integers

CONSTANT One    \* how many parts make one

Whole(v) == v % One = 0

numberPossibleClasses(m) == (m.max - m.min) \div One + 1

\* Few whole numbers, or one number only, get a class each.
singleValueClasses(m) ==
    /\ m.min = m.max \/ (Whole(m.min) /\ Whole(m.max))
    /\ numberPossibleClasses(m) <= 6

numberIntervals(m) == IF singleValueClasses(m) THEN numberPossibleClasses(m) ELSE 6

\* The class of a value, an index of the colours and of the legend.
(* Faulty: the greatest value has a class of its own. *)
getColorUnbounded(m, v) ==
    IF numberIntervals(m) = 1 THEN 0
    ELSE (numberIntervals(m) * (v - m.min)) \div (m.max - m.min)
getColor(m, v) ==
    LET n == numberIntervals(m)
        bin == (n * (v - m.min)) \div (m.max - m.min)
    IN IF n = 1 THEN 0 ELSE IF bin < n - 1 THEN bin ELSE n - 1

\* The number the legend gives for class i when a class is a number.
intervalLabel(m, i) == m.min + i * One

\* Value v is of class i of the legend.  Where a class is a number, another
\* than a whole value is put with a number less than one away from it;
\* otherwise v lies between the two limits of the class.
InClass(m, v, i) ==
    IF singleValueClasses(m)
    THEN /\ v < intervalLabel(m, i) + One
         /\ intervalLabel(m, i) < v + One
         /\ (\E k \in 0..5 : v = intervalLabel(m, k)) => v = intervalLabel(m, i)
    ELSE /\ i * (m.max - m.min) <= numberIntervals(m) * (v - m.min)
         /\ numberIntervals(m) * (v - m.min) <= (i + 1) * (m.max - m.min)

Legend(m) == 0..(numberIntervals(m) - 1)
=============================================================================
