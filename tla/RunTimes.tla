------------------------------ MODULE RunTimes ------------------------------
(***************************************************************************)
(* The run time a job may ask for.  A time is the sequence of its digits,  *)
(* HH:MM:SS without the colons; the queue has the longest time it allows.  *)
(* The form turns that maximum into a regular expression, position by      *)
(* position, and compares nothing.                                         *)
(***************************************************************************)
EXTENDS Integers, Sequences

Digit == 0..9
Place == 1..6
Time == {t \in Seq(Digit) : Len(t) = 6}

\* The largest digit the expression knows at each place of its own accord.
regBase == <<4, 9, 5, 9, 5, 9>>

Within(t, upper) == \A i \in Place : t[i] <= upper[i]

\* One alternative per place i with a digit above zero: up to the digits of
\* the maximum before it, less than its digit there, anything after it.
(* Faulty: up to the digit of the maximum, not below it. *)
BelowEqual(max, i) ==
    [j \in Place |-> IF j <= i THEN max[j] ELSE regBase[j]]
Below(max, i) ==
    [j \in Place |-> IF j < i THEN max[j] ELSE IF j = i THEN max[i] - 1
                     ELSE regBase[j]]

LastSix(t) == SubSeq(t, Len(t) - 5, Len(t))

\* The last alternative, the maximum itself, is not tied to the beginning of
\* the entry, so that only its last six digits are read. A maximum of zero
\* makes none of the other alternatives and leaves the bare beginning of the
\* expression, which is in every entry.
createMaxRunTimeRegex(max, t) ==
    \/ \A i \in Place : max[i] = 0
    \/ /\ Len(t) = 6
       /\ \E i \in Place : i < Len(max) /\ max[i] > 0 /\ Within(t, Below(max, i))
    \/ Len(t) >= 6 /\ Within(LastSix(t), max)

\* What is meant: the first digit that differs from the maximum is smaller.
Fits(t, max) ==
    \A i \in Place : (\A j \in 1..(i - 1) : t[j] = max[j]) => t[i] <= max[i]
=============================================================================
