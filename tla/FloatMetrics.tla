---------------------------- MODULE FloatMetrics ----------------------------
(***************************************************************************)
(* Metrics as Python compares them.  Small integers stand for decibels or  *)
(* losses, NoMetric for a missing value and NotANumber for a diverged      *)
(* model's.  Operators only.                                               *)
(***************************************************************************)
EXTENDS Integers, FiniteSets, FiniteSetsExt

NoMetric == 1000
NotANumber == 2000

\* Python's < on floats: false when either side is not a number.
Below(x, y) == x # NotANumber /\ y # NotANumber /\ x < y

\* Python's min over the positions P, by key: a first key that is not a number
\* is never replaced, otherwise the first of the least numbers.
First(P, key) ==
  IF P = {} THEN 0
  ELSE IF key[Min(P)] = NotANumber THEN Min(P)
  ELSE Min({k \in P : key[k] # NotANumber /\ \A j \in P : ~Below(key[j], key[k])})
=============================================================================
