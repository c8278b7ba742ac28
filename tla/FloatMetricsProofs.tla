------------------------- MODULE FloatMetricsProofs -------------------------
(***************************************************************************)
(* What Python's min and max find among the positions of a sequence: a     *)
(* least element of a set of natural numbers, and from it a least key and  *)
(* the position First selects.                                             *)
(***************************************************************************)
EXTENDS FloatMetrics, WellFoundedInduction, TLAPS

\* A set of natural numbers that is not empty has a least element.
LEMMA LeastExists ==
  ASSUME NEW T \in SUBSET Nat, T # {}
  PROVE  \E x \in T : \A y \in T : x <= y
<1>1. IsWellFoundedOn(OpToRel(<, Nat), Nat)
  BY NatLessThanWellFounded
<1>2. \E x \in T : \A y \in T : ~ (<<y, x>> \in OpToRel(<, Nat))
  BY <1>1, WFMin, Zenon
<1>3. PICK x \in T : \A y \in T : ~ (<<y, x>> \in OpToRel(<, Nat))
  BY <1>2
<1>4. \A y \in T : ~ (y < x)
  BY <1>3 DEF OpToRel
<1> QED
  BY <1>4

\* Min and Max of positions of a sequence.
LEMMA MinOfPositions ==
  ASSUME NEW S \in SUBSET Nat, S # {}
  PROVE  Min(S) \in S /\ \A y \in S : Min(S) <= y
<1>1. PICK x \in S : \A y \in S : x <= y
  BY LeastExists
<1> QED
  BY <1>1 DEF Min

LEMMA MaxOfPositions ==
  ASSUME NEW n \in Nat, NEW S \in SUBSET 1..n, S # {}
  PROVE  Max(S) \in S /\ \A y \in S : Max(S) >= y
<1> DEFINE T == {m \in Nat : \A y \in S : y <= m}
<1>1. n \in T
  OBVIOUS
<1>2. PICK m \in T : \A x \in T : m <= x
  <2>1. T \in SUBSET Nat /\ T # {}
    BY <1>1
  <2> HIDE DEF T
  <2> QED
    BY <2>1, LeastExists
<1>3. m \in S
  <2>1. SUFFICES ASSUME m \notin S PROVE FALSE
    OBVIOUS
  <2>2. \A y \in S : y <= m - 1
    BY <2>1, <1>2
  <2>3. PICK y \in S : y <= m - 1
    BY <2>2
  <2>4. m - 1 \in T
    BY <2>2, <2>3, <1>2
  <2> QED
    BY <2>4, <1>2
<1>4. \A y \in S : m >= y
  BY <1>2
<1> QED
  BY <1>3, <1>4 DEF Max

\* Among positions with numbers as keys, one has the least.
LEMMA LeastKey ==
  ASSUME NEW n \in Nat, NEW P \in SUBSET 1..n, P # {}, NEW key, \A k \in P : key[k] \in Int
  PROVE  \E k \in P : \A j \in P : key[k] <= key[j]
<1> DEFINE Upto(m) == {k \in P : k <= m}
           Has(m) == \E k \in Upto(m) : \A j \in Upto(m) : key[k] <= key[j]
           N == {m \in Nat : Upto(m) # {} /\ ~Has(m)}
<1>0. \A k \in P : k \in Nat /\ k > 0 /\ k <= n
  OBVIOUS
<1>1. Upto(n) = P
  BY <1>0
<1>2. SUFFICES ASSUME n \in N PROVE FALSE
  BY <1>1
<1>3. PICK m \in N : \A x \in N : m <= x
  <2>1. N \in SUBSET Nat /\ N # {}
    BY <1>2
  <2> HIDE DEF N
  <2> QED
    BY <2>1, LeastExists
<1>4. m \in Nat /\ Upto(m) # {} /\ ~Has(m)
  BY <1>3
<1>5. m > 0
  <2>1. PICK k \in P : k <= m
    BY <1>4
  <2> QED
    BY <1>0, <1>4, <2>1
<1>6. m - 1 \in Nat /\ m - 1 \notin N
  BY <1>3, <1>4, <1>5
<1>7. Upto(m - 1) = {} \/ Has(m - 1)
  BY <1>6
<1>8. \A k \in P : k <= m <=> k <= m - 1 \/ k = m
  BY <1>0, <1>4
<1>9. Upto(m) = Upto(m - 1) \/ (m \in Upto(m) /\ Upto(m) = Upto(m - 1) \cup {m})
  <2>1. CASE m \in P
    BY <1>4, <1>8, <2>1
  <2>2. CASE m \notin P
    BY <1>8, <2>2
  <2> QED
    BY <2>1, <2>2
<1>10. \A k \in Upto(m) : key[k] \in Int
  OBVIOUS
<1>11. CASE Upto(m) = Upto(m - 1)
  <2>1. Has(m - 1)
    BY <1>4, <1>7, <1>11
  <2>2. Has(m)
    BY <1>11, <2>1
  <2> QED
    BY <1>4, <2>2
<1>12. CASE m \in Upto(m) /\ Upto(m) = Upto(m - 1) \cup {m}
  <2>1. CASE Upto(m - 1) = {}
    <3>1. Upto(m) = {m}
      BY <1>12, <2>1
    <3>2. \A j \in {m} : key[m] <= key[j]
      BY <1>10, <1>12
    <3> HIDE DEF Upto
    <3>3. Has(m)
      BY <3>1, <3>2
    <3> QED
      BY <1>4, <3>3
  <2>2. CASE Has(m - 1)
    <3>1. PICK k \in Upto(m - 1) : \A j \in Upto(m - 1) : key[k] <= key[j]
      BY <2>2
    <3> HIDE DEF Upto
    <3>2. key[k] \in Int /\ key[m] \in Int /\ \A j \in Upto(m - 1) : key[j] \in Int
      BY <1>10, <1>12, <3>1
    <3>3. CASE key[m] < key[k]
      <4>1. \A j \in Upto(m) : key[m] <= key[j]
        BY <1>12, <3>1, <3>2, <3>3
      <4>2. Has(m)
        BY <1>12, <4>1
      <4> QED
        BY <1>4, <4>2
    <3>4. CASE ~(key[m] < key[k])
      <4>1. \A j \in Upto(m) : key[k] <= key[j]
        BY <1>12, <3>1, <3>2, <3>4
      <4>2. Has(m)
        BY <1>12, <3>1, <4>1
      <4> QED
        BY <1>4, <4>2
    <3> QED
      BY <3>3, <3>4
  <2> QED
    BY <1>7, <2>1, <2>2
<1> QED
  BY <1>9, <1>11, <1>12

\* What Python's min finds: none of no positions, else a position whose key is
\* not a number or no other key is below.
LEMMA FirstIs ==
  ASSUME NEW n \in Nat, NEW P \in SUBSET 1..n, NEW key, \A k \in P : key[k] \in Int
  PROVE  /\ P = {} => First(P, key) = 0
         /\ P # {} =>
              /\ First(P, key) \in P
              /\ key[Min(P)] = NotANumber => key[First(P, key)] = NotANumber
              /\ key[Min(P)] # NotANumber =>
                   /\ key[First(P, key)] # NotANumber
                   /\ \A j \in P : key[j] # NotANumber => key[First(P, key)] <= key[j]
<1> DEFINE Q == {k \in P : key[k] # NotANumber}
           L == {k \in P : key[k] # NotANumber /\ \A j \in P : ~Below(key[j], key[k])}
<1>1. P = {} => First(P, key) = 0
  BY DEF First
<1>2. ASSUME P # {}
      PROVE  /\ First(P, key) \in P
             /\ key[Min(P)] = NotANumber => key[First(P, key)] = NotANumber
             /\ key[Min(P)] # NotANumber =>
                  /\ key[First(P, key)] # NotANumber
                  /\ \A j \in P : key[j] # NotANumber => key[First(P, key)] <= key[j]
  <2>1. Min(P) \in P
    BY <1>2, MinOfPositions
  <2>2. CASE key[Min(P)] = NotANumber
    BY <1>2, <2>1, <2>2 DEF First
  <2>3. CASE key[Min(P)] # NotANumber
    <3>1. Q \in SUBSET 1..n /\ Q # {} /\ \A k \in Q : key[k] \in Int
      BY <2>1, <2>3
    <3>2. PICK k \in Q : \A j \in Q : key[k] <= key[j]
      <4> HIDE DEF Q
      <4> QED
        BY <3>1, LeastKey
    <3>3. \A j \in P : ~Below(key[j], key[k])
      BY <3>2 DEF Below
    <3>4. k \in L /\ L \in SUBSET Nat
      <4>1. k \in P /\ key[k] # NotANumber
        BY <3>2
      <4>2. k \in L
        BY <3>3, <4>1
      <4>3. L \in SUBSET P /\ P \in SUBSET Nat
        OBVIOUS
      <4> HIDE DEF L
      <4> QED
        BY <4>2, <4>3
    <3>5. Min(L) \in L
      <4> HIDE DEF L
      <4> QED
        BY <3>4, MinOfPositions
    <3>6. First(P, key) = Min(L)
      BY <1>2, <2>3 DEF First
    <3>7. First(P, key) \in L
      BY <3>5, <3>6
    <3>8. \A j \in P : key[j] # NotANumber => key[First(P, key)] <= key[j]
      <4>1. /\ First(P, key) \in P /\ key[First(P, key)] # NotANumber
            /\ \A j \in P : ~Below(key[j], key[First(P, key)])
        BY <3>7
      <4>2. key[First(P, key)] \in Int
        BY <4>1
      <4> QED
        BY <4>1, <4>2 DEF Below
    <3>9. First(P, key) \in P /\ key[First(P, key)] # NotANumber
      BY <3>7
    <3> QED
      BY <2>3, <3>8, <3>9
  <2> QED
    BY <2>2, <2>3
<1> QED
  BY <1>1, <1>2

=============================================================================
