------------------------ MODULE OuterIterationMonitorProofs ------------------------
(***************************************************************************)
(* What the monitor of the outer iterations decides, proved for any        *)
(* residuals, tolerances, windows and settings: its ring buffers hold what *)
(* the solve has seen, its verdict is the one the whole history of         *)
(* residuals gives, and it drives the relaxation controller only in ways   *)
(* the controller's own specification allows.                              *)
(***************************************************************************)
EXTENDS OuterIterationMonitor, WellFoundedInduction, FiniteSetTheorems, TLAPS

--------------------------------------------------------------------------------
(* Numbers, and the least and the largest of a set of them.                *)

\* Every set of natural numbers that is not empty has a least one.
LEMMA LeastNatural ==
  ASSUME NEW T \in SUBSET Nat, T # {}
  PROVE  \E x \in T : \A y \in T : x <= y
<1>1. PICK x \in T : \A y \in T : <<y, x>> \notin OpToRel(<, Nat)
  BY NatLessThanWellFounded, WFMin
<1>2. \A y \in T : ~(y < x)
  BY <1>1 DEF OpToRel
<1> QED BY <1>2

\* Min and Max are what they are called, wherever there is such a member.
LEMMA MinIsLeast ==
  ASSUME NEW T \in SUBSET Int, NEW x \in T, \A y \in T : x <= y
  PROVE  Min(T) = x
<1>1. \E m \in T : \A y \in T : m <= y
  OBVIOUS
<1>2. Min(T) \in T /\ \A y \in T : Min(T) <= y
  BY <1>1 DEF Min
<1>3. Min(T) \in Int /\ Min(T) <= x /\ x <= Min(T)
  BY <1>2
<1> QED BY <1>3

\* The same of Max.
LEMMA MaxIsLargest ==
  ASSUME NEW T \in SUBSET Int, NEW x \in T, \A y \in T : y <= x
  PROVE  Max(T) = x
<1>1. \E m \in T : \A y \in T : m >= y
  OBVIOUS
<1>2. Max(T) \in T /\ \A y \in T : Max(T) >= y
  BY <1>1 DEF Max
<1>3. Max(T) \in Int /\ Max(T) <= x /\ x <= Max(T)
  BY <1>2
<1> QED BY <1>3

\* A ratio rounded up is within one exactly when the value is within the limit.
LEMMA RatioWithinOne ==
  ASSUME NEW v \in Nat, NEW l \in Nat \ {0}
  PROVE  Ratio(v, l) \in Nat /\ (Ratio(v, l) <= Scale <=> v <= l)
<1> DEFINE a == Scale * v + l - 1
<1> Scale \in Nat \ {0}
  BY MonitorAssumption
<1>1. Scale * v \in Nat
  BY DEF a
<1>2. a \in Nat
  BY <1>1
<1>3. PICK r \in Nat : r = a \div l /\ l * r <= a /\ a < l * (r + 1)
  BY <1>2
<1> QED BY <1>2, <1>3 DEF Ratio

\* A remainder without a division.
LEMMA ModOnce ==
  ASSUME NEW c \in Nat \ {0}, NEW x \in Int
  PROVE  /\ x \in 0 .. c - 1 => x % c = x
         /\ x \in c .. 2*c - 1 => x % c = x - c
OBVIOUS

\* The lesser and the greater of two numbers.
LEMMA MinPair ==
  ASSUME NEW a \in Int, NEW b \in Int
  PROVE  Min({a, b}) = IF a <= b THEN a ELSE b
<1>1. CASE a <= b
  BY <1>1, MinIsLeast
<1>2. CASE ~(a <= b)
  BY <1>2, MinIsLeast
<1> QED BY <1>1, <1>2

\* The same of Max.
LEMMA MaxPair ==
  ASSUME NEW a \in Int, NEW b \in Int
  PROVE  Max({a, b}) = IF a >= b THEN a ELSE b
<1>1. CASE a >= b
  BY <1>1, MaxIsLargest
<1>2. CASE ~(a >= b)
  BY <1>2, MaxIsLargest
<1> QED BY <1>1, <1>2

\* Finitely many numbers have a largest one: a smallest set without would not be empty,
\* and would still be without after one of its members has left it.
LEMMA LargestExists ==
  ASSUME NEW Q, IsFiniteSet(Q), Q # {}, NEW f \in [Q -> Nat]
  PROVE  \E q \in Q : \A p \in Q : f[p] <= f[q]
<1> DEFINE Tops(S) == \E q \in S : \A p \in S : f[p] <= f[q]
           Bad == {n \in Nat : \E S \in SUBSET Q : S # {} /\ Cardinality(S) = n /\ ~Tops(S)}
<1> SUFFICES ASSUME ~Tops(Q) PROVE FALSE
  OBVIOUS
<1>1. Bad # {}
  <2>1. Cardinality(Q) \in Nat
    BY FS_CardinalityType
  <2> QED BY <2>1
<1>2. PICK n \in Bad : \A k \in Bad : n <= k
  <2> HIDE DEF Bad
  <2>1. Bad \in SUBSET Nat
    BY DEF Bad
  <2> QED BY <1>1, <2>1, LeastNatural
<1>3. PICK S \in SUBSET Q : S # {} /\ Cardinality(S) = n /\ ~Tops(S)
  OBVIOUS
<1>4. IsFiniteSet(S)
  BY FS_Subset
<1>5. PICK x \in S : TRUE
  BY <1>3
<1>6. IsFiniteSet(S \ {x}) /\ Cardinality(S \ {x}) = n - 1 /\ n \in Nat
  BY <1>3, <1>4, <1>5, FS_RemoveElement
<1>7. n - 1 \in Nat
  BY <1>6, FS_CardinalityType
<1>8. S \ {x} = {} \/ Tops(S \ {x})
  <2>1. n - 1 \notin Bad
    <3> HIDE DEF Bad
    <3> QED BY <1>2, <1>6, <1>7
  <2> HIDE DEF Tops
  <2> QED BY <1>6, <1>7, <2>1
<1>9. CASE S \ {x} = {}
  <2>1. S = {x}
    BY <1>5, <1>9
  <2>2. f[x] \in Nat
    BY <1>5
  <2>3. f[x] <= f[x]
    BY <2>2
  <2> QED BY <1>3, <2>1, <2>3
<1>10. CASE Tops(S \ {x})
  <2>1. PICK q \in S \ {x} : \A p \in S \ {x} : f[p] <= f[q]
    BY <1>10
  <2>2. f[q] \in Nat /\ f[x] \in Nat
    BY <1>3, <1>5, <2>1
  <2>3. CASE f[x] <= f[q]
    BY <1>3, <2>1, <2>3
  <2>4. CASE f[q] <= f[x]
    <3>1. \A p \in S : f[p] \in Nat
      BY <1>3
    <3>2. \A p \in S : f[p] <= f[x]
      BY <2>1, <2>2, <2>4, <3>1
    <3> QED BY <1>3, <1>5, <3>2
  <2> QED BY <2>2, <2>3, <2>4
<1> QED BY <1>8, <1>9, <1>10

--------------------------------------------------------------------------------
(* The relaxation controller on its own.                                   *)

\* Every factor that was decreased left a ceiling below it, and the streak never
\* exceeds the updates since the factors last moved.
CeilingBelowUnstable ==
  \A k \in Kinds : \A x \in unstable[k] : ceiling[k] <= Greater(Least[k], Lowered[x])

RelaxationInv ==
  /\ RelaxationTypeOK
  /\ FactorsBounded
  /\ CeilingBelowUnstable
  /\ ~adaptive => unstable = [k \in Kinds |-> {}]
  /\ streak <= since

\* The two choices between numbers, as bounds.
LEMMA GreaterLesser ==
  ASSUME NEW a \in Int, NEW b \in Int
  PROVE  /\ Greater(a, b) \in {a, b} /\ Greater(a, b) >= a /\ Greater(a, b) >= b
         /\ Lesser(a, b) \in {a, b}  /\ Lesser(a, b) <= a  /\ Lesser(a, b) <= b
BY DEF Greater, Lesser

\* The members of Factors and the products are numbers.
LEMMA Numbers ==
  /\ \A x \in Factors : /\ x \in Int
                        /\ Increased[x] \in Factors /\ Decreased[x] \in Factors
                        /\ Lowered[x] \in Factors
                        /\ Decreased[x] <= Lowered[x] /\ Lowered[x] <= x
  /\ \A k \in Kinds : Least[k] \in Factors /\ Most[k] \in Factors /\ Initial[k] \in Factors
BY RelaxationAssumption

\* The window of measures stays a sequence of at most one more than the ratios.
LEMMA WindowType ==
  ASSUME recent \in Seq(Measures), Len(recent) <= OscillationRatios + 1,
         NEW m \in Measures
  PROVE  Shifted(m) \in Seq(Measures) /\ Len(Shifted(m)) <= OscillationRatios + 1
<1> OscillationRatios \in Nat /\ OscillationRatios >= 2
  BY RelaxationAssumption
<1>1. CASE Len(recent) <= OscillationRatios
  <2> Append(recent, m) \in Seq(Measures) /\ Len(Append(recent, m)) = Len(recent) + 1
    OBVIOUS
  <2> QED BY <1>1 DEF Shifted
<1>2. CASE ~(Len(recent) <= OscillationRatios)
  <2> Len(recent) \in Nat OBVIOUS
  <2> recent # << >> BY <1>2
  <2> Tail(recent) \in Seq(Measures) /\ Len(Tail(recent)) = Len(recent) - 1
    OBVIOUS
  <2> Append(Tail(recent), m) \in Seq(Measures) /\ Len(Append(Tail(recent), m)) = Len(recent)
    OBVIOUS
  <2> QED BY <1>2 DEF Shifted
<1> QED BY <1>1, <1>2

\* The invariant holds before the first update.
LEMMA InvInit == RelaxationInit => RelaxationInv
<1> SUFFICES ASSUME RelaxationInit PROVE RelaxationInv
  OBVIOUS
<1>1. RelaxationTypeOK
  BY RelaxationAssumption DEF RelaxationInit, RelaxationTypeOK
<1>2. FactorsBounded
  <2> SUFFICES ASSUME adaptive, NEW k \in Kinds
               PROVE  Least[k] <= Initial[k] /\ Initial[k] <= Most[k] /\ Most[k] <= Most[k]
    BY DEF FactorsBounded, RelaxationInit
  <2>1. Most[k] \in Int BY Numbers
  <2> QED BY <2>1 DEF RelaxationInit
<1>3. CeilingBelowUnstable /\ (~adaptive => unstable = [k \in Kinds |-> {}]) /\ streak <= since
  BY DEF RelaxationInit, CeilingBelowUnstable
<1> QED BY <1>1, <1>2, <1>3 DEF RelaxationInv

\* A decrease moves each factor down, and its ceiling with it, within the bounds.
LEMMA DecreaseKeepsBounds ==
  ASSUME RelaxationInv, adaptive, Decrease, adaptive' = adaptive
  PROVE  /\ factor' \in [Kinds -> Factors] /\ ceiling' \in [Kinds -> Factors]
         /\ unstable' \in [Kinds -> SUBSET Factors]
         /\ FactorsBounded' /\ CeilingBelowUnstable'
<1> USE DEF RelaxationInv, RelaxationTypeOK
<1>1. ASSUME NEW k \in Kinds
      PROVE  /\ factor'[k] \in Factors /\ ceiling'[k] \in Factors
             /\ Least[k] <= factor'[k] /\ factor'[k] <= ceiling'[k] /\ ceiling'[k] <= Most[k]
             /\ ceiling'[k] <= ceiling[k]
             /\ ceiling'[k] <= Greater(Least[k], Lowered[factor[k]])
  <2> DEFINE low == Greater(Least[k], Lowered[factor[k]])
             next == Greater(Least[k], Decreased[factor[k]])
  <2>1. factor[k] \in Factors /\ ceiling[k] \in Factors
    OBVIOUS
  <2>2. /\ Least[k] \in Factors /\ Lowered[factor[k]] \in Factors
        /\ Decreased[factor[k]] \in Factors /\ Most[k] \in Factors
        /\ Decreased[factor[k]] <= Lowered[factor[k]] /\ Lowered[factor[k]] <= factor[k]
    BY <2>1, Numbers
  <2>3. /\ Least[k] \in Int /\ Lowered[factor[k]] \in Int /\ Decreased[factor[k]] \in Int
        /\ ceiling[k] \in Int /\ factor[k] \in Int /\ Most[k] \in Int
    BY <2>1, <2>2, Numbers
  <2>4. Least[k] <= factor[k] /\ factor[k] <= ceiling[k] /\ ceiling[k] <= Most[k]
    BY DEF FactorsBounded
  <2>5. /\ low \in {Least[k], Lowered[factor[k]]} /\ low >= Least[k]
        /\ low >= Lowered[factor[k]]
    BY <2>3, GreaterLesser
  <2>6. /\ next \in {Least[k], Decreased[factor[k]]} /\ next >= Least[k]
        /\ next >= Decreased[factor[k]]
    BY <2>3, GreaterLesser
  <2>7. ceiling'[k] = Lesser(ceiling[k], low) /\ factor'[k] = next
    BY DEF Decrease
  <2>8. low \in Int /\ next \in Int /\ low \in Factors /\ next \in Factors
    BY <2>2, <2>3, <2>5, <2>6
  <2> HIDE DEF low, next
  <2>9. /\ Lesser(ceiling[k], low) \in {ceiling[k], low}
        /\ Lesser(ceiling[k], low) <= ceiling[k] /\ Lesser(ceiling[k], low) <= low
    BY <2>3, <2>8, GreaterLesser
  <2>10. next <= low /\ next <= ceiling[k]
    BY <2>2, <2>3, <2>4, <2>5, <2>6, <2>8
  <2>11. /\ factor'[k] \in Factors /\ ceiling'[k] \in Factors
         /\ Least[k] <= factor'[k] /\ factor'[k] <= ceiling'[k] /\ ceiling'[k] <= Most[k]
         /\ ceiling'[k] <= ceiling[k] /\ ceiling'[k] <= low
    BY <2>1, <2>3, <2>4, <2>6, <2>7, <2>8, <2>9, <2>10
  <2> QED BY <2>11 DEF low
<1>2. factor' \in [Kinds -> Factors] /\ ceiling' \in [Kinds -> Factors]
  BY <1>1 DEF Decrease
<1>3. unstable' \in [Kinds -> SUBSET Factors]
  BY DEF Decrease
<1>4. FactorsBounded'
  BY <1>1 DEF FactorsBounded
<1>5. CeilingBelowUnstable'
  <2> SUFFICES ASSUME NEW k \in Kinds, NEW x \in unstable'[k]
               PROVE  ceiling'[k] <= Greater(Least[k], Lowered[x])
    BY DEF CeilingBelowUnstable
  <2>1. x \in unstable[k] \/ x = factor[k]
    BY DEF Decrease
  <2>2. CASE x = factor[k]
    BY <1>1, <2>2
  <2>3. CASE x \in unstable[k]
    <3>1. ceiling[k] <= Greater(Least[k], Lowered[x])
      BY <2>3 DEF CeilingBelowUnstable
    <3>2. ceiling'[k] <= ceiling[k] /\ ceiling'[k] \in Int /\ ceiling[k] \in Int
      BY <1>1, Numbers
    <3>3. x \in Factors
      BY <2>3
    <3>4. Least[k] \in Int /\ Lowered[x] \in Int
      BY <3>3, Numbers
    <3>5. Greater(Least[k], Lowered[x]) \in Int
      BY <3>4, GreaterLesser
    <3> QED BY <3>1, <3>2, <3>5
  <2> QED BY <2>1, <2>2, <2>3
<1> QED BY <1>2, <1>3, <1>4, <1>5

\* An increase stays below the ceiling and the maximum, and never lowers a factor.
LEMMA IncreaseKeepsBounds ==
  ASSUME RelaxationInv, adaptive, Increase, adaptive' = adaptive
  PROVE  factor' \in [Kinds -> Factors] /\ FactorsBounded' /\ CeilingBelowUnstable'
<1> USE DEF RelaxationInv, RelaxationTypeOK
<1>1. ASSUME NEW k \in Kinds
      PROVE  /\ factor'[k] \in Factors
             /\ Least[k] <= factor'[k] /\ factor'[k] <= ceiling[k] /\ ceiling[k] <= Most[k]
  <2> DEFINE up == Greater(factor[k], Increased[factor[k]])
             top == Lesser(Most[k], ceiling[k])
  <2>1. factor[k] \in Factors /\ ceiling[k] \in Factors
    OBVIOUS
  <2>2. /\ Least[k] \in Factors /\ Most[k] \in Factors /\ Increased[factor[k]] \in Factors
    BY <2>1, Numbers
  <2>3. /\ Least[k] \in Int /\ Most[k] \in Int /\ Increased[factor[k]] \in Int
        /\ factor[k] \in Int /\ ceiling[k] \in Int
    BY <2>1, <2>2, Numbers
  <2>4. Least[k] <= factor[k] /\ factor[k] <= ceiling[k] /\ ceiling[k] <= Most[k]
    BY DEF FactorsBounded
  <2>5. up \in {factor[k], Increased[factor[k]]} /\ up >= factor[k]
    BY <2>3, GreaterLesser
  <2>6. top \in {Most[k], ceiling[k]} /\ top <= ceiling[k]
    BY <2>3, GreaterLesser
  <2>7. factor'[k] = Lesser(top, up)
    BY DEF Increase, Raised
  <2>8. up \in Int /\ top \in Int /\ up \in Factors /\ top \in Factors
    BY <2>1, <2>2, <2>3, <2>5, <2>6
  <2> HIDE DEF up, top
  <2>9. Lesser(top, up) \in {top, up} /\ Lesser(top, up) <= top
    BY <2>8, GreaterLesser
  <2>10. Least[k] <= top /\ Least[k] <= up
    BY <2>3, <2>4, <2>5, <2>6, <2>8
  <2> QED BY <2>3, <2>4, <2>6, <2>7, <2>8, <2>9, <2>10
<1>2. factor' \in [Kinds -> Factors]
  BY <1>1 DEF Increase
<1>3. FactorsBounded'
  BY <1>1 DEF FactorsBounded, Increase
<1>4. CeilingBelowUnstable'
  BY DEF CeilingBelowUnstable, Increase
<1> QED BY <1>2, <1>3, <1>4

\* Every update preserves the invariant.
LEMMA InvNext == RelaxationInv /\ [RelaxationNext]_relaxationVars => RelaxationInv'
<1> SUFFICES ASSUME RelaxationInv, [RelaxationNext]_relaxationVars PROVE RelaxationInv'
  OBVIOUS
<1> USE DEF RelaxationInv
<1>1. CASE UNCHANGED relaxationVars
  BY <1>1 DEF relaxationVars, controllerVars, RelaxationTypeOK, FactorsBounded,
              CeilingBelowUnstable
<1>2. ASSUME NEW m \in Measures \cup {Overflow}, UpdateDisabled(m)
      PROVE  RelaxationInv'
  BY <1>2 DEF UpdateDisabled, RelaxationTypeOK, FactorsBounded, CeilingBelowUnstable
<1>3. ASSUME NEW m \in Measures \cup {Overflow}, UpdateEnabled(m)
      PROVE  RelaxationInv'
  <2> m \in Measures
    BY <1>3 DEF UpdateEnabled
  <2>1. adaptive /\ adaptive' = adaptive /\ adaptive' \in BOOLEAN
    BY <1>3 DEF UpdateEnabled, RelaxationTypeOK
  <2>2. recent' \in Seq(Measures) /\ Len(recent') <= OscillationRatios + 1
    BY <1>3, WindowType DEF UpdateEnabled, RelaxationTypeOK
  <2>3. ImprovementStreak \in Nat \ {0} /\ streak \in Nat /\ since \in Nat
    BY RelaxationAssumption DEF RelaxationTypeOK
  <2>4. CASE Decrease
    <3>1. /\ factor' \in [Kinds -> Factors] /\ ceiling' \in [Kinds -> Factors]
          /\ unstable' \in [Kinds -> SUBSET Factors] /\ FactorsBounded'
          /\ CeilingBelowUnstable'
      BY <2>1, <2>4, DecreaseKeepsBounds
    <3>2. streak' = 0 /\ since' = 0 /\ action' = "Decrease"
      BY <2>4 DEF Decrease
    <3>3. RelaxationTypeOK'
      BY <2>1, <2>2, <2>3, <3>1, <3>2 DEF RelaxationTypeOK
    <3> QED BY <2>1, <3>1, <3>2, <3>3
  <2>5. CASE Increase
    <3>1. factor' \in [Kinds -> Factors] /\ FactorsBounded' /\ CeilingBelowUnstable'
      BY <2>1, <2>5, IncreaseKeepsBounds
    <3>2. /\ streak' = 0 /\ since' \in Nat /\ action' \in {"Hold", "Increase"}
          /\ ceiling' = ceiling /\ unstable' = unstable
      BY <2>3, <2>5 DEF Increase
    <3>3. RelaxationTypeOK'
      BY <2>1, <2>2, <2>3, <3>1, <3>2 DEF RelaxationTypeOK
    <3> QED BY <2>1, <3>1, <3>2, <3>3
  <2>6. ASSUME NEW s \in 0 .. ImprovementStreak - 1, s <= streak + 1, Hold(s)
        PROVE  RelaxationInv'
    <3>1. /\ streak' = s /\ since' = since + 1 /\ action' = "Hold" /\ factor' = factor
          /\ ceiling' = ceiling /\ unstable' = unstable
      BY <2>6 DEF Hold
    <3>2. RelaxationTypeOK'
      BY <2>1, <2>2, <2>3, <3>1 DEF RelaxationTypeOK
    <3>3. FactorsBounded' /\ CeilingBelowUnstable'
      BY <2>1, <3>1 DEF FactorsBounded, CeilingBelowUnstable
    <3>4. streak' <= since'
      BY <2>3, <2>6, <3>1
    <3> QED BY <2>1, <3>1, <3>2, <3>3, <3>4
  <2>7. CASE Improves(recent') /\ streak + 1 < ImprovementStreak /\ Hold(streak + 1)
    BY <2>3, <2>6, <2>7
  <2>8. CASE ~Improves(recent') /\ Hold(0)
    BY <2>3, <2>6, <2>8
  <2> QED BY <1>3, <2>4, <2>5, <2>7, <2>8 DEF UpdateEnabled
<1> QED BY <1>1, <1>2, <1>3 DEF RelaxationNext, Update

\* The invariant keeps every factor at or below what an unstable one left behind.
LEMMA InvAvoidsUnstable == RelaxationInv => UnstableFactorsAvoided
<1> SUFFICES ASSUME RelaxationInv, NEW k \in Kinds, NEW x \in unstable[k]
             PROVE  factor[k] <= Greater(Least[k], Lowered[x])
  BY DEF UnstableFactorsAvoided
<1> USE DEF RelaxationInv, RelaxationTypeOK
<1>1. adaptive
  OBVIOUS
<1>2. factor[k] <= ceiling[k] /\ ceiling[k] <= Greater(Least[k], Lowered[x])
  BY <1>1 DEF FactorsBounded, CeilingBelowUnstable
<1>3. factor[k] \in Int /\ ceiling[k] \in Int /\ Least[k] \in Int /\ Lowered[x] \in Int
  BY Numbers
<1>4. Greater(Least[k], Lowered[x]) \in Int
  BY <1>3, GreaterLesser
<1> QED BY <1>2, <1>3, <1>4

\* For every settings, rounding and sequence of measures, the factors stay within their
\* bounds and below the ceiling, and the controller does not hunt: no factor above 0.9
\* times an unstable one returns, the minimum aside (AdaptiveRelaxationController::update).
THEOREM FactorsAreSafe == RelaxationSpec => []FactorsStaySafe
<1>1. RelaxationSpec => []RelaxationInv
  BY InvInit, InvNext, PTL DEF RelaxationSpec
<1>2. RelaxationInv => FactorsStaySafe
  BY InvAvoidsUnstable DEF RelaxationInv, FactorsStaySafe
<1> QED BY <1>1, <1>2, PTL

\* An increase of the factors is as many updates after their last move as a streak
\* has (kImprovementStreak).
THEOREM SpacedIncreases == RelaxationSpec => IncreasesAreSpaced
<1>1. RelaxationSpec => []RelaxationInv
  BY InvInit, InvNext, PTL DEF RelaxationSpec
<1>2. RelaxationInv /\ [RelaxationNext]_relaxationVars
        => [action' = "Increase" /\ factor' # factor
              => since + 1 >= ImprovementStreak]_relaxationVars
  <2> SUFFICES ASSUME RelaxationInv, NEW m \in Measures \cup {Overflow}, UpdateEnabled(m),
                      action' = "Increase"
               PROVE  since + 1 >= ImprovementStreak
    BY DEF RelaxationNext, Update, UpdateDisabled
  <2>1. Increase /\ streak + 1 >= ImprovementStreak
    BY DEF UpdateEnabled, Decrease, Hold
  <2>2. streak <= since /\ streak \in Int /\ since \in Int /\ ImprovementStreak \in Int
    BY RelaxationAssumption DEF RelaxationInv, RelaxationTypeOK
  <2> QED BY <2>1, <2>2
<1> QED BY <1>1, <1>2, PTL DEF RelaxationSpec, IncreasesAreSpaced

--------------------------------------------------------------------------------
(* Residual trackers.                                                      *)

\* What a tracker may be given.
Values == Nat \cup {Overflow}

\* The slot of the value that is ago values old.
Slot(t, ago) == (t.head + t.capacity - 1 - ago) % t.capacity

\* The fields of a tracker, and what they hold.
Members == {"floor", "references", "capacity", "bestFrom", "count", "latest", "reference",
            "bestBefore", "ring", "ringIndex", "head", "size"}

TrackerType(t, capacity) ==
  /\ DOMAIN t = Members
  /\ t.floor \in Nat \ {0} /\ t.references \in Nat /\ t.bestFrom \in Nat \ {0}
  /\ t.capacity = capacity
  /\ t.count \in Nat /\ t.latest \in Values
  /\ t.reference \in Nat /\ t.bestBefore \in Nat \cup {None}
  /\ t.ring \in [0 .. capacity - 1 -> Nat] /\ t.ringIndex \in [0 .. capacity - 1 -> Nat]
  /\ t.head \in 0 .. capacity - 1 /\ t.size \in 0 .. capacity

\* One more value has been pushed.
Extended(longer, values, value) ==
  /\ longer \in Seq(Values)
  /\ Len(longer) = Len(values) + 1
  /\ \A i \in 1 .. Len(values) : longer[i] = values[i]
  /\ longer[Len(longer)] = value

\* The slots hold the last finite values and where they were in the history.
WindowInv(t, values, list) ==
  /\ t.size = IF Len(list) < t.capacity THEN Len(list) ELSE t.capacity
  /\ \A ago \in 0 .. t.size - 1 :
       /\ t.ring[Slot(t, ago)] = values[list[Len(list) - ago]]
       /\ t.ringIndex[Slot(t, ago)] = list[Len(list) - ago]

\* The least value that has left the window since bestFrom.
BestInv(t, values, list) ==
  /\ t.bestBefore = None => LeftWindow(t, values, list) = {}
  /\ t.bestBefore # None => /\ t.bestBefore \in LeftWindow(t, values, list)
                            /\ \A v \in LeftWindow(t, values, list) : t.bestBefore <= v

\* The largest value of the reference iterations, and never less than zero.
ReferenceInv(t, values, list) ==
  /\ t.reference \in FirstValues(t, values, list) \cup {0}
  /\ \A v \in FirstValues(t, values, list) : v <= t.reference

TrackerInv(t, capacity, values, list) ==
  /\ TrackerType(t, capacity)
  /\ values \in Seq(Values) /\ list \in Seq(Nat \ {0})
  /\ t.count = Len(values)
  /\ ListsFinite(list, values)
  /\ WindowInv(t, values, list)
  /\ BestInv(t, values, list)
  /\ ReferenceInv(t, values, list)

\* What the next iteration adds to a list of the finite values.
Kept(list, values, value) == IF Finite(value) THEN Append(list, Len(values) + 1) ELSE list

\* The slots of a ring of c, the next one and those before it.
LEMMA Slots ==
  ASSUME NEW c \in Nat \ {0}, NEW h \in 0 .. c - 1
  PROVE  /\ (h + 1) % c = IF h = c - 1 THEN 0 ELSE h + 1
         /\ \A ago \in 0 .. c - 1 :
              (h + c - 1 - ago) % c = IF ago < h THEN h - 1 - ago ELSE h + c - 1 - ago
<1>1. (h + 1) % c = IF h = c - 1 THEN 0 ELSE h + 1
  <2>1. CASE h = c - 1
    BY <2>1, ModOnce
  <2>2. CASE h # c - 1
    BY <2>2, ModOnce
  <2> QED BY <2>1, <2>2
<1>2. ASSUME NEW ago \in 0 .. c - 1
      PROVE  (h + c - 1 - ago) % c = IF ago < h THEN h - 1 - ago ELSE h + c - 1 - ago
  <2>1. CASE ago < h
    <3>1. h + c - 1 - ago \in c .. 2 * c - 1 /\ h + c - 1 - ago \in Int
      BY <2>1
    <3>2. (h + c - 1 - ago) % c = (h + c - 1 - ago) - c
      BY <3>1, ModOnce
    <3> QED BY <2>1, <3>2
  <2>2. CASE ~(ago < h)
    <3>1. h + c - 1 - ago \in 0 .. c - 1 /\ h + c - 1 - ago \in Int
      BY <2>2
    <3> QED BY <2>2, <3>1, ModOnce
  <2> QED BY <2>1, <2>2
<1> QED BY <1>1, <1>2

\* Every value of the list is finite, and a natural number.
LEMMA ListedValues ==
  ASSUME NEW values \in Seq(Values), NEW list \in Seq(Nat \ {0}), ListsFinite(list, values),
         NEW i \in 1 .. Len(list)
  PROVE  list[i] \in 1 .. Len(values) /\ values[list[i]] \in Nat
<1>1. list[i] \in {j \in 1 .. Len(values) : Finite(values[j])}
  BY DEF ListsFinite
<1> QED BY <1>1 DEF Finite, Values

\* The list of the finite values stays one after one more value.
LEMMA ListsExtended ==
  ASSUME NEW values \in Seq(Values), NEW list \in Seq(Nat \ {0}), ListsFinite(list, values),
         NEW value \in Values, NEW longer, Extended(longer, values, value)
  PROVE  /\ Kept(list, values, value) \in Seq(Nat \ {0})
         /\ ListsFinite(Kept(list, values, value), longer)
<1> DEFINE n == Len(values)
           next == Kept(list, values, value)
<1> n \in Nat
  OBVIOUS
<1>1. /\ longer \in Seq(Values) /\ Len(longer) = n + 1 /\ longer[n + 1] = value
      /\ \A i \in 1 .. n : longer[i] = values[i]
  BY DEF Extended
<1>2. {i \in 1 .. n + 1 : Finite(longer[i])}
        = {i \in 1 .. n : Finite(values[i])} \cup (IF Finite(value) THEN {n + 1} ELSE {})
  BY <1>1
<1>3. {list[i] : i \in 1 .. Len(list)} = {i \in 1 .. n : Finite(values[i])}
  BY DEF ListsFinite
<1>4. \A i, j \in 1 .. Len(list) : i < j => list[i] < list[j]
  BY DEF ListsFinite
<1>5. CASE Finite(value)
  <2>1. /\ next \in Seq(Nat \ {0}) /\ Len(next) = Len(list) + 1 /\ next[Len(list) + 1] = n + 1
        /\ \A i \in 1 .. Len(list) : next[i] = list[i]
    BY <1>5 DEF Kept
  <2> HIDE DEF next
  <2>2. {next[i] : i \in 1 .. Len(next)} = {list[i] : i \in 1 .. Len(list)} \cup {n + 1}
    <3>1. 1 .. Len(next) = 1 .. Len(list) \cup {Len(list) + 1}
      BY <2>1
    <3> QED BY <2>1, <3>1
  <2>3. {next[i] : i \in 1 .. Len(next)} = {i \in 1 .. Len(longer) : Finite(longer[i])}
    BY <1>1, <1>2, <1>3, <1>5, <2>2
  <2>4. \A i, j \in 1 .. Len(next) : i < j => next[i] < next[j]
    <3>1. \A i \in 1 .. Len(list) : list[i] \in 1 .. n
      BY ListedValues
    <3> SUFFICES ASSUME NEW i \in 1 .. Len(next), NEW j \in 1 .. Len(next), i < j
                 PROVE  next[i] < next[j]
      OBVIOUS
    <3>2. i \in Nat /\ j \in Nat /\ Len(list) \in Nat /\ Len(next) = Len(list) + 1
      BY <2>1
    <3>3. i \in 1 .. Len(list) /\ next[i] = list[i]
      BY <2>1, <3>2
    <3>4. CASE j = Len(list) + 1
      <4>1. next[i] \in 1 .. n /\ next[j] = n + 1
        BY <2>1, <3>1, <3>3, <3>4
      <4> QED BY <4>1
    <3>5. CASE j \in 1 .. Len(list)
      BY <1>4, <2>1, <3>3, <3>5
    <3> QED BY <3>2, <3>4, <3>5
  <2> QED BY <2>1, <2>3, <2>4 DEF next, ListsFinite
<1>6. CASE ~Finite(value)
  <2>1. next = list
    BY <1>6 DEF Kept
  <2> QED BY <1>1, <1>2, <1>3, <1>4, <1>6, <2>1 DEF ListsFinite
<1> QED BY <1>5, <1>6

\* The fields of a tracker p that has been given one more value.
Pushed(p, t, value) ==
  /\ DOMAIN p = Members
  /\ p.floor = t.floor /\ p.references = t.references /\ p.bestFrom = t.bestFrom
  /\ p.capacity = t.capacity
  /\ p.count = t.count + 1 /\ p.latest = value
  /\ ~Finite(value) =>
       /\ p.reference = t.reference /\ p.bestBefore = t.bestBefore
       /\ p.ring = t.ring /\ p.ringIndex = t.ringIndex
       /\ p.head = t.head /\ p.size = t.size
  /\ Finite(value) =>
       /\ p.reference = IF t.count + 1 <= t.references
                        THEN Max({t.reference, value}) ELSE t.reference
       /\ p.bestBefore = BestBefore(t)
       /\ p.ring = [t.ring EXCEPT ![t.head] = value]
       /\ p.ringIndex = [t.ringIndex EXCEPT ![t.head] = t.count + 1]
       /\ p.head = (t.head + 1) % t.capacity
       /\ p.size = Min({t.size + 1, t.capacity})

\* Push does to each field what Pushed says.
LEMMA PushFields ==
  ASSUME NEW t, NEW capacity \in Nat \ {0}, TrackerType(t, capacity), NEW value
  PROVE  Pushed(Push(t, value), t, value)
<1> DEFINE p == Push(t, value)
<1> SUFFICES Pushed(p, t, value)
  OBVIOUS
<1> USE DEF Pushed
<1> DEFINE counted == [t EXCEPT !.count = @ + 1, !.latest = value]
<1>1. /\ DOMAIN counted = Members
      /\ counted.floor = t.floor /\ counted.references = t.references
      /\ counted.bestFrom = t.bestFrom /\ counted.capacity = t.capacity
      /\ counted.count = t.count + 1 /\ counted.latest = value
      /\ counted.reference = t.reference /\ counted.bestBefore = t.bestBefore
      /\ counted.ring = t.ring /\ counted.ringIndex = t.ringIndex
      /\ counted.head = t.head /\ counted.size = t.size
  BY DEF TrackerType, Members
<1>2. CASE ~Finite(value)
  <2>1. p = counted
    BY <1>2 DEF Push
  <2> QED BY <1>1, <1>2, <2>1
<1>3. CASE Finite(value)
  BY <1>3 DEF Push, TrackerType, Members
<1> QED BY <1>2, <1>3

\* The best before the window is a number, or there is none yet.
LEMMA BestBeforeType ==
  ASSUME NEW t, NEW capacity \in Nat \ {0}, TrackerType(t, capacity)
  PROVE  BestBefore(t) \in Nat \cup {None}
<1>1. t.ring[Leaving(t)] \in Nat
  BY DEF Leaving, TrackerType
<1>2. CASE t.bestBefore = None
  BY <1>1, <1>2 DEF BestBefore
<1>3. CASE t.bestBefore # None
  <2>1. t.bestBefore \in Int /\ t.ring[Leaving(t)] \in Int
    BY <1>1, <1>3 DEF TrackerType
  <2>2. Min({t.bestBefore, t.ring[Leaving(t)]}) \in {t.bestBefore, t.ring[Leaving(t)]}
    BY <2>1, MinPair
  <2> QED BY <1>1, <1>3, <2>2 DEF BestBefore, TrackerType
<1> QED BY <1>2, <1>3

\* A push keeps the types of the fields.
LEMMA PushType ==
  ASSUME NEW t, NEW capacity \in Nat \ {0}, TrackerType(t, capacity), NEW value \in Values,
         NEW p, Pushed(p, t, value)
  PROVE  TrackerType(p, capacity)
<1> DEFINE places == 0 .. capacity - 1
<1>1. /\ DOMAIN p = Members
      /\ p.floor \in Nat \ {0} /\ p.references \in Nat /\ p.bestFrom \in Nat \ {0}
      /\ p.capacity = capacity /\ p.count \in Nat /\ p.latest \in Values
  <2>1. /\ DOMAIN p = Members
        /\ p.floor = t.floor /\ p.references = t.references /\ p.bestFrom = t.bestFrom
        /\ p.capacity = t.capacity /\ p.count = t.count + 1 /\ p.latest = value
    BY DEF Pushed
  <2>2. /\ t.floor \in Nat \ {0} /\ t.references \in Nat /\ t.bestFrom \in Nat \ {0}
        /\ t.capacity = capacity /\ t.count \in Nat
    BY DEF TrackerType
  <2> QED BY <2>1, <2>2
<1>2. /\ t.reference \in Nat /\ t.bestBefore \in Nat \cup {None}
      /\ t.ring \in [places -> Nat] /\ t.ringIndex \in [places -> Nat]
      /\ t.head \in places /\ t.size \in 0 .. capacity /\ t.count \in Nat
  BY DEF TrackerType
<1>3. CASE ~Finite(value)
  <2>1. /\ p.reference = t.reference /\ p.bestBefore = t.bestBefore
        /\ p.ring = t.ring /\ p.ringIndex = t.ringIndex
        /\ p.head = t.head /\ p.size = t.size
    BY <1>3 DEF Pushed
  <2>2. /\ p.reference \in Nat /\ p.bestBefore \in Nat \cup {None}
        /\ p.ring \in [places -> Nat] /\ p.ringIndex \in [places -> Nat]
        /\ p.head \in places /\ p.size \in 0 .. capacity
    BY <1>2, <2>1
  <2> QED BY <1>1, <2>2 DEF TrackerType
<1>4. CASE Finite(value)
  <2>1. value \in Nat
    BY <1>4 DEF Values, Finite
  <2>2. p.bestBefore \in Nat \cup {None}
    BY <1>4, BestBeforeType DEF Pushed
  <2>3. p.head \in 0 .. capacity - 1
    <3>1. t.head \in 0 .. capacity - 1
      BY DEF TrackerType
    <3>2. (t.head + 1) % capacity = IF t.head = capacity - 1 THEN 0 ELSE t.head + 1
      BY <3>1, Slots
    <3>3. p.head = (t.head + 1) % capacity
      BY <1>4 DEF Pushed, TrackerType
    <3> QED BY <3>1, <3>2, <3>3
  <2>4. p.reference \in Nat
    <3>1. t.reference \in Int /\ value \in Int /\ t.reference \in Nat
      BY <2>1 DEF TrackerType
    <3>2. Max({t.reference, value}) \in Nat
      BY <2>1, <3>1, MaxPair
    <3>3. p.reference = IF t.count + 1 <= t.references
                        THEN Max({t.reference, value}) ELSE t.reference
      BY <1>4 DEF Pushed, TrackerType
    <3> QED BY <3>1, <3>2, <3>3
  <2>5. p.size \in 0 .. capacity
    <3>1. t.size \in 0 .. capacity /\ t.size + 1 \in Int /\ capacity \in Int
      BY DEF TrackerType
    <3>2. Min({t.size + 1, capacity}) = IF t.size + 1 <= capacity THEN t.size + 1 ELSE capacity
      BY <3>1, MinPair
    <3>3. p.size = Min({t.size + 1, capacity})
      BY <1>4 DEF Pushed, TrackerType
    <3> QED BY <3>1, <3>2, <3>3
  <2>6. /\ p.ring = [t.ring EXCEPT ![t.head] = value]
        /\ p.ringIndex = [t.ringIndex EXCEPT ![t.head] = t.count + 1]
    BY <1>4 DEF Pushed
  <2>7. p.ring \in [places -> Nat] /\ p.ringIndex \in [places -> Nat]
    <3>1. t.count + 1 \in Nat
      BY <1>2
    <3> HIDE DEF places
    <3> QED BY <1>2, <2>1, <2>6, <3>1
  <2> QED BY <1>1, <2>2, <2>3, <2>4, <2>5, <2>7 DEF TrackerType
<1> QED BY <1>3, <1>4

\* The oldest value of a full window is in the slot the next one takes.
LEMMA LeavingSlot ==
  ASSUME NEW t, NEW c \in Nat \ {0}, t.capacity = c, t.head \in 0 .. c - 1
  PROVE  Slot(t, c - 1) = t.head
<1> DEFINE h == t.head
<1> HIDE DEF h
<1>1. c - 1 \in 0 .. c - 1 /\ h \in 0 .. c - 1 /\ ~(c - 1 < h)
  BY DEF h
<1>2. (h + c - 1 - (c - 1)) % c = h + c - 1 - (c - 1)
  BY <1>1, Slots
<1>3. h + c - 1 - (c - 1) = h
  BY <1>1
<1> QED BY <1>2, <1>3 DEF Slot, h

\* A push makes every value one older, and takes no slot but that of the oldest.
LEMMA SlotMoves ==
  ASSUME NEW t, NEW p, NEW c \in Nat \ {0}, t.capacity = c, p.capacity = c,
         t.head \in 0 .. c - 1, p.head = (t.head + 1) % c
  PROVE  /\ \A ago \in 0 .. c - 1 : Slot(t, ago) \in 0 .. c - 1
         /\ Slot(t, c - 1) = t.head
         /\ Slot(p, 0) = t.head
         /\ \A ago \in 1 .. c - 1 : Slot(p, ago) = Slot(t, ago - 1) /\ Slot(t, ago - 1) # t.head
<1> DEFINE h == t.head
           g == p.head
           slot(x, ago) == IF ago < x THEN x - 1 - ago ELSE x + c - 1 - ago
<1>1. g = IF h = c - 1 THEN 0 ELSE h + 1
  BY Slots
<1>2. h \in 0 .. c - 1 /\ g \in 0 .. c - 1
  BY <1>1
<1> HIDE DEF h, g
<1>3. \A ago \in 0 .. c - 1 : (h + c - 1 - ago) % c = slot(h, ago)
  BY <1>2, Slots
<1>4. \A ago \in 0 .. c - 1 : (g + c - 1 - ago) % c = slot(g, ago)
  BY <1>2, Slots
<1>5. \A ago \in 0 .. c - 1 : Slot(t, ago) = slot(h, ago) /\ Slot(p, ago) = slot(g, ago)
  BY <1>3, <1>4 DEF Slot, h, g
<1>6. \A ago \in 0 .. c - 1 : slot(h, ago) \in 0 .. c - 1
  BY <1>2
<1>7. slot(h, c - 1) = h /\ slot(g, 0) = h
  BY <1>1, <1>2
<1>8. \A ago \in 1 .. c - 1 : slot(g, ago) = slot(h, ago - 1) /\ slot(h, ago - 1) # h
  BY <1>1, <1>2
<1>9. \A ago \in 1 .. c - 1 : ago \in 0 .. c - 1 /\ ago - 1 \in 0 .. c - 1
  OBVIOUS
<1> HIDE DEF slot
<1> QED BY <1>5, <1>6, <1>7, <1>8, <1>9 DEF h

\* What the next iteration adds, as facts on the list.
LEMMA KeptList ==
  ASSUME NEW values \in Seq(Values), NEW list \in Seq(Nat \ {0}), NEW value, Finite(value)
  PROVE  /\ Len(Kept(list, values, value)) = Len(list) + 1
         /\ Kept(list, values, value)[Len(list) + 1] = Len(values) + 1
         /\ \A i \in 1 .. Len(list) : Kept(list, values, value)[i] = list[i]
BY DEF Kept

\* The window holds the last finite values, after one more.
LEMMA WindowKept ==
  ASSUME NEW t, NEW capacity \in Nat \ {0}, NEW values, NEW list,
         TrackerInv(t, capacity, values, list),
         NEW value \in Values, NEW longer, Extended(longer, values, value),
         NEW p, Pushed(p, t, value)
  PROVE  WindowInv(p, longer, Kept(list, values, value))
<1> DEFINE n == Len(values)
           m == Len(list)
           next == Kept(list, values, value)
<1>1. /\ values \in Seq(Values) /\ list \in Seq(Nat \ {0}) /\ n \in Nat /\ m \in Nat
      /\ t.count = n /\ t.capacity = capacity /\ t.head \in 0 .. capacity - 1
      /\ ListsFinite(list, values)
      /\ t.ring \in [0 .. capacity - 1 -> Nat] /\ t.ringIndex \in [0 .. capacity - 1 -> Nat]
  <2>1. /\ values \in Seq(Values) /\ list \in Seq(Nat \ {0}) /\ t.count = n
        /\ ListsFinite(list, values) /\ TrackerType(t, capacity)
    BY DEF TrackerInv
  <2>2. n \in Nat /\ m \in Nat
    BY <2>1
  <2>3. /\ t.capacity = capacity /\ t.head \in 0 .. capacity - 1
        /\ t.ring \in [0 .. capacity - 1 -> Nat] /\ t.ringIndex \in [0 .. capacity - 1 -> Nat]
    BY <2>1 DEF TrackerType
  <2> HIDE DEF n, m
  <2> QED BY <2>1, <2>2, <2>3
<1>2. t.size = IF m < capacity THEN m ELSE capacity
  BY <1>1 DEF TrackerInv, WindowInv
<1>3. \A ago \in 0 .. t.size - 1 :
        /\ t.ring[Slot(t, ago)] = values[list[m - ago]]
        /\ t.ringIndex[Slot(t, ago)] = list[m - ago]
  BY DEF TrackerInv, WindowInv
<1>4. Len(longer) = n + 1 /\ longer[n + 1] = value /\ \A i \in 1 .. n : longer[i] = values[i]
  BY DEF Extended
<1>5. \A i \in 1 .. m : list[i] \in 1 .. n /\ longer[list[i]] = values[list[i]]
  BY <1>1, <1>4, ListedValues
<1>6. CASE ~Finite(value)
  <2>1. next = list
    BY <1>6 DEF Kept
  <2>2. /\ p.size = t.size /\ p.capacity = t.capacity /\ p.ring = t.ring
        /\ p.ringIndex = t.ringIndex /\ p.head = t.head
    BY <1>6 DEF Pushed
  <2>3. \A ago : Slot(p, ago) = Slot(t, ago)
    BY <2>2 DEF Slot
  <2>4. \A ago \in 0 .. t.size - 1 : m - ago \in 1 .. m
    BY <1>1, <1>2
  <2> QED BY <1>1, <1>2, <1>3, <1>5, <2>1, <2>2, <2>3, <2>4 DEF WindowInv
<1>7. CASE Finite(value)
  <2>1. /\ p.capacity = capacity /\ p.head = (t.head + 1) % capacity
        /\ p.size = Min({t.size + 1, capacity})
        /\ p.ring = [t.ring EXCEPT ![t.head] = value]
        /\ p.ringIndex = [t.ringIndex EXCEPT ![t.head] = n + 1]
    BY <1>1, <1>7 DEF Pushed
  <2>2. /\ Len(next) = m + 1 /\ next[m + 1] = n + 1
        /\ \A i \in 1 .. m : next[i] = list[i]
    BY <1>1, <1>7, KeptList
  <2> HIDE DEF next
  <2>3. p.size = IF m + 1 < capacity THEN m + 1 ELSE capacity
    <3>1. t.size + 1 \in Int /\ capacity \in Int
      BY <1>1, <1>2
    <3>2. p.size = IF t.size + 1 <= capacity THEN t.size + 1 ELSE capacity
      BY <2>1, <3>1, MinPair
    <3> QED BY <1>1, <1>2, <3>2
  <2>4. /\ \A ago \in 0 .. capacity - 1 : Slot(t, ago) \in 0 .. capacity - 1
        /\ Slot(p, 0) = t.head
        /\ \A ago \in 1 .. capacity - 1 :
             Slot(p, ago) = Slot(t, ago - 1) /\ Slot(t, ago - 1) # t.head
    BY <1>1, <2>1, SlotMoves
  <2>5. ASSUME NEW ago \in 0 .. p.size - 1
        PROVE  /\ p.ring[Slot(p, ago)] = longer[next[m + 1 - ago]]
               /\ p.ringIndex[Slot(p, ago)] = next[m + 1 - ago]
    <3>1. CASE ago = 0
      <4>1. p.ring[t.head] = value /\ p.ringIndex[t.head] = n + 1
        BY <1>1, <2>1
      <4>2. m + 1 - ago = m + 1 /\ Slot(p, ago) = t.head
        BY <1>1, <2>4, <3>1
      <4>3. longer[next[m + 1 - ago]] = value /\ next[m + 1 - ago] = n + 1
        BY <1>4, <2>2, <4>2
      <4> QED BY <4>1, <4>2, <4>3
    <3>2. CASE ago # 0
      <4>1. /\ ago \in 1 .. capacity - 1 /\ ago - 1 \in 0 .. t.size - 1
            /\ ago - 1 \in 0 .. capacity - 1 /\ m - (ago - 1) \in 1 .. m
            /\ m + 1 - ago = m - (ago - 1)
        BY <1>1, <1>2, <2>3, <3>2
      <4>2. /\ p.ring[Slot(t, ago - 1)] = t.ring[Slot(t, ago - 1)]
            /\ p.ringIndex[Slot(t, ago - 1)] = t.ringIndex[Slot(t, ago - 1)]
        BY <1>1, <2>1, <2>4, <4>1
      <4> DEFINE k == ago - 1
                 i == m - k
      <4>3. Slot(p, ago) = Slot(t, k)
        BY <2>4, <4>1
      <4>4. t.ring[Slot(t, k)] = values[list[i]] /\ t.ringIndex[Slot(t, k)] = list[i]
        BY <1>3, <4>1
      <4> HIDE DEF k
      <4>5. next[i] = list[i] /\ longer[list[i]] = values[list[i]]
        BY <1>5, <2>2, <4>1 DEF k
      <4>6. m + 1 - ago = i
        BY <4>1 DEF k
      <4> HIDE DEF i
      <4>7. p.ring[Slot(t, k)] = longer[list[i]] /\ p.ringIndex[Slot(t, k)] = list[i]
        BY <4>2, <4>4, <4>5 DEF k
      <4> QED BY <4>3, <4>5, <4>6, <4>7
    <3> QED BY <3>1, <3>2
  <2>6. WindowInv(p, longer, next)
    <3>1. p.size = IF Len(next) < p.capacity THEN Len(next) ELSE p.capacity
      BY <2>1, <2>2, <2>3
    <3>2. \A ago \in 0 .. p.size - 1 :
            /\ p.ring[Slot(p, ago)] = longer[next[Len(next) - ago]]
            /\ p.ringIndex[Slot(p, ago)] = next[Len(next) - ago]
      BY <2>2, <2>5
    <3> QED BY <3>1, <3>2 DEF WindowInv
  <2> QED BY <2>6 DEF next
<1> QED BY <1>6, <1>7

\* The values that left the window, after one more.
LEMMA BestKept ==
  ASSUME NEW t, NEW capacity \in Nat \ {0}, NEW values, NEW list,
         TrackerInv(t, capacity, values, list),
         NEW value \in Values, NEW longer, Extended(longer, values, value),
         NEW p, Pushed(p, t, value)
  PROVE  BestInv(p, longer, Kept(list, values, value))
<1> DEFINE n == Len(values)
           m == Len(list)
           next == Kept(list, values, value)
           left == LeftWindow(t, values, list)
           first == m - capacity + 1
<1>1. /\ values \in Seq(Values) /\ list \in Seq(Nat \ {0}) /\ n \in Nat /\ m \in Nat
      /\ t.capacity = capacity /\ t.head \in 0 .. capacity - 1 /\ ListsFinite(list, values)
      /\ t.bestFrom \in Nat
  <2>1. /\ values \in Seq(Values) /\ list \in Seq(Nat \ {0})
        /\ ListsFinite(list, values) /\ TrackerType(t, capacity)
    BY DEF TrackerInv
  <2>2. n \in Nat /\ m \in Nat
    BY <2>1
  <2>3. t.capacity = capacity /\ t.head \in 0 .. capacity - 1 /\ t.bestFrom \in Nat
    BY <2>1 DEF TrackerType
  <2> HIDE DEF n, m
  <2> QED BY <2>1, <2>2, <2>3
<1>2. t.size = IF m < capacity THEN m ELSE capacity
  BY <1>1 DEF TrackerInv, WindowInv
<1>3. \A ago \in 0 .. t.size - 1 :
        /\ t.ring[Slot(t, ago)] = values[list[m - ago]]
        /\ t.ringIndex[Slot(t, ago)] = list[m - ago]
  BY DEF TrackerInv, WindowInv
<1>4. Len(longer) = n + 1 /\ longer[n + 1] = value /\ \A i \in 1 .. n : longer[i] = values[i]
  BY DEF Extended
<1>5. \A i \in 1 .. m : /\ list[i] \in 1 .. n /\ longer[list[i]] = values[list[i]]
                        /\ values[list[i]] \in Nat
  BY <1>1, <1>4, ListedValues
<1>6. /\ t.bestBefore = None => left = {}
      /\ t.bestBefore # None => t.bestBefore \in left /\ \A v \in left : t.bestBefore <= v
  BY DEF TrackerInv, BestInv
<1>7. left \in SUBSET Nat
  <2>1. \A i \in 1 .. m - t.size : i \in 1 .. m
    BY <1>1, <1>2
  <2> QED BY <1>5, <2>1 DEF LeftWindow
<1>8. None \notin Nat
  BY MonitorAssumption
<1>9. left = {values[list[i]] : i \in {j \in 1 .. m - t.size : list[j] >= t.bestFrom}}
  BY DEF LeftWindow
<1>10. CASE ~Finite(value)
  <2>1. next = list
    BY <1>10 DEF Kept
  <2>2. /\ p.size = t.size /\ p.bestFrom = t.bestFrom /\ p.bestBefore = t.bestBefore
    BY <1>10 DEF Pushed
  <2>3. \A i \in 1 .. m - t.size : i \in 1 .. m
    BY <1>1, <1>2
  <2>4. LeftWindow(p, longer, next) = left
    BY <1>5, <1>9, <2>1, <2>2, <2>3 DEF LeftWindow
  <2> HIDE DEF next, left
  <2> QED BY <1>6, <2>2, <2>4 DEF BestInv, next
<1>11. CASE Finite(value)
  <2>1. /\ p.capacity = capacity /\ p.bestFrom = t.bestFrom
        /\ p.size = Min({t.size + 1, capacity}) /\ p.bestBefore = BestBefore(t)
    BY <1>1, <1>11 DEF Pushed
  <2>2. /\ Len(next) = m + 1 /\ next[m + 1] = n + 1
        /\ \A i \in 1 .. m : next[i] = list[i]
    BY <1>1, <1>11, KeptList
  <2>3. p.size = IF m + 1 < capacity THEN m + 1 ELSE capacity
    <3>1. t.size + 1 \in Int /\ capacity \in Int
      BY <1>1, <1>2
    <3>2. p.size = IF t.size + 1 <= capacity THEN t.size + 1 ELSE capacity
      BY <2>1, <3>1, MinPair
    <3> QED BY <1>1, <1>2, <3>2
  <2> HIDE DEF next
  <2>4. LeftWindow(p, longer, next)
          = {longer[next[i]] : i \in {j \in 1 .. Len(next) - p.size : next[j] >= t.bestFrom}}
    BY <2>1 DEF LeftWindow
  <2>5. ASSUME t.size < capacity \/ list[first] < t.bestFrom
        PROVE  LeftWindow(p, longer, next) = left
    <3>1. \A i \in 1 .. Len(next) - p.size :
            i \in 1 .. m /\ (i \in 1 .. m - t.size \/ (t.size = capacity /\ i = first))
      <4> SUFFICES ASSUME NEW i \in 1 .. Len(next) - p.size
                   PROVE  /\ i \in 1 .. m
                          /\ i \in 1 .. m - t.size \/ (t.size = capacity /\ i = first)
        OBVIOUS
      <4> HIDE DEF m, left
      <4>1. CASE m < capacity
        <5>1. p.size = m + 1
          BY <1>1, <2>3, <4>1
        <5> QED BY <1>1, <2>2, <5>1
      <4>2. CASE ~(m < capacity)
        <5>1. p.size = capacity /\ t.size = capacity
          BY <1>1, <1>2, <2>3, <4>2
        <5> QED BY <1>1, <2>2, <4>2, <5>1
      <4> QED BY <4>1, <4>2
    <3>2. \A i \in 1 .. m - t.size : i \in 1 .. m /\ i \in 1 .. Len(next) - p.size
      BY <1>1, <1>2, <2>2, <2>3
    <3>3. \A i \in 1 .. m : list[i] \in Nat
      BY <1>5
    <3>4. \A i \in 1 .. Len(next) - p.size : next[i] >= t.bestFrom => i \in 1 .. m - t.size
      BY <1>1, <2>2, <2>5, <3>1, <3>3
    <3>5. {j \in 1 .. Len(next) - p.size : next[j] >= t.bestFrom}
            = {j \in 1 .. m - t.size : list[j] >= t.bestFrom}
      BY <2>2, <3>1, <3>2, <3>4
    <3>6. \A i \in 1 .. m - t.size : longer[next[i]] = values[list[i]]
      BY <1>5, <2>2, <3>2
    <3> HIDE DEF left
    <3> QED BY <1>9, <2>4, <3>5, <3>6
  <2>6. ASSUME ~(t.size < capacity), ~(list[first] < t.bestFrom)
        PROVE  LeftWindow(p, longer, next) = left \cup {values[list[first]]}
    <3>1. m >= capacity /\ t.size = capacity
      BY <1>1, <1>2, <2>6
    <3>2. 1 .. Len(next) - p.size = 1 .. m - t.size \cup {first} /\ first \in 1 .. m
      <4> HIDE DEF m, left
      <4>1. p.size = capacity
        BY <1>1, <2>3, <3>1
      <4>2. first \in Nat \ {0} /\ Len(next) - p.size = first /\ m - t.size = first - 1
        BY <1>1, <2>2, <3>1, <4>1
      <4>3. first <= m
        BY <1>1
      <4> HIDE DEF first
      <4> QED BY <1>1, <4>2, <4>3
    <3>3. \A i \in 1 .. m - t.size : i \in 1 .. m
      BY <1>1, <1>2
    <3>4. list[first] >= t.bestFrom
      BY <1>1, <1>5, <2>6, <3>2
    <3>5. {j \in 1 .. Len(next) - p.size : next[j] >= t.bestFrom}
            = {j \in 1 .. m - t.size : list[j] >= t.bestFrom} \cup {first}
      BY <2>2, <3>2, <3>3, <3>4
    <3>6. \A i \in 1 .. m : longer[next[i]] = values[list[i]]
      BY <1>5, <2>2
    <3> HIDE DEF left, first
    <3> QED BY <1>9, <2>4, <3>2, <3>3, <3>5, <3>6
  <2>7. t.size < capacity \/ (/\ t.ring[t.head] = values[list[first]]
                              /\ t.ringIndex[t.head] = list[first]
                              /\ values[list[first]] \in Nat)
    <3>1. ASSUME ~(t.size < capacity)
          PROVE  capacity - 1 \in 0 .. t.size - 1 /\ m - (capacity - 1) = first /\ first \in 1 .. m
      BY <1>1, <1>2, <3>1
    <3>2. Slot(t, capacity - 1) = t.head
      BY <1>1, LeavingSlot
    <3> HIDE DEF first
    <3> QED BY <1>3, <1>5, <3>1, <3>2
  <2>8. CASE t.size < capacity \/ list[first] < t.bestFrom
    <3>1. p.bestBefore = t.bestBefore
      BY <1>1, <2>1, <2>7, <2>8 DEF BestBefore, Leaving
    <3> HIDE DEF left
    <3>2. BestInv(p, longer, next)
      BY <1>6, <2>5, <2>8, <3>1 DEF BestInv
    <3> QED BY <3>2 DEF next
  <2>9. CASE ~(t.size < capacity) /\ ~(list[first] < t.bestFrom)
    <3> DEFINE old == values[list[first]]
    <3>1. old \in Nat
      BY <2>7, <2>9
    <3>2. p.bestBefore = IF t.bestBefore = None THEN old ELSE Min({t.bestBefore, old})
      BY <1>1, <2>1, <2>7, <2>9 DEF BestBefore, Leaving
    <3>3. LeftWindow(p, longer, next) = left \cup {old}
      BY <2>6, <2>9
    <3> HIDE DEF left, old
    <3>4. /\ p.bestBefore \in left \cup {old} /\ p.bestBefore \in Nat
          /\ \A v \in left \cup {old} : p.bestBefore <= v
      <4>1. CASE t.bestBefore = None
        BY <1>6, <3>1, <3>2, <4>1
      <4>2. CASE t.bestBefore # None
        <5>1. t.bestBefore \in left /\ t.bestBefore \in Nat /\ t.bestBefore \in Int /\ old \in Int
          <6>1. t.bestBefore \in left
            BY <1>6, <4>2
          <6>2. \A v \in left : v \in Nat
            BY <1>7
          <6>3. t.bestBefore \in Nat
            BY <6>1, <6>2
          <6> QED BY <3>1, <6>1, <6>3
        <5>2. p.bestBefore = IF t.bestBefore <= old THEN t.bestBefore ELSE old
          BY <3>2, <4>2, <5>1, MinPair
        <5>3. \A v \in left : v \in Nat /\ t.bestBefore <= v
          BY <1>6, <1>7, <4>2
        <5> QED BY <3>1, <5>1, <5>2, <5>3
      <4> QED BY <4>1, <4>2
    <3>5. BestInv(p, longer, next)
      BY <1>8, <3>3, <3>4 DEF BestInv
    <3> QED BY <3>5 DEF next
  <2> QED BY <2>8, <2>9
<1> QED BY <1>10, <1>11

\* The values of the reference iterations, after one more.
LEMMA ReferenceKept ==
  ASSUME NEW t, NEW capacity \in Nat \ {0}, NEW values, NEW list,
         TrackerInv(t, capacity, values, list),
         NEW value \in Values, NEW longer, Extended(longer, values, value),
         NEW p, Pushed(p, t, value)
  PROVE  ReferenceInv(p, longer, Kept(list, values, value))
<1> DEFINE n == Len(values)
           m == Len(list)
           next == Kept(list, values, value)
           first == FirstValues(t, values, list)
<1>1. /\ values \in Seq(Values) /\ list \in Seq(Nat \ {0}) /\ n \in Nat /\ m \in Nat
      /\ ListsFinite(list, values) /\ t.count = n
      /\ t.references \in Nat /\ t.reference \in Nat
  <2>1. /\ values \in Seq(Values) /\ list \in Seq(Nat \ {0}) /\ t.count = n
        /\ ListsFinite(list, values) /\ TrackerType(t, capacity)
    BY DEF TrackerInv
  <2>2. n \in Nat /\ m \in Nat
    BY <2>1
  <2>3. t.references \in Nat /\ t.reference \in Nat
    BY <2>1 DEF TrackerType
  <2> HIDE DEF n, m
  <2> QED BY <2>1, <2>2, <2>3
<1>2. Len(longer) = n + 1 /\ longer[n + 1] = value /\ \A i \in 1 .. n : longer[i] = values[i]
  BY DEF Extended
<1>3. \A i \in 1 .. m : /\ list[i] \in 1 .. n /\ longer[list[i]] = values[list[i]]
                        /\ values[list[i]] \in Nat
  BY <1>1, <1>2, ListedValues
<1>4. t.reference \in first \cup {0} /\ \A v \in first : v <= t.reference
  BY DEF TrackerInv, ReferenceInv
<1>5. first = {values[list[i]] : i \in {j \in 1 .. m : list[j] <= t.references}}
  BY DEF FirstValues
<1>6. \A v \in first : v \in Nat
  BY <1>3, <1>5
<1>7. CASE ~Finite(value)
  <2>1. next = list
    BY <1>7 DEF Kept
  <2>2. p.references = t.references /\ p.reference = t.reference
    BY <1>7 DEF Pushed
  <2>3. FirstValues(p, longer, next) = first
    BY <1>3, <1>5, <2>1, <2>2 DEF FirstValues
  <2> HIDE DEF next, first
  <2> QED BY <1>4, <2>2, <2>3 DEF ReferenceInv, next
<1>8. CASE Finite(value)
  <2>1. /\ p.references = t.references
        /\ p.reference = IF n + 1 <= t.references
                         THEN Max({t.reference, value}) ELSE t.reference
    BY <1>1, <1>8 DEF Pushed
  <2>2. /\ Len(next) = m + 1 /\ next[m + 1] = n + 1
        /\ \A i \in 1 .. m : next[i] = list[i]
    BY <1>1, <1>8, KeptList
  <2>3. value \in Nat
    BY <1>8 DEF Values, Finite
  <2>4. 1 .. Len(next) = 1 .. m \cup {m + 1}
    BY <1>1, <2>2
  <2> HIDE DEF next
  <2>5. FirstValues(p, longer, next)
          = {longer[next[i]] : i \in {j \in 1 .. Len(next) : next[j] <= t.references}}
    BY <2>1 DEF FirstValues
  <2>6. \A i \in 1 .. m : longer[next[i]] = values[list[i]]
    BY <1>3, <2>2
  <2>7. CASE n + 1 <= t.references
    <3>1. {j \in 1 .. Len(next) : next[j] <= t.references}
            = {j \in 1 .. m : list[j] <= t.references} \cup {m + 1}
      BY <2>2, <2>4, <2>7
    <3>2. FirstValues(p, longer, next) = first \cup {value}
      <4> HIDE DEF first
      <4> QED BY <1>2, <1>5, <2>2, <2>5, <2>6, <3>1
    <3>3. p.reference = IF t.reference >= value THEN t.reference ELSE value
      <4>1. t.reference \in Int /\ value \in Int
        BY <1>1, <2>3
      <4> QED BY <2>1, <2>7, <4>1, MaxPair
    <3> HIDE DEF first
    <3>4. p.reference \in first \cup {value} \cup {0}
      BY <1>1, <1>4, <2>3, <3>3
    <3>5. \A v \in first \cup {value} : v <= p.reference
      BY <1>1, <1>4, <1>6, <2>3, <3>3
    <3>6. ReferenceInv(p, longer, next)
      BY <3>2, <3>4, <3>5 DEF ReferenceInv
    <3> QED BY <3>6 DEF next
  <2>8. CASE ~(n + 1 <= t.references)
    <3>1. {j \in 1 .. Len(next) : next[j] <= t.references}
            = {j \in 1 .. m : list[j] <= t.references}
      BY <2>2, <2>4, <2>8
    <3>2. FirstValues(p, longer, next) = first
      <4> HIDE DEF first
      <4> QED BY <1>5, <2>5, <2>6, <3>1
    <3> HIDE DEF first
    <3>3. ReferenceInv(p, longer, next)
      BY <1>4, <2>1, <2>8, <3>2 DEF ReferenceInv
    <3> QED BY <3>3 DEF next
  <2> QED BY <2>7, <2>8
<1> QED BY <1>7, <1>8

\* Pushing one more value keeps the invariant of a tracker.
LEMMA PushKeepsInv ==
  ASSUME NEW t, NEW capacity \in Nat \ {0}, NEW values, NEW list,
         TrackerInv(t, capacity, values, list),
         NEW value \in Values, NEW longer, Extended(longer, values, value)
  PROVE  TrackerInv(Push(t, value), capacity, longer, Kept(list, values, value))
<1> DEFINE p == Push(t, value)
           next == Kept(list, values, value)
<1>1. /\ TrackerType(t, capacity) /\ values \in Seq(Values) /\ list \in Seq(Nat \ {0})
      /\ t.count = Len(values) /\ ListsFinite(list, values)
  BY DEF TrackerInv
<1>2. Pushed(p, t, value)
  BY <1>1, PushFields
<1> HIDE DEF p
<1>3. TrackerType(p, capacity)
  BY <1>1, <1>2, PushType
<1>4. next \in Seq(Nat \ {0}) /\ ListsFinite(next, longer)
  BY <1>1, ListsExtended
<1>5. longer \in Seq(Values) /\ p.count = Len(longer)
  BY <1>1, <1>2 DEF Extended, Pushed
<1>6. WindowInv(p, longer, next)
  BY <1>2, WindowKept
<1>7. BestInv(p, longer, next)
  BY <1>2, BestKept
<1>8. ReferenceInv(p, longer, next)
  BY <1>2, ReferenceKept
<1>9. TrackerInv(p, capacity, longer, next)
  BY <1>3, <1>4, <1>5, <1>6, <1>7, <1>8 DEF TrackerInv
<1> QED BY <1>9 DEF p

\* A tracker that has been given nothing.
LEMMA NewTrackerInv ==
  ASSUME NEW floor \in Nat \ {0}, NEW references \in Nat, NEW capacity \in Nat \ {0},
         NEW bestFrom \in Nat
  PROVE  TrackerInv(NewTracker(floor, references, capacity, bestFrom), capacity, << >>, << >>)
<1> DEFINE t == NewTracker(floor, references, capacity, bestFrom)
<1>1. Max({bestFrom, 1}) \in Nat \ {0}
  BY MaxPair
<1>2. /\ t.floor = floor /\ t.references = references /\ t.capacity = capacity
      /\ t.bestFrom = Max({bestFrom, 1}) /\ t.count = 0 /\ t.latest = 0 /\ t.reference = 0
      /\ t.bestBefore = None /\ t.head = 0 /\ t.size = 0
      /\ t.ring = [i \in 0 .. capacity - 1 |-> 0]
      /\ t.ringIndex = [i \in 0 .. capacity - 1 |-> 0]
  BY DEF NewTracker
<1>3. DOMAIN t = Members
  BY DEF NewTracker, Members
<1> HIDE DEF t
<1>4. TrackerType(t, capacity)
  <2>1. 0 \in 0 .. capacity - 1 /\ 0 \in 0 .. capacity
    OBVIOUS
  <2>2. t.ring \in [0 .. capacity - 1 -> Nat] /\ t.ringIndex \in [0 .. capacity - 1 -> Nat]
    BY <1>2
  <2>3. t.latest \in Values
    BY <1>2 DEF Values
  <2> QED BY <1>1, <1>2, <1>3, <2>1, <2>2, <2>3 DEF TrackerType
<1>5. << >> \in Seq(Values) /\ << >> \in Seq(Nat \ {0}) /\ Len(<< >>) = 0
  OBVIOUS
<1>6. ListsFinite(<< >>, << >>)
  BY DEF ListsFinite
<1>7. WindowInv(t, << >>, << >>)
  BY <1>2, <1>5 DEF WindowInv
<1>8. BestInv(t, << >>, << >>)
  <2>1. 1 .. Len(<< >>) - t.size = {}
    BY <1>2
  <2>2. LeftWindow(t, << >>, << >>) = {}
    BY <2>1 DEF LeftWindow
  <2> QED BY <1>2, <2>2 DEF BestInv
<1>9. ReferenceInv(t, << >>, << >>)
  <2>1. FirstValues(t, << >>, << >>) = {}
    BY <1>5 DEF FirstValues
  <2> QED BY <1>2, <2>1 DEF ReferenceInv
<1>10. TrackerInv(t, capacity, << >>, << >>)
  BY <1>2, <1>4, <1>5, <1>6, <1>7, <1>8, <1>9 DEF TrackerInv
<1> QED BY <1>10 DEF t

\* The invariant is what the definition of a tracker over its history says.
LEMMA InvReflects ==
  ASSUME NEW t, NEW capacity \in Nat \ {0}, NEW values, NEW list,
         TrackerInv(t, capacity, values, list)
  PROVE  Reflects(t, values, list)
<1> DEFINE n == Len(list)
           left == LeftWindow(t, values, list)
           first == FirstValues(t, values, list)
<1>1. /\ TrackerType(t, capacity) /\ values \in Seq(Values) /\ list \in Seq(Nat \ {0})
      /\ t.count = Len(values) /\ ListsFinite(list, values) /\ WindowInv(t, values, list)
      /\ BestInv(t, values, list) /\ ReferenceInv(t, values, list)
  BY DEF TrackerInv
<1>2. n \in Nat /\ t.capacity = capacity /\ t.reference \in Nat
  BY <1>1 DEF TrackerType
<1>3. t.size = IF n < capacity THEN n ELSE capacity
  BY <1>1, <1>2 DEF WindowInv
<1>4. t.size = Min({n, capacity})
  BY <1>2, <1>3, MinPair
<1>5. \A ago \in 0 .. t.size - 1 : ValueAgo(t, ago) = values[list[n - ago]]
  BY <1>1 DEF WindowInv, ValueAgo, Slot
<1>6. \A i \in 1 .. n : values[list[i]] \in Nat
  BY <1>1, ListedValues
<1>7. left \in SUBSET Int
  <2>1. \A i \in 1 .. n - t.size : i \in 1 .. n
    BY <1>2, <1>3
  <2> QED BY <1>6, <2>1 DEF LeftWindow
<1>8. first \cup {0} \in SUBSET Int /\ \A v \in first : v \in Nat
  BY <1>6 DEF FirstValues
<1> HIDE DEF left, first
<1>9. t.bestBefore = IF left = {} THEN None ELSE Min(left)
  <2>1. CASE t.bestBefore = None
    BY <1>1, <2>1 DEF BestInv, left
  <2>2. CASE t.bestBefore # None
    <3>1. t.bestBefore \in left /\ \A v \in left : t.bestBefore <= v
      BY <1>1, <2>2 DEF BestInv, left
    <3> QED BY <1>7, <3>1, MinIsLeast
  <2> QED BY <2>1, <2>2
<1>10. t.reference = Max(first \cup {0})
  <2>1. t.reference \in first \cup {0} /\ \A v \in first : v <= t.reference
    BY <1>1 DEF ReferenceInv, first
  <2>2. \A v \in first \cup {0} : v <= t.reference
    BY <1>2, <2>1
  <2> QED BY <1>8, <2>1, <2>2, MaxIsLargest
<1> QED BY <1>1, <1>2, <1>4, <1>5, <1>9, <1>10 DEF Reflects, left, first

--------------------------------------------------------------------------------
(* What the monitor computes from its trackers.                            *)

\* The trackers of an iteration, as far as the verdict depends on their types.
Judged(ts) == \A q \in Tracked : TrackerType(ts[q], DivergenceWindow)

\* A threshold is a positive number.
LEMMA ThresholdType ==
  ASSUME NEW ts, Judged(ts), NEW q \in Gates
  PROVE  Threshold(ts, q) \in Nat \ {0}
<1>1. CASE q \in Relative /\ settings.normalized
  <2> DEFINE f == ts[q].floor
             r == ts[q].reference
             s == (NormalizedPercent * r) \div 100
  <2>1. q \in Tracked
    BY <1>1, MonitorAssumption
  <2>2. f \in Nat \ {0} /\ r \in Nat
    BY <2>1 DEF Judged, TrackerType
  <2>3. NormalizedPercent \in Nat
    BY MonitorAssumption
  <2> HIDE DEF f, r
  <2>4. NormalizedPercent * r \in Nat
    BY <2>2, <2>3
  <2>5. s \in Nat
    BY <2>4
  <2> HIDE DEF s
  <2>6. Max({s, f}) = IF s >= f THEN s ELSE f
    BY <2>2, <2>5, MaxPair
  <2>7. Max({s, f}) \in Nat \ {0}
    BY <2>2, <2>5, <2>6
  <2>8. Threshold(ts, q) = Max({s, f})
    BY <1>1 DEF Threshold, s, r, f
  <2> QED BY <2>7, <2>8
<1>2. CASE ~(q \in Relative /\ settings.normalized)
  BY <1>2, MonitorAssumption DEF Threshold
<1> QED BY <1>1, <1>2

\* The largest of finitely many numbers is one of them and at least each of them.
LEMMA LargestOf ==
  ASSUME NEW Q, IsFiniteSet(Q), Q # {}, NEW f \in [Q -> Nat]
  PROVE  /\ Max({f[q] : q \in Q}) \in Nat
         /\ \E p \in Q : Max({f[q] : q \in Q}) = f[p]
         /\ \A p \in Q : f[p] <= Max({f[q] : q \in Q})
<1>1. PICK top \in Q : \A p \in Q : f[p] <= f[top]
  BY LargestExists
<1>2. {f[q] : q \in Q} \in SUBSET Int /\ f[top] \in {f[q] : q \in Q}
  OBVIOUS
<1>3. Max({f[q] : q \in Q}) = f[top]
  BY <1>1, <1>2, MaxIsLargest
<1> QED BY <1>1, <1>3

\* The distance is a number or overflows, and is at most one exactly at convergence.
LEMMA DistanceIsVerdict ==
  ASSUME NEW ts, Judged(ts), NEW sample \in [Gates -> Values]
  PROVE  /\ Distance(ts, sample) \in Values
         /\ IsConverged(ts, sample)
              <=> Finite(Distance(ts, sample)) /\ Distance(ts, sample) <= Scale
<1>1. CASE \E q \in Gates : ~Finite(sample[q])
  BY <1>1 DEF Distance, IsConverged, Values, Finite
<1>2. CASE \A q \in Gates : Finite(sample[q])
  <2> DEFINE f == [q \in Gates |-> Ratio(sample[q], Threshold(ts, q))]
  <2>1. \A q \in Gates : sample[q] \in Nat /\ Threshold(ts, q) \in Nat \ {0}
    BY <1>2, ThresholdType DEF Values, Finite
  <2>2. \A q \in Gates : /\ f[q] \in Nat
                         /\ f[q] <= Scale <=> sample[q] <= Threshold(ts, q)
    BY <2>1, RatioWithinOne
  <2>3. f \in [Gates -> Nat]
    BY <2>2
  <2>4. IsFiniteSet(Gates) /\ Gates # {}
    BY MonitorAssumption
  <2>5. Distance(ts, sample) = Max({f[q] : q \in Gates})
    BY <1>2 DEF Distance
  <2> HIDE DEF f
  <2>6. /\ Distance(ts, sample) \in Nat
        /\ \E q \in Gates : Distance(ts, sample) = f[q]
        /\ \A q \in Gates : f[q] <= Distance(ts, sample)
    <3>1. /\ Max({f[q] : q \in Gates}) \in Nat
          /\ \E p \in Gates : Max({f[q] : q \in Gates}) = f[p]
          /\ \A p \in Gates : f[p] <= Max({f[q] : q \in Gates})
      BY <2>3, <2>4, LargestOf
    <3> QED BY <2>5, <3>1
  <2>7. Finite(Distance(ts, sample))
    BY <2>6, RelaxationAssumption DEF Finite
  <2>8. Scale \in Nat
    BY MonitorAssumption
  <2>9. Distance(ts, sample) <= Scale <=> \A q \in Gates : f[q] <= Scale
    BY <2>2, <2>6, <2>8
  <2>10. IsConverged(ts, sample) <=> \A q \in Gates : f[q] <= Scale
    BY <1>2, <2>2 DEF IsConverged
  <2> QED BY <2>6, <2>7, <2>9, <2>10 DEF Values
<1> QED BY <1>1, <1>2

\* The controller is given a number or Overflow.
LEMMA MeasureType ==
  ASSUME NEW ts, Judged(ts)
  PROVE  MeasuresOf(ts) \subseteq Measures \cup {Overflow}
<1> DEFINE f == [q \in Relative |-> Normalized(ts[q])]
<1>1. ASSUME NEW q \in Relative
      PROVE  f[q] \in Values
  <2> DEFINE t == ts[q]
             limit == Max({t.reference, t.floor})
             product == Scale * t.latest
  <2>1. q \in Tracked
    BY MonitorAssumption
  <2>2. t.latest \in Values /\ t.reference \in Nat /\ t.floor \in Nat \ {0}
    BY <2>1 DEF Judged, TrackerType
  <2>3. limit \in Nat \ {0}
    <3>1. t.reference \in Int /\ t.floor \in Int
      BY <2>2
    <3>2. limit = IF t.reference >= t.floor THEN t.reference ELSE t.floor
      BY <3>1, MaxPair
    <3> QED BY <2>2, <3>2
  <2>4. CASE Finite(t.latest)
    <3>1. Scale \in Nat /\ t.latest \in Nat
      BY <2>2, <2>4, MonitorAssumption DEF Values, Finite
    <3>2. product \in Nat
      BY <3>1
    <3> HIDE DEF product, limit, t
    <3>3. product \div limit \in Nat
      BY <2>3, <3>2
    <3>4. Normalized(t) = product \div limit
      BY <2>4 DEF Normalized, product, limit
    <3> QED BY <3>3, <3>4 DEF Values, t
  <2>5. CASE ~Finite(t.latest)
    BY <2>5 DEF Normalized, Values
  <2> QED BY <2>4, <2>5
<1> DEFINE finite == {f[q] : q \in Relative} \ {Overflow}
<1>2. MeasuresOf(ts) \subseteq {Overflow} \cup (IF finite = {} THEN {} ELSE {Max(finite)})
  BY DEF MeasuresOf
<1>3. ASSUME finite # {}
      PROVE  Max(finite) \in Nat
  <2> DEFINE Q == {q \in Relative : f[q] # Overflow}
             g == [q \in Q |-> f[q]]
  <2>1. finite = {g[q] : q \in Q} /\ Q # {}
    BY <1>3
  <2>2. g \in [Q -> Nat]
    <3>1. \A q \in Q : f[q] \in Nat
      <4> HIDE DEF f
      <4> QED BY <1>1 DEF Values
    <3> QED BY <3>1
  <2>3. IsFiniteSet(Q)
    BY MonitorAssumption, FS_Subset
  <2> HIDE DEF f, g, Q
  <2> QED BY <2>1, <2>2, <2>3, LargestOf
<1> HIDE DEF f, finite
<1> QED BY <1>2, <1>3 DEF Measures

--------------------------------------------------------------------------------
(* The invariant of the monitor.                                           *)

\* While divergence is looked for, the first overflow of a tracked residual ends the
\* solve: until then a tracker has left no value out.
DivergenceSawAll ==
  settings.divergence /\ (samples # << >> => ~Overflowed(LastSample)) =>
    \A q \in Tracked :
      /\ Len(kept[q]) = Len(samples)
      /\ \A i \in 1 .. Len(samples) : kept[q][i] = i

\* What the trackers, the lists of finite values and the last verdict have in common
\* with the residuals since the first iteration.
MonitorInv ==
  /\ samples \in Seq(Samples)
  /\ \A q \in Tracked :
       /\ TrackerInv(trackers[q], DivergenceWindow, History(q), kept[q])
       /\ trackers[q].floor = Tolerance[q]
       /\ trackers[q].references = ReferenceIterations
       /\ trackers[q].bestFrom = Max({DivergenceStart, 1})
  /\ TrackerInv(distances, StagnationWindow, distanceLog, keptDistances)
  /\ distances.bestFrom = 1
  /\ Len(distanceLog) = Len(samples)
  /\ \A i \in 1 .. Len(samples) - 1 : Finite(distanceLog[i]) => distanceLog[i] > Scale
  /\ DivergenceSawAll
  /\ samples = << >> => verdict = "Continue"
  /\ samples # << >> =>
       /\ verdict = Verdict(trackers, distances, LastSample, Len(samples))
       /\ distanceLog[Len(samples)] = Distance(trackers, LastSample)

\* The invariant holds before the first iteration.
LEMMA MonitorInvInit == MonitorInit => MonitorInv
<1> SUFFICES ASSUME MonitorInit PROVE MonitorInv
  OBVIOUS
<1>1. samples = << >> /\ distanceLog = << >> /\ verdict = "Continue"
  BY DEF MonitorInit
<1>2. ASSUME NEW q \in Tracked
      PROVE  /\ TrackerInv(trackers[q], DivergenceWindow, History(q), kept[q])
             /\ trackers[q].floor = Tolerance[q]
             /\ trackers[q].references = ReferenceIterations
             /\ trackers[q].bestFrom = Max({DivergenceStart, 1})
  <2>1. History(q) = << >> /\ kept[q] = << >>
    BY <1>1 DEF History, MonitorInit
  <2>2. /\ Tolerance[q] \in Nat \ {0} /\ ReferenceIterations \in Nat
        /\ DivergenceWindow \in Nat \ {0} /\ DivergenceStart \in Nat
    BY MonitorAssumption
  <2>3. trackers[q] = NewTracker(Tolerance[q], ReferenceIterations, DivergenceWindow,
                                 DivergenceStart)
    BY DEF MonitorInit
  <2>4. TrackerInv(trackers[q], DivergenceWindow, << >>, << >>)
    BY <2>2, <2>3, NewTrackerInv
  <2> QED BY <2>1, <2>3, <2>4 DEF NewTracker
<1>3. TrackerInv(distances, StagnationWindow, distanceLog, keptDistances)
  <2>1. StagnationWindow \in Nat \ {0}
    BY MonitorAssumption
  <2>2. TrackerInv(NewTracker(1, 1, StagnationWindow, 1), StagnationWindow, << >>, << >>)
    BY <2>1, NewTrackerInv
  <2> QED BY <2>2 DEF MonitorInit
<1>4. distances.bestFrom = 1
  <2>1. Max({1, 1}) = 1
    BY MaxPair
  <2> QED BY <2>1 DEF MonitorInit, NewTracker
<1>5. samples \in Seq(Samples) /\ Len(samples) = 0 /\ Len(distanceLog) = 0
  BY <1>1
<1>6. \A i \in 1 .. Len(samples) - 1 : FALSE
  BY <1>5
<1>7. DivergenceSawAll
  BY <1>5 DEF DivergenceSawAll, MonitorInit
<1> QED BY <1>1, <1>2, <1>3, <1>4, <1>5, <1>6, <1>7 DEF MonitorInv

\* The trackers can be judged, and the last sample is one of residuals.
LEMMA InvJudged ==
  ASSUME MonitorInv
  PROVE  /\ Judged(trackers)
         /\ samples # << >> => LastSample \in [Gates -> Values] /\ Len(samples) \in Nat \ {0}
<1>1. Judged(trackers)
  BY DEF MonitorInv, TrackerInv, Judged
<1>2. ASSUME samples # << >>
      PROVE  LastSample \in [Gates -> Values] /\ Len(samples) \in Nat \ {0}
  <2>1. samples \in Seq(Samples)
    BY DEF MonitorInv
  <2>2. Len(samples) \in Nat \ {0} /\ LastSample \in Samples
    BY <1>2, <2>1 DEF LastSample
  <2> QED BY <2>2, MonitorAssumption DEF Values
<1> QED BY <1>1, <1>2

\* A solve that goes on, or is given up, has never been within its tolerances.
LEMMA InvUnconverged ==
  ASSUME MonitorInv, verdict # "Converged"
  PROVE  \A i \in 1 .. Len(samples) : Finite(distanceLog[i]) => distanceLog[i] > Scale
<1> SUFFICES ASSUME NEW i \in 1 .. Len(samples), Finite(distanceLog[i])
             PROVE  distanceLog[i] > Scale
  OBVIOUS
<1>1. Len(samples) \in Nat
  BY DEF MonitorInv
<1>2. CASE i \in 1 .. Len(samples) - 1
  BY <1>2 DEF MonitorInv
<1>3. CASE i = Len(samples)
  <2>1. samples # << >>
    BY <1>1, <1>3
  <2>2. /\ verdict = Verdict(trackers, distances, LastSample, Len(samples))
        /\ distanceLog[i] = Distance(trackers, LastSample)
    BY <1>3, <2>1 DEF MonitorInv
  <2>3. ~IsConverged(trackers, LastSample)
    BY <2>2 DEF Verdict
  <2>4. Distance(trackers, LastSample) \in Nat
        /\ ~(Distance(trackers, LastSample) <= Scale)
    BY <2>1, <2>2, <2>3, InvJudged, DistanceIsVerdict DEF Values, Finite
  <2>5. Scale \in Nat
    BY MonitorAssumption
  <2> QED BY <2>2, <2>4, <2>5
<1> QED BY <1>1, <1>2, <1>3

\* The history with one more value.
LEMMA Appended ==
  ASSUME NEW values \in Seq(Values), NEW value \in Values
  PROVE  Extended(Append(values, value), values, value)
BY DEF Extended

\* The verdict is judged from the settings, which an iteration leaves alone.
LEMMA VerdictPrimed ==
  ASSUME settings' = settings
  PROVE  /\ Distance(trackers, LastSample)' = Distance(trackers', LastSample')
         /\ Verdict(trackers, distances, LastSample, Len(samples))'
              = Verdict(trackers', distances', LastSample', Len(samples'))
<1>1. \A q : Threshold(trackers, q)' = Threshold(trackers', q)
  BY DEF Threshold
<1>2. IsConverged(trackers, LastSample)' <=> IsConverged(trackers', LastSample')
  BY <1>1 DEF IsConverged
<1>3. IsDiverging(trackers, LastSample, Len(samples))'
        <=> IsDiverging(trackers', LastSample', Len(samples'))
  BY DEF IsDiverging
<1>4. IsStagnating(distances, Len(samples))' <=> IsStagnating(distances', Len(samples'))
  BY DEF IsStagnating
<1>5. Distance(trackers, LastSample)' = Distance(trackers', LastSample')
  BY <1>1 DEF Distance
<1> QED BY <1>2, <1>3, <1>4, <1>5 DEF Verdict

\* record() keeps the invariant: it pushes, and then judges what it has pushed.
LEMMA RecordKeepsInv ==
  ASSUME MonitorInv, NEW sample \in Samples, Record(sample)
  PROVE  MonitorInv'
<1>1. /\ samples \in Seq(Samples) /\ samples' = Append(samples, sample)
      /\ samples' \in Seq(Samples) /\ Len(samples') = Len(samples) + 1
      /\ samples'[Len(samples) + 1] = sample
      /\ \A i \in 1 .. Len(samples) : samples'[i] = samples[i]
      /\ Len(samples) \in Nat
  BY DEF MonitorInv, Record
<1>2. sample \in [Gates -> Values]
  BY MonitorAssumption DEF Values
<1>3. ASSUME NEW q \in Tracked
      PROVE  /\ TrackerInv(trackers'[q], DivergenceWindow, History(q)', kept'[q])
             /\ trackers'[q].floor = Tolerance[q]
             /\ trackers'[q].references = ReferenceIterations
             /\ trackers'[q].bestFrom = Max({DivergenceStart, 1})
  <2> DEFINE t == trackers[q]
             v == sample[q]
  <2>1. /\ TrackerInv(t, DivergenceWindow, History(q), kept[q])
        /\ t.floor = Tolerance[q] /\ t.references = ReferenceIterations
        /\ t.bestFrom = Max({DivergenceStart, 1})
    BY DEF MonitorInv
  <2>2. v \in Values /\ DivergenceWindow \in Nat \ {0}
    BY <1>2, MonitorAssumption
  <2>3. trackers'[q] = Push(t, v)
    BY DEF Record
  <2>4. Len(History(q)) = Len(samples)
    BY <1>1 DEF History
  <2>5. kept'[q] = Kept(kept[q], History(q), v)
    BY <2>4 DEF Record, Noted, Kept
  <2>6. Extended(History(q)', History(q), v)
    <3>1. \A i \in 1 .. Len(samples') : samples'[i] \in [Gates -> Values] /\ q \in Gates
      BY <1>1, MonitorAssumption DEF Values
    <3>2. History(q)' = [i \in 1 .. Len(samples') |-> samples'[i][q]]
      BY DEF History
    <3>3. Len(History(q)') = Len(samples')
      BY <1>1, <3>2
    <3>4. History(q)' \in Seq(Values)
      BY <1>1, <3>1, <3>2
    <3>5. \A i \in 1 .. Len(samples) : History(q)'[i] = History(q)[i]
      BY <1>1, <3>2 DEF History
    <3>6. History(q)'[Len(History(q)')] = v
      BY <1>1, <3>2, <3>3
    <3> QED BY <1>1, <2>4, <3>3, <3>4, <3>5, <3>6 DEF Extended
  <2>7. TrackerInv(Push(t, v), DivergenceWindow, History(q)', Kept(kept[q], History(q), v))
    BY <2>1, <2>2, <2>6, PushKeepsInv
  <2>8. TrackerType(t, DivergenceWindow)
    BY <2>1 DEF TrackerInv
  <2>9. Pushed(Push(t, v), t, v)
    BY <2>2, <2>8, PushFields
  <2> QED BY <2>1, <2>3, <2>5, <2>7, <2>9 DEF Pushed
<1>4. Judged(trackers')
  BY <1>3 DEF Judged, TrackerInv
<1> DEFINE d == Distance(trackers', sample)
<1>5. d \in Values
  BY <1>2, <1>4, DistanceIsVerdict
<1>6. /\ distanceLog' = Append(distanceLog, d) /\ distances' = Push(distances, d)
      /\ keptDistances' = Noted(keptDistances, d)
      /\ verdict' = Verdict(trackers', distances', sample, Len(samples'))
      /\ settings' = settings
  BY DEF Record
<1> HIDE DEF d
<1>7. /\ TrackerInv(distances, StagnationWindow, distanceLog, keptDistances)
      /\ distances.bestFrom = 1 /\ Len(distanceLog) = Len(samples)
      /\ distanceLog \in Seq(Values)
  BY DEF MonitorInv, TrackerInv
<1>8. /\ TrackerInv(distances', StagnationWindow, distanceLog', keptDistances')
      /\ distances'.bestFrom = 1
  <2>1. Extended(distanceLog', distanceLog, d)
    BY <1>5, <1>6, <1>7, Appended
  <2>2. keptDistances' = Kept(keptDistances, distanceLog, d)
    BY <1>6, <1>7 DEF Noted, Kept
  <2>3. StagnationWindow \in Nat \ {0}
    BY MonitorAssumption
  <2>4. TrackerInv(distances', StagnationWindow, distanceLog', keptDistances')
    BY <1>5, <1>6, <1>7, <2>1, <2>2, <2>3, PushKeepsInv
  <2>5. TrackerType(distances, StagnationWindow)
    BY <1>7 DEF TrackerInv
  <2>6. Pushed(Push(distances, d), distances, d)
    BY <2>3, <2>5, PushFields
  <2> QED BY <1>6, <1>7, <2>4, <2>6 DEF Pushed
<1>9. LastSample' = sample /\ samples' # << >>
  BY <1>1 DEF LastSample
<1>10. /\ Len(distanceLog') = Len(samples') /\ distanceLog'[Len(samples')] = d
  BY <1>1, <1>5, <1>6, <1>7
<1>11. /\ verdict' = Verdict(trackers, distances, LastSample, Len(samples))'
       /\ distanceLog'[Len(samples')] = Distance(trackers, LastSample)'
  BY <1>6, <1>9, <1>10, VerdictPrimed DEF d
<1>12. \A i \in 1 .. Len(samples') - 1 : Finite(distanceLog'[i]) => distanceLog'[i] > Scale
  <2>1. verdict # "Converged"
    BY DEF Record
  <2>2. \A i \in 1 .. Len(samples) : distanceLog'[i] = distanceLog[i]
    BY <1>5, <1>6, <1>7
  <2>3. Len(samples') - 1 = Len(samples)
    BY <1>1
  <2> QED BY <2>1, <2>2, <2>3, InvUnconverged
<1>13. DivergenceSawAll'
  <2> SUFFICES ASSUME settings.divergence, ~Overflowed(sample), NEW q \in Tracked
               PROVE  /\ Len(kept'[q]) = Len(samples')
                      /\ \A i \in 1 .. Len(samples') : kept'[q][i] = i
    BY <1>6, <1>9 DEF DivergenceSawAll
  <2>1. samples # << >> => ~Overflowed(LastSample)
    <3> SUFFICES ASSUME samples # << >> PROVE ~Overflowed(LastSample)
      OBVIOUS
    <3>1. verdict = "Continue" /\ verdict = Verdict(trackers, distances, LastSample, Len(samples))
      BY DEF Record, MonitorInv
    <3>2. ~IsConverged(trackers, LastSample)
          /\ ~IsDiverging(trackers, LastSample, Len(samples))
      BY <3>1 DEF Verdict
    <3> QED BY <3>2 DEF IsDiverging
  <2>2. /\ Len(kept[q]) = Len(samples) /\ \A i \in 1 .. Len(samples) : kept[q][i] = i
        /\ kept[q] \in Seq(Nat \ {0})
    BY <2>1 DEF MonitorInv, DivergenceSawAll, TrackerInv
  <2>3. Finite(sample[q])
    <3>1. q \in Gates \ Unchecked
      BY MonitorAssumption
    <3> QED BY <3>1 DEF Overflowed
  <2>4. kept'[q] = Append(kept[q], Len(samples) + 1)
    BY <2>3 DEF Record, Noted
  <2> QED BY <1>1, <2>2, <2>4
<1> QED BY <1>1, <1>3, <1>7, <1>8, <1>9, <1>10, <1>11, <1>12, <1>13 DEF MonitorInv

\* Every step preserves the invariant.
LEMMA MonitorInvNext == MonitorInv /\ [MonitorNext]_allVars => MonitorInv'
<1> SUFFICES ASSUME MonitorInv, [MonitorNext]_allVars PROVE MonitorInv'
  OBVIOUS
<1>1. CASE UNCHANGED allVars
  <2>1. UNCHANGED monitorVars
    BY <1>1 DEF allVars
  <2>2. \A q : History(q)' = History(q)
    BY <2>1 DEF History, monitorVars
  <2>3. LastSample' = LastSample
    BY <2>1 DEF LastSample, monitorVars
  <2>4. /\ Distance(trackers, LastSample)' = Distance(trackers, LastSample)
        /\ Verdict(trackers, distances, LastSample, Len(samples))'
              = Verdict(trackers, distances, LastSample, Len(samples))
    BY <2>1, <2>3, VerdictPrimed DEF monitorVars
  <2>5. DivergenceSawAll' <=> DivergenceSawAll
    BY <2>1, <2>3 DEF DivergenceSawAll, monitorVars
  <2> QED BY <2>1, <2>2, <2>3, <2>4, <2>5 DEF MonitorInv, monitorVars
<1>2. ASSUME NEW sample \in Samples, Record(sample) PROVE MonitorInv'
  BY <1>2, RecordKeepsInv
<1> QED BY <1>1, <1>2 DEF MonitorNext, SolveEnded

--------------------------------------------------------------------------------
(* The verdict and the history.                                            *)

\* A full window holds numbers, the last values, and has a least one.
LEMMA FullWindow ==
  ASSUME NEW t, NEW capacity \in Nat \ {0}, NEW values, NEW list,
         TrackerInv(t, capacity, values, list), Full(t)
  PROVE  /\ Len(list) \in Nat /\ Len(list) >= capacity
         /\ \A ago \in 0 .. capacity - 1 :
              /\ ValueAgo(t, ago) = values[list[Len(list) - ago]]
              /\ list[Len(list) - ago] \in 1 .. Len(values)
              /\ ValueAgo(t, ago) \in Nat
         /\ Min(Window(t)) \in Nat
         /\ \A ago \in 0 .. capacity - 1 : Min(Window(t)) <= ValueAgo(t, ago)
         /\ \E ago \in 0 .. capacity - 1 : Min(Window(t)) = ValueAgo(t, ago)
<1> DEFINE m == Len(list)
<1>1. /\ TrackerType(t, capacity) /\ values \in Seq(Values) /\ list \in Seq(Nat \ {0})
      /\ ListsFinite(list, values) /\ WindowInv(t, values, list)
  BY DEF TrackerInv
<1>2. m \in Nat /\ t.capacity = capacity /\ t.size = capacity
  BY <1>1 DEF TrackerType, Full
<1>3. m >= capacity
  BY <1>1, <1>2 DEF WindowInv
<1>4. \A ago \in 0 .. capacity - 1 : ValueAgo(t, ago) = values[list[m - ago]]
  BY <1>1, <1>2 DEF WindowInv, ValueAgo, Slot
<1>5. \A ago \in 0 .. capacity - 1 : m - ago \in 1 .. m
  BY <1>2, <1>3
<1>6. \A ago \in 0 .. capacity - 1 :
        list[m - ago] \in 1 .. Len(values) /\ ValueAgo(t, ago) \in Nat
  BY <1>1, <1>4, <1>5, ListedValues
<1>7. Window(t) = {ValueAgo(t, ago) : ago \in 0 .. capacity - 1}
  BY <1>2 DEF Window
<1>8. Window(t) \in SUBSET Nat /\ Window(t) # {}
  <2>1. 0 \in 0 .. capacity - 1
    OBVIOUS
  <2> QED BY <1>6, <1>7, <2>1
<1>9. PICK least \in Window(t) : \A y \in Window(t) : least <= y
  BY <1>8, LeastNatural
<1>10. Min(Window(t)) = least /\ least \in Nat
  <2>1. Window(t) \in SUBSET Int
    BY <1>8
  <2> QED BY <1>8, <1>9, <2>1, MinIsLeast
<1>11. /\ \A ago \in 0 .. capacity - 1 : Min(Window(t)) <= ValueAgo(t, ago)
       /\ \E ago \in 0 .. capacity - 1 : Min(Window(t)) = ValueAgo(t, ago)
  BY <1>7, <1>9, <1>10
<1> QED BY <1>2, <1>3, <1>4, <1>6, <1>10, <1>11

\* A finite last value is the last of the list.
LEMMA LastListed ==
  ASSUME NEW values \in Seq(Values), NEW list \in Seq(Nat \ {0}), ListsFinite(list, values),
         values # << >>, Finite(values[Len(values)])
  PROVE  Len(list) \in Nat \ {0} /\ list[Len(list)] = Len(values)
<1> DEFINE n == Len(values)
           m == Len(list)
<1>1. n \in Nat \ {0} /\ m \in Nat
  OBVIOUS
<1>2. n \in {list[i] : i \in 1 .. m}
  <2>1. n \in {i \in 1 .. n : Finite(values[i])}
    BY <1>1
  <2> QED BY <2>1 DEF ListsFinite
<1>3. PICK i \in 1 .. m : list[i] = n
  BY <1>2
<1>4. m \in 1 .. m
  BY <1>1, <1>3
<1>5. list[m] \in 1 .. n
  BY <1>4, ListedValues
<1>6. i < m => list[i] < list[m]
  BY <1>4 DEF ListsFinite
<1>7. i = m
  BY <1>1, <1>3, <1>5, <1>6
<1> QED BY <1>1, <1>3, <1>4, <1>7

\* The best before the window is an earlier value.
LEMMA BestIsEarlier ==
  ASSUME NEW t, NEW capacity \in Nat \ {0}, NEW values, NEW list,
         TrackerInv(t, capacity, values, list), t.bestBefore # None
  PROVE  \E i \in 1 .. Len(list) - t.size :
           /\ i \in 1 .. Len(list) /\ t.bestBefore = values[list[i]]
           /\ list[i] \in 1 .. Len(values) /\ t.bestBefore \in Nat
<1>1. /\ TrackerType(t, capacity) /\ values \in Seq(Values) /\ list \in Seq(Nat \ {0})
      /\ ListsFinite(list, values) /\ BestInv(t, values, list)
  BY DEF TrackerInv
<1>2. t.bestBefore \in LeftWindow(t, values, list)
  BY <1>1 DEF BestInv
<1>3. PICK i \in 1 .. Len(list) - t.size : t.bestBefore = values[list[i]]
  BY <1>2 DEF LeftWindow
<1>4. Len(list) \in Nat /\ t.size \in Nat
  BY <1>1 DEF TrackerType
<1>5. i \in 1 .. Len(list)
  BY <1>4
<1>6. list[i] \in 1 .. Len(values) /\ values[list[i]] \in Nat
  BY <1>1, <1>5, ListedValues
<1> QED BY <1>3, <1>5, <1>6

\* At least the growth factor times the larger of two numbers.
LEMMA Grown ==
  ASSUME NEW x \in Nat, NEW a \in Nat \ {0}, NEW b \in Nat, x >= GrowthFactor * Max({a, b})
  PROVE  x >= GrowthFactor * a /\ x >= GrowthFactor * b /\ x > b
<1> DEFINE g == GrowthFactor
           top == Max({a, b})
<1>1. g \in Nat /\ g >= 2
  BY MonitorAssumption
<1>2. top \in Nat \ {0} /\ top >= a /\ top >= b
  BY MaxPair
<1>3. x >= g * top
  OBVIOUS
<1> HIDE DEF g, top
<1>4. g * a \in Nat /\ g * b \in Nat /\ g * top \in Nat
  BY <1>1, <1>2
<1>5. g * top >= g * a /\ g * top >= g * b
  <2>1. PICK e \in Nat, f \in Nat : top = a + e /\ top = b + f
    <3>1. top - a \in Nat /\ top - b \in Nat
      BY <1>2
    <3> QED BY <1>2, <3>1
  <2>2. g * (a + e) = g * a + g * e /\ g * (b + f) = g * b + g * f
    BY <1>1
  <2>3. g * e \in Nat /\ g * f \in Nat
    BY <1>1
  <2> QED BY <1>4, <2>1, <2>2, <2>3
<1>6. g * top > top
  BY <1>1, <1>2
<1> QED BY <1>2, <1>3, <1>4, <1>5, <1>6 DEF g

\* What a tracker that diverges says of the values: the last is large, and the one
\* before it was already above an earlier one.
LEMMA DivergesMeans ==
  ASSUME NEW t, NEW capacity \in Nat \ {0}, NEW values, NEW list,
         TrackerInv(t, capacity, values, list), capacity >= 2, Diverges(t)
  PROVE  /\ Len(list) \in Nat /\ Len(list) >= capacity
         /\ values[list[Len(list)]] >= GrowthFactor * t.floor
         /\ \E i \in 1 .. Len(list) : /\ list[i] \in 1 .. Len(values)
                                      /\ values[list[i]] \in Nat
                                      /\ values[list[Len(list)]]
                                           >= GrowthFactor * values[list[i]]
         /\ capacity > 2 => \E i \in 1 .. Len(list) - 2 :
                              values[list[i]] < values[list[Len(list) - 1]]
<1> DEFINE m == Len(list)
           last == values[list[m]]
           value(ago) == ValueAgo(t, ago)
<1>1. Full(t) /\ (Excursion(t) \/ Runaway(t))
  BY DEF Diverges
<1>2. /\ m \in Nat /\ m >= capacity
      /\ \A ago \in 0 .. capacity - 1 :
           /\ value(ago) = values[list[m - ago]]
           /\ list[m - ago] \in 1 .. Len(values)
           /\ value(ago) \in Nat
      /\ Min(Window(t)) \in Nat
      /\ \A ago \in 0 .. capacity - 1 : Min(Window(t)) <= value(ago)
  BY <1>1, FullWindow
<1>3. t.capacity = capacity /\ t.floor \in Nat \ {0} /\ t.size = capacity
  BY <1>1 DEF TrackerInv, TrackerType, Full
<1>4. 0 \in 0 .. capacity - 1 /\ 1 \in 0 .. capacity - 1 /\ capacity - 1 \in 0 .. capacity - 1
  OBVIOUS
<1>5. last = value(0) /\ last \in Nat
  <2>1. m - 0 = m
    BY <1>2
  <2> QED BY <1>2, <1>4, <2>1
<1>6. CASE Excursion(t)
  <2> DEFINE best == t.bestBefore
             low == Min(Window(t))
  <2>1. best # None /\ low >= GrowthFactor * Max({t.floor, best})
    BY <1>6 DEF Excursion
  <2>2. PICK i \in 1 .. m - t.size : /\ i \in 1 .. m /\ best = values[list[i]]
                                     /\ list[i] \in 1 .. Len(values) /\ best \in Nat
    BY <2>1, BestIsEarlier
  <2> HIDE DEF best, low
  <2>3. low \in Nat
    BY <1>2 DEF low
  <2>4. low >= GrowthFactor * t.floor /\ low >= GrowthFactor * best /\ low > best
    BY <1>3, <2>1, <2>2, <2>3, Grown
  <2>5. low <= last /\ low <= value(1)
    BY <1>2, <1>4, <1>5 DEF low
  <2>6. GrowthFactor * t.floor \in Nat /\ GrowthFactor * best \in Nat
    <3>1. GrowthFactor \in Nat /\ t.floor \in Nat /\ best \in Nat
      BY <1>3, <2>2, MonitorAssumption
    <3> QED BY <3>1
  <2>7. last >= GrowthFactor * t.floor /\ last >= GrowthFactor * best
    BY <1>5, <2>3, <2>4, <2>5, <2>6
  <2>8. ASSUME capacity > 2 PROVE i \in 1 .. m - 2
    BY <1>2, <1>3, <2>2, <2>8
  <2>9. best < value(1) /\ value(1) = values[list[m - 1]]
    BY <1>2, <1>4, <2>2, <2>3, <2>4, <2>5
  <2> HIDE DEF value
  <2> QED BY <1>2, <2>2, <2>7, <2>8, <2>9
<1>7. CASE Runaway(t)
  <2> DEFINE oldest == value(capacity - 1)
             i == m - (capacity - 1)
  <2>1. /\ \A ago \in 1 .. capacity - 1 : value(ago - 1) > value(ago)
        /\ last >= GrowthFactor * Max({t.floor, oldest})
    BY <1>3, <1>5, <1>7 DEF Runaway
  <2>2. oldest \in Nat /\ oldest = values[list[i]] /\ list[i] \in 1 .. Len(values)
    BY <1>2, <1>4
  <2>3. i \in 1 .. m
    BY <1>2
  <2> HIDE DEF oldest, i
  <2>4. last >= GrowthFactor * t.floor /\ last >= GrowthFactor * oldest
    BY <1>3, <1>5, <2>1, <2>2, Grown
  <2>5. ASSUME capacity > 2
        PROVE  m - 2 \in 1 .. m - 2 /\ values[list[m - 2]] < values[list[m - 1]]
    <3>1. 2 \in 0 .. capacity - 1 /\ 2 \in 1 .. capacity - 1 /\ m - 2 \in 1 .. m - 2
      BY <1>2, <2>5
    <3>2. value(2) = values[list[m - 2]] /\ value(1) = values[list[m - 1]]
          /\ value(2) \in Nat /\ value(1) \in Nat
      BY <1>2, <1>4, <3>1
    <3> HIDE DEF value
    <3>3. value(1) > value(2)
      BY <2>1, <3>1
    <3> QED BY <3>1, <3>2, <3>3
  <2> HIDE DEF value
  <2> QED BY <1>2, <2>2, <2>3, <2>4, <2>5
<1> QED BY <1>1, <1>6, <1>7

\* The invariant is what the property says of every tracker.
LEMMA InvTrackers == MonitorInv => TrackersMatchHistory
<1> SUFFICES ASSUME MonitorInv PROVE TrackersMatchHistory
  OBVIOUS
<1>1. DivergenceWindow \in Nat \ {0} /\ StagnationWindow \in Nat \ {0}
  BY MonitorAssumption
<1>2. ASSUME NEW q \in Tracked
      PROVE  Reflects(trackers[q], History(q), kept[q])
  <2>1. TrackerInv(trackers[q], DivergenceWindow, History(q), kept[q])
    BY DEF MonitorInv
  <2> QED BY <1>1, <2>1, InvReflects
<1>3. Reflects(distances, distanceLog, keptDistances)
  <2>1. TrackerInv(distances, StagnationWindow, distanceLog, keptDistances)
    BY DEF MonitorInv
  <2> QED BY <1>1, <2>1, InvReflects
<1> QED BY <1>2, <1>3 DEF TrackersMatchHistory

\* The verdict and the distance judge the same trackers.
LEMMA InvConverged == MonitorInv => ConvergedIffDistanceWithinOne
<1> SUFFICES ASSUME MonitorInv, samples # << >>
             PROVE  verdict = "Converged"
                      <=> /\ Finite(distanceLog[Len(distanceLog)])
                          /\ distanceLog[Len(distanceLog)] <= Scale
  BY DEF ConvergedIffDistanceWithinOne
<1>1. /\ verdict = Verdict(trackers, distances, LastSample, Len(samples))
      /\ distanceLog[Len(distanceLog)] = Distance(trackers, LastSample)
  BY DEF MonitorInv
<1>2. verdict = "Converged" <=> IsConverged(trackers, LastSample)
  BY <1>1 DEF Verdict
<1> QED BY <1>1, <1>2, InvJudged, DistanceIsVerdict

\* Which tracker it was that diverged.
LEMMA DivergedTracker ==
  ASSUME MonitorInv, verdict = "Diverging", ~Overflowed(LastSample)
  PROVE  \E q \in Tracked :
           /\ Diverges(trackers[q])
           /\ TrackerInv(trackers[q], DivergenceWindow, History(q), kept[q])
           /\ trackers[q].floor = Tolerance[q]
           /\ Len(kept[q]) \in Nat \ {0}
           /\ kept[q][Len(kept[q])] = Len(samples)
           /\ History(q)[Len(samples)] = LastSample[q]
<1>1. samples # << >>
  BY DEF MonitorInv
<1>2. verdict = Verdict(trackers, distances, LastSample, Len(samples))
  BY <1>1 DEF MonitorInv
<1>3. IsDiverging(trackers, LastSample, Len(samples))
  BY <1>2 DEF Verdict
<1>4. PICK q \in Tracked : Diverges(trackers[q])
  BY <1>3 DEF IsDiverging
<1>5. /\ TrackerInv(trackers[q], DivergenceWindow, History(q), kept[q])
      /\ trackers[q].floor = Tolerance[q]
  BY DEF MonitorInv
<1>6. Len(samples) \in Nat \ {0}
  BY <1>1, InvJudged
<1>7. /\ Len(History(q)) = Len(samples)
      /\ History(q)[Len(samples)] = LastSample[q]
  BY <1>6 DEF History, LastSample
<1>8. Finite(LastSample[q])
  <2>1. q \in Gates \ Unchecked
    BY MonitorAssumption
  <2> QED BY <2>1 DEF Overflowed
<1>9. History(q) \in Seq(Values) /\ kept[q] \in Seq(Nat \ {0}) /\ ListsFinite(kept[q], History(q))
  BY <1>5 DEF TrackerInv
<1>10. History(q) # << >>
  BY <1>6, <1>7
<1>11. Len(kept[q]) \in Nat \ {0} /\ kept[q][Len(kept[q])] = Len(samples)
  BY <1>7, <1>8, <1>9, <1>10, LastListed
<1> QED BY <1>4, <1>5, <1>7, <1>11

\* The two rules on the values of a whole history of n, as the property states them.
RisenTo(q, from) == GrowthFactor * Max({Tolerance[q], from})
OldValues(q, n) ==
  {samples[j][q] : j \in Max({DivergenceStart, 1}) .. (n - DivergenceWindow + 1) - 1}
HighForAWindow(q, n) ==
  \A i \in n - DivergenceWindow + 1 .. n : samples[i][q] >= RisenTo(q, Min(OldValues(q, n)))
RisesForAWindow(q, n) ==
  /\ \A i \in n - DivergenceWindow + 1 .. n - 1 : samples[i][q] < samples[i + 1][q]
  /\ samples[n][q] >= RisenTo(q, samples[n - DivergenceWindow + 1][q])

\* What a full tracker t of the residual q knows after n iterations, if it has left no
\* value out: the values of the window, the least of them and the best before it.
KnowsWindow(t, q, n) ==
  LET c == DivergenceWindow
  IN  /\ Full(t) /\ t.capacity = c /\ t.floor = Tolerance[q]
      /\ \A ago \in 0 .. c - 1 :
           ValueAgo(t, ago) = samples[n - ago][q] /\ samples[n - ago][q] \in Nat
      /\ t.bestBefore # None /\ t.bestBefore = Min(OldValues(q, n))
      /\ Min(Window(t)) \in Nat /\ t.bestBefore \in Nat
      /\ \A ago \in 0 .. c - 1 : Min(Window(t)) <= samples[n - ago][q]
      /\ \E ago \in 0 .. c - 1 : Min(Window(t)) = samples[n - ago][q]

\* While divergence is looked for, every tracker knows them.
LEMMA TrackerSawAll ==
  ASSUME MonitorInv, samples # << >>, settings.divergence, ~Overflowed(LastSample),
         Len(samples) >= Max({DivergenceStart, 1}) + DivergenceWindow,
         NEW q \in Tracked
  PROVE  KnowsWindow(trackers[q], q, Len(samples))
<1> SUFFICES ASSUME NEW n, n = Len(samples), NEW t, t = trackers[q],
                    NEW c, c = DivergenceWindow
             PROVE  KnowsWindow(t, q, n)
  OBVIOUS
<1> DEFINE start == Max({DivergenceStart, 1})
           list == kept[q]
           values == History(q)
           left == LeftWindow(t, values, list)
<1>1. /\ TrackerInv(t, c, values, list) /\ t.floor = Tolerance[q] /\ t.bestFrom = start
      /\ Len(list) = n /\ (\A i \in 1 .. n : list[i] = i)
      /\ n \in Nat
  <2>1. TrackerInv(t, c, values, list) /\ t.floor = Tolerance[q] /\ t.bestFrom = start
    BY DEF MonitorInv
  <2>2. Len(list) = n /\ \A i \in 1 .. n : list[i] = i
    <3>1. DivergenceSawAll
      BY DEF MonitorInv
    <3> QED BY <3>1 DEF DivergenceSawAll
  <2>3. n \in Nat
    <3>1. samples \in Seq(Samples)
      BY DEF MonitorInv
    <3> QED BY <3>1
  <2> QED BY <2>1, <2>2, <2>3
<1>2. c \in Nat \ {0} /\ start \in Nat \ {0}
  BY MonitorAssumption, MaxPair
<1>3. Len(values) = n /\ \A i \in 1 .. n : values[i] = samples[i][q]
  BY <1>1 DEF History
<1> HIDE DEF list, values, left, start
<1>4. /\ TrackerType(t, c) /\ WindowInv(t, values, list) /\ BestInv(t, values, list)
      /\ values \in Seq(Values) /\ list \in Seq(Nat \ {0}) /\ ListsFinite(list, values)
  BY <1>1 DEF TrackerInv
<1>5. n >= start + c
  BY DEF start
<1>6. t.capacity = c /\ t.size = c /\ Full(t)
  BY <1>1, <1>2, <1>4, <1>5 DEF TrackerType, WindowInv, Full
<1>7. \A i \in 1 .. n : values[i] \in Nat
  BY <1>1, <1>4, ListedValues
<1>8. /\ \A ago \in 0 .. c - 1 : ValueAgo(t, ago) = values[list[Len(list) - ago]]
      /\ Min(Window(t)) \in Nat
      /\ \A ago \in 0 .. c - 1 : Min(Window(t)) <= ValueAgo(t, ago)
      /\ \E ago \in 0 .. c - 1 : Min(Window(t)) = ValueAgo(t, ago)
  BY <1>1, <1>2, <1>6, FullWindow
<1>9. \A ago \in 0 .. c - 1 : n - ago \in 1 .. n
  BY <1>1, <1>2, <1>5
<1>10. \A ago \in 0 .. c - 1 :
         ValueAgo(t, ago) = samples[n - ago][q] /\ samples[n - ago][q] \in Nat
  BY <1>1, <1>3, <1>7, <1>8, <1>9
<1>11. left = OldValues(q, n)
  <2>1. OldValues(q, n) = {samples[j][q] : j \in start .. n - c}
    <3>1. (n - c + 1) - 1 = n - c
      BY <1>1, <1>2
    <3> QED BY <3>1 DEF OldValues, start
  <2>2. \A i \in 1 .. n - c : i \in 1 .. n
    BY <1>1, <1>2
  <2>3. {j \in 1 .. n - c : list[j] >= start} = start .. n - c
    BY <1>1, <1>2, <2>2
  <2>4. left = {values[list[j]] : j \in start .. n - c}
    BY <1>1, <1>6, <2>3 DEF left, LeftWindow
  <2>5. \A j \in start .. n - c : values[list[j]] = samples[j][q]
    BY <1>1, <1>2, <1>3, <2>2
  <2> QED BY <2>1, <2>4, <2>5
<1>12. left # {} /\ left \in SUBSET Nat
  <2>1. start \in start .. n - c /\ \A j \in start .. n - c : j \in 1 .. n
    BY <1>1, <1>2, <1>5
  <2>2. left = {samples[j][q] : j \in start .. n - c}
    <3>1. (n - c + 1) - 1 = n - c
      BY <1>1, <1>2
    <3> QED BY <1>11, <3>1 DEF OldValues, start
  <2> QED BY <1>3, <1>7, <2>1, <2>2
<1>13. t.bestBefore \in left /\ t.bestBefore # None /\ \A v \in left : t.bestBefore <= v
  BY <1>4, <1>12 DEF BestInv, left
<1>14. t.bestBefore = Min(left) /\ t.bestBefore \in Nat
  <2>1. left \in SUBSET Int
    BY <1>12
  <2> QED BY <1>12, <1>13, <2>1, MinIsLeast
<1> QED BY <1>1, <1>6, <1>8, <1>10, <1>11, <1>13, <1>14 DEF KnowsWindow

\* So its two rules are the two rules on the history.
LEMMA DivergesIff ==
  ASSUME NEW q \in Tracked, NEW t, NEW n \in Nat, KnowsWindow(t, q, n)
  PROVE  Diverges(t) <=> HighForAWindow(q, n) \/ RisesForAWindow(q, n)
<1> DEFINE c == DivergenceWindow
           value(i) == samples[i][q]
<1>1. /\ Full(t) /\ t.capacity = c /\ t.floor = Tolerance[q]
      /\ \A ago \in 0 .. c - 1 : ValueAgo(t, ago) = value(n - ago) /\ value(n - ago) \in Nat
      /\ t.bestBefore # None /\ t.bestBefore = Min(OldValues(q, n))
      /\ Min(Window(t)) \in Nat /\ t.bestBefore \in Nat
      /\ \A ago \in 0 .. c - 1 : Min(Window(t)) <= value(n - ago)
      /\ \E ago \in 0 .. c - 1 : Min(Window(t)) = value(n - ago)
  BY DEF KnowsWindow
<1>2. c \in Nat \ {0, 1} /\ n \in Nat /\ Tolerance[q] \in Nat \ {0} /\ GrowthFactor \in Nat
  BY MonitorAssumption
<1> HIDE DEF value, c
<1>3. /\ \A ago \in 0 .. c - 1 : n - ago \in n - c + 1 .. n
      /\ \A i \in n - c + 1 .. n : n - i \in 0 .. c - 1 /\ n - (n - i) = i
  BY <1>2
<1>4. Excursion(t) <=> HighForAWindow(q, n)
  <2> DEFINE high == RisenTo(q, Min(OldValues(q, n)))
             low == Min(Window(t))
  <2>1. high \in Nat
    <3>1. \A a, b \in Nat : Max({a, b}) \in Nat
      BY MaxPair
    <3>2. Max({Tolerance[q], t.bestBefore}) \in Nat
      BY <1>1, <1>2, <3>1
    <3>3. \A m \in Nat : GrowthFactor * m \in Nat
      BY <1>2
    <3> QED BY <1>1, <3>2, <3>3 DEF RisenTo
  <2>2. Excursion(t) <=> low >= high
    BY <1>1 DEF Excursion, RisenTo
  <2>3. HighForAWindow(q, n) <=> \A i \in n - c + 1 .. n : value(i) >= high
    BY DEF HighForAWindow, value, c
  <2> HIDE DEF high, low
  <2>4. ASSUME low >= high, NEW i \in n - c + 1 .. n  PROVE value(i) >= high
    <3>1. n - i \in 0 .. c - 1 /\ n - (n - i) = i
      BY <1>3
    <3>2. low <= value(i) /\ value(i) \in Nat /\ low \in Nat
      BY <1>1, <3>1 DEF low
    <3> QED BY <2>1, <2>4, <3>2
  <2>5. ASSUME \A i \in n - c + 1 .. n : value(i) >= high  PROVE low >= high
    BY <1>1, <1>3, <2>5 DEF low
  <2> QED BY <2>2, <2>3, <2>4, <2>5
<1>5. Runaway(t) <=> RisesForAWindow(q, n)
  <2>1. 0 \in 0 .. c - 1 /\ c - 1 \in 0 .. c - 1 /\ n - 0 = n /\ n - (c - 1) = n - c + 1
    BY <1>2
  <2>2. ValueAgo(t, 0) = value(n) /\ ValueAgo(t, c - 1) = value(n - c + 1)
    BY <1>1, <2>1
  <2>3. (\A ago \in 1 .. c - 1 : ValueAgo(t, ago - 1) > ValueAgo(t, ago))
          <=> \A i \in n - c + 1 .. n - 1 : value(i) < value(i + 1)
    <3>1. ASSUME NEW ago \in 1 .. c - 1
          PROVE  /\ n - ago \in n - c + 1 .. n - 1
                 /\ ValueAgo(t, ago - 1) > ValueAgo(t, ago)
                      <=> value(n - ago) < value((n - ago) + 1)
      <4>1. ago \in 0 .. c - 1 /\ ago - 1 \in 0 .. c - 1 /\ n - (ago - 1) = (n - ago) + 1
        BY <1>2
      <4>2. /\ ValueAgo(t, ago) = value(n - ago) /\ value(n - ago) \in Nat
            /\ ValueAgo(t, ago - 1) = value((n - ago) + 1) /\ value((n - ago) + 1) \in Nat
        BY <1>1, <4>1
      <4>3. n - ago \in n - c + 1 .. n - 1
        BY <1>2
      <4> QED BY <4>2, <4>3
    <3>2. ASSUME NEW i \in n - c + 1 .. n - 1
          PROVE  n - i \in 1 .. c - 1 /\ n - (n - i) = i
      BY <1>2
    <3> QED BY <3>1, <3>2
  <2> QED BY <1>1, <2>2, <2>3 DEF Runaway, RisesForAWindow, RisenTo, value, c
<1> QED BY <1>1, <1>4, <1>5 DEF Diverges

\* A solve is given up as diverging exactly when the history of a residual says so.
LEMMA InvDivergence == MonitorInv => DivergenceMatchesHistory
<1> DEFINE n == Len(samples)
           late == n >= Max({DivergenceStart, 1}) + DivergenceWindow
<1> SUFFICES ASSUME MonitorInv, samples # << >>, verdict # "Converged"
             PROVE  verdict = "Diverging"
                      <=> /\ settings.divergence
                          /\ \/ Overflowed(LastSample)
                             \/ /\ late
                                /\ \E q \in Tracked : \/ HighForAWindow(q, n)
                                                      \/ RisesForAWindow(q, n)
  BY DEF DivergenceMatchesHistory, HighForAWindow, RisesForAWindow, RisenTo, OldValues
<1>1. verdict = Verdict(trackers, distances, LastSample, n)
  BY DEF MonitorInv
<1>2. verdict = "Diverging" <=> IsDiverging(trackers, LastSample, n)
  BY <1>1 DEF Verdict
<1>3. ASSUME settings.divergence, ~Overflowed(LastSample), late, NEW q \in Tracked
      PROVE  Diverges(trackers[q]) <=> HighForAWindow(q, n) \/ RisesForAWindow(q, n)
  <2>1. n \in Nat
    BY InvJudged
  <2>2. KnowsWindow(trackers[q], q, n)
    BY <1>3, TrackerSawAll
  <2> HIDE DEF n
  <2> QED BY <2>1, <2>2, DivergesIff
<1> HIDE DEF n
<1> QED BY <1>2, <1>3 DEF IsDiverging

\* It showed some of it an iteration earlier.
LEMMA InvSpike == MonitorInv => SpikeNeverTriggers
<1> SUFFICES ASSUME MonitorInv, DivergenceWindow > 2, verdict = "Diverging",
                    ~Overflowed(LastSample)
             PROVE  \E q \in Tracked :
                      /\ Len(kept[q]) > 2
                      /\ \E i \in 1 .. Len(kept[q]) - 2 :
                           samples[kept[q][i]][q] < samples[kept[q][Len(kept[q]) - 1]][q]
  BY DEF SpikeNeverTriggers
<1>1. PICK q \in Tracked :
           /\ Diverges(trackers[q])
           /\ TrackerInv(trackers[q], DivergenceWindow, History(q), kept[q])
  BY DivergedTracker
<1> DEFINE values == History(q)
           list == kept[q]
           m == Len(list)
<1>2. DivergenceWindow \in Nat \ {0} /\ DivergenceWindow >= 2
  BY MonitorAssumption
<1>3. /\ m \in Nat /\ m >= DivergenceWindow
      /\ \E i \in 1 .. m - 2 : values[list[i]] < values[list[m - 1]]
  <2> HIDE DEF values, list
  <2>1. TrackerInv(trackers[q], DivergenceWindow, values, list)
    BY <1>1 DEF values, list
  <2> QED BY <1>1, <1>2, <2>1, DivergesMeans
<1>4. PICK i \in 1 .. m - 2 : values[list[i]] < values[list[m - 1]]
  BY <1>3
<1>5. ASSUME NEW j \in 1 .. m
      PROVE  values[list[j]] = samples[list[j]][q]
  <2>1. /\ values \in Seq(Values) /\ list \in Seq(Nat \ {0}) /\ ListsFinite(list, values)
    BY <1>1 DEF TrackerInv
  <2>2. list[j] \in 1 .. Len(values)
    <3> HIDE DEF values, list
    <3> QED BY <2>1, ListedValues
  <2>3. Len(samples) \in Nat
    BY DEF MonitorInv
  <2>4. Len(values) = Len(samples)
    BY <2>3 DEF History
  <2> QED BY <2>2, <2>4 DEF History
<1> HIDE DEF values
<1>6. i \in 1 .. m /\ m - 1 \in 1 .. m
  BY <1>2, <1>3
<1>7. samples[list[i]][q] < samples[list[m - 1]][q]
  BY <1>4, <1>5, <1>6
<1> QED BY <1>2, <1>3, <1>4, <1>7

\* The tracker of the distances gives the two minima of the whole history.
LEMMA StagnationMinima ==
  ASSUME MonitorInv, NEW n, n = Len(keptDistances),
         NEW before, before = {distanceLog[keptDistances[i]] : i \in 1 .. n - StagnationWindow},
         NEW lately,
         lately = {distanceLog[keptDistances[i]] : i \in n - StagnationWindow + 1 .. n}
  PROVE  /\ Full(distances) /\ distances.bestBefore # None <=> n > StagnationWindow
         /\ n > StagnationWindow =>
              /\ distances.bestBefore = Min(before)
              /\ distances.bestBefore \in before
              /\ before \in SUBSET Nat
              /\ Window(distances) = lately
<1> DEFINE c == StagnationWindow
           t == distances
           list == keptDistances
           left == LeftWindow(t, distanceLog, list)
<1>1. c \in Nat \ {0}
  BY MonitorAssumption
<1>2. TrackerInv(t, c, distanceLog, list) /\ t.bestFrom = 1
  BY DEF MonitorInv
<1>3. /\ TrackerType(t, c) /\ distanceLog \in Seq(Values) /\ list \in Seq(Nat \ {0})
      /\ ListsFinite(list, distanceLog) /\ WindowInv(t, distanceLog, list)
      /\ BestInv(t, distanceLog, list)
  BY <1>2 DEF TrackerInv
<1>4. n \in Nat /\ t.capacity = c
  BY <1>3 DEF TrackerType
<1>5. t.size = IF n < c THEN n ELSE c
  BY <1>3, <1>4 DEF WindowInv
<1>6. \A i \in 1 .. n : list[i] >= 1 /\ distanceLog[list[i]] \in Nat
  BY <1>3, ListedValues
<1>7. left = {distanceLog[list[i]] : i \in 1 .. n - t.size}
  <2>1. \A i \in 1 .. n - t.size : i \in 1 .. n
    BY <1>1, <1>4, <1>5
  <2>2. {j \in 1 .. n - t.size : list[j] >= 1} = 1 .. n - t.size
    BY <1>6, <2>1
  <2> QED BY <1>2, <2>2 DEF LeftWindow
<1>8. /\ t.bestBefore = None => left = {}
      /\ t.bestBefore # None => t.bestBefore \in left /\ \A v \in left : t.bestBefore <= v
  BY <1>3 DEF BestInv
<1> HIDE DEF left
<1>9. CASE n < c
  BY <1>1, <1>4, <1>5, <1>9 DEF Full
<1>10. CASE n = c
  <2>1. 1 .. n - t.size = {}
    BY <1>1, <1>5, <1>10
  <2>2. left = {}
    BY <1>7, <2>1
  <2> QED BY <1>1, <1>8, <1>10, <2>2
<1>11. CASE n > c
  <2>1. t.size = c /\ Full(t)
    BY <1>1, <1>4, <1>5, <1>11 DEF Full
  <2>2. left = before
    BY <1>7, <2>1
  <2>3. 1 \in 1 .. n - c /\ \A i \in 1 .. n - c : i \in 1 .. n
    BY <1>1, <1>4, <1>11
  <2>4. before # {} /\ before \in SUBSET Nat
    BY <1>6, <2>3
  <2>5. t.bestBefore # None /\ t.bestBefore \in before /\ \A v \in before : t.bestBefore <= v
    BY <1>8, <2>2, <2>4
  <2>6. t.bestBefore = Min(before)
    <3>1. before \in SUBSET Int
      BY <2>4
    <3> QED BY <2>5, <3>1, MinIsLeast
  <2>7. Window(t) = lately
    <3>1. \A ago \in 0 .. c - 1 : ValueAgo(t, ago) = distanceLog[list[n - ago]]
      BY <1>3, <2>1 DEF WindowInv, ValueAgo, Slot
    <3>2. Window(t) = {ValueAgo(t, ago) : ago \in 0 .. c - 1}
      BY <2>1 DEF Window
    <3>3. \A ago \in 0 .. c - 1 : n - ago \in n - c + 1 .. n
      BY <1>1, <1>4
    <3>4. \A i \in n - c + 1 .. n : n - i \in 0 .. c - 1 /\ n - (n - i) = i
      BY <1>1, <1>4
    <3>5. Window(t) \subseteq lately
      BY <3>1, <3>2, <3>3
    <3>6. lately \subseteq Window(t)
      <4> SUFFICES ASSUME NEW i \in n - c + 1 .. n
                   PROVE  distanceLog[list[i]] \in Window(t)
        OBVIOUS
      <4>1. ValueAgo(t, n - i) = distanceLog[list[i]]
        BY <3>1, <3>4
      <4> QED BY <3>2, <3>4, <4>1
    <3> QED BY <3>5, <3>6
  <2> QED BY <1>11, <2>1, <2>4, <2>5, <2>6, <2>7
<1> QED BY <1>1, <1>4, <1>9, <1>10, <1>11

\* The best distance before the window is positive, since the solve has not converged, so
\* the guard against a zero best never decides.
LEMMA InvStagnation == MonitorInv => StagnationMatchesHistory
<1> DEFINE n == Len(keptDistances)
           before == {distanceLog[keptDistances[i]] : i \in 1 .. n - StagnationWindow}
           lately == {distanceLog[keptDistances[i]] : i \in n - StagnationWindow + 1 .. n}
           slow == 100 * (Min(before) - Min(lately)) < MinImprovementPercent * Min(before)
<1> SUFFICES ASSUME MonitorInv, verdict \in {"Stagnated", "Continue"}, settings.stagnation,
                    Len(samples) >= StagnationStart
             PROVE  verdict = "Stagnated" <=> n > StagnationWindow /\ slow
  BY DEF StagnationMatchesHistory
<1>1. /\ Full(distances) /\ distances.bestBefore # None <=> n > StagnationWindow
      /\ n > StagnationWindow =>
           /\ distances.bestBefore = Min(before)
           /\ distances.bestBefore \in before
           /\ before \in SUBSET Nat
           /\ Window(distances) = lately
  BY StagnationMinima
<1>2. n > StagnationWindow => distances.bestBefore > 0
  <2> SUFFICES ASSUME n > StagnationWindow PROVE distances.bestBefore > 0
    OBVIOUS
  <2>1. PICK i \in 1 .. n - StagnationWindow :
          distances.bestBefore = distanceLog[keptDistances[i]]
    BY <1>1
  <2>2. /\ distanceLog \in Seq(Values) /\ keptDistances \in Seq(Nat \ {0})
        /\ ListsFinite(keptDistances, distanceLog) /\ Len(distanceLog) = Len(samples)
    BY DEF MonitorInv, TrackerInv
  <2>3. i \in 1 .. n
    BY <2>2, MonitorAssumption
  <2>4. keptDistances[i] \in 1 .. Len(samples) /\ distances.bestBefore \in Nat
    BY <2>1, <2>2, <2>3, ListedValues
  <2>5. Finite(distanceLog[keptDistances[i]])
    BY <2>1, <2>4, RelaxationAssumption DEF Finite
  <2>6. distances.bestBefore > Scale
    BY <2>1, <2>4, <2>5, InvUnconverged
  <2>7. Scale \in Nat
    BY MonitorAssumption
  <2> QED BY <2>4, <2>6, <2>7
<1> HIDE DEF before, lately
<1>3. CASE samples = << >>
  <2>1. verdict = "Continue" /\ distances.count = 0
    BY <1>3 DEF MonitorInv, TrackerInv
  <2>2. n = 0
    <3>1. /\ distanceLog \in Seq(Values) /\ keptDistances \in Seq(Nat \ {0})
          /\ ListsFinite(keptDistances, distanceLog) /\ Len(distanceLog) = 0
      BY <1>3 DEF MonitorInv, TrackerInv
    <3>2. \A i \in 1 .. n : keptDistances[i] \in 1 .. 0
      BY <3>1, ListedValues
    <3>3. n \in Nat
      BY <3>1
    <3>4. n # 0 => 1 \in 1 .. n
      BY <3>3
    <3> QED BY <3>2, <3>4
  <2> QED BY <2>1, <2>2, MonitorAssumption
<1>4. CASE samples # << >>
  <2>1. verdict = Verdict(trackers, distances, LastSample, Len(samples))
    BY <1>4 DEF MonitorInv
  <2>2. verdict = "Stagnated" <=> IsStagnating(distances, Len(samples))
    BY <2>1 DEF Verdict
  <2>3. IsStagnating(distances, Len(samples))
          <=> /\ Full(distances) /\ distances.bestBefore # None /\ distances.bestBefore > 0
              /\ 100 * (distances.bestBefore - Min(Window(distances)))
                   < MinImprovementPercent * distances.bestBefore
    BY DEF IsStagnating
  <2> QED BY <1>1, <1>2, <2>2, <2>3
<1> QED BY <1>3, <1>4

\* The invariant holds in every reachable state.
LEMMA MonitorInvHolds == MonitorSpec => []MonitorInv
BY MonitorInvInit, MonitorInvNext, PTL DEF MonitorSpec

\* For every residual history, tolerance and window, each tracker's ring buffer holds the
\* last finite residuals, and its best and its reference are those of the whole history,
\* however often the buffer wrapped and whatever overflowed (ResidualTracker::push).
THEOREM TrackersReflectHistory == MonitorSpec => []TrackersMatchHistory
BY MonitorInvHolds, InvTrackers, PTL

\* The verdict of record() is the one the whole history of residuals gives: converged
\* exactly when the distance is at most one, diverging exactly when a residual has stayed
\* far above its best or risen that far for a whole window, which no single spike does,
\* stagnated exactly when the best has not improved enough.
THEOREM VerdictIsThatOfHistory == MonitorSpec => []VerdictMatchesHistory
<1>1. MonitorInv => VerdictMatchesHistory
  BY InvConverged, InvDivergence, InvSpike, InvStagnation DEF VerdictMatchesHistory
<1> QED BY <1>1, MonitorInvHolds, PTL

\* The monitor implements the specification of the relaxation controller: whatever the
\* residuals, the measure it computes is one the controller is specified for, and nothing
\* else of an iteration touches the factors (OuterIterationMonitor::record).
THEOREM MonitorDrivesController == MonitorSpec => RelaxationSpec
<1>1. MonitorInit => RelaxationInit
  BY DEF MonitorInit
<1>2. MonitorInv /\ MonitorInv' /\ [MonitorNext]_allVars => [RelaxationNext]_relaxationVars
  <2> SUFFICES ASSUME MonitorInv', NEW sample \in Samples, Record(sample)
               PROVE  [RelaxationNext]_relaxationVars
    BY DEF MonitorNext, SolveEnded, allVars
  <2>1. Judged(trackers')
    BY DEF MonitorInv, TrackerInv, Judged
  <2>2. MeasuresOf(trackers') \subseteq Measures \cup {Overflow}
    BY <2>1, MeasureType
  <2>3. CASE \E m \in MeasuresOf(trackers') : Update(m)
    BY <2>2, <2>3 DEF RelaxationNext
  <2>4. CASE UNCHANGED relaxationVars
    BY <2>4
  <2> QED BY <2>3, <2>4 DEF Record
<1> QED BY <1>1, <1>2, MonitorInvHolds, PTL DEF MonitorSpec, RelaxationSpec

\* So the factors a monitored solve uses stay within their bounds and below every factor
\* that proved unstable.
THEOREM MonitorKeepsFactorsSafe == MonitorSpec => []FactorsStaySafe
BY MonitorDrivesController, FactorsAreSafe, PTL

\* And they are raised no more often than the controller alone would raise them.
THEOREM MonitorSpacesIncreases == MonitorSpec => IncreasesAreSpaced
BY MonitorDrivesController, SpacedIncreases, PTL

================================================================================
