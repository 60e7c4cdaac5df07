-------------------------- MODULE AdaptiveRelaxation ---------------------------
(***************************************************************************)
(* The controller of the under-relaxation factors,                         *)
(* AdaptiveRelaxationController in src/src/solver/SolverRobustness.cpp: it *)
(* is given one residual measure per outer iteration and moves the two     *)
(* factors together, each within its own bounds.                           *)
(*                                                                         *)
(* A factor is a member of Factors, numbers that stand for the doubles in  *)
(* (0, 1] in their order.  What multiplying by a constant does to a double *)
(* is a function on them, so that nothing depends on how it rounds.        *)
(***************************************************************************)
EXTENDS Integers, Sequences

CONSTANTS
  Overflow,            \* a measure that is not finite
  Factors,
  Initial, Least, Most,        \* the settings of each of the two factors
  Increased, Decreased, Lowered,  \* kIncreaseFactor, kDecreaseFactor, kCeilingFactor times x
  ImprovementStreak,   \* kImprovementStreak
  OscillationRatios    \* kOscillationRatios

Kinds == {"velocity", "pressure"}

ASSUME RelaxationAssumption ==
  /\ Overflow \notin Nat
  /\ Factors \subseteq Nat
  /\ {Initial, Least, Most} \subseteq [Kinds -> Factors]
  /\ {Increased, Decreased, Lowered} \subseteq [Factors -> Factors]
  /\ \A x \in Factors : Decreased[x] <= Lowered[x] /\ Lowered[x] <= x
  /\ \A k \in Kinds : Least[k] <= Most[k]
  /\ ImprovementStreak \in Nat \ {0}
  /\ OscillationRatios \in Nat \ {0, 1}

\* The finite residual measures.
Measures == Nat

VARIABLES
  adaptive,  \* settings_.enabled
  factor,    \* factors_
  ceiling,   \* ceiling_
  recent,    \* the last measures, oldest first
  streak,    \* consecutive improvements
  action,    \* what the last update did
  unstable,  \* history: for each factor, the least value it was decreased from
  since      \* history: updates since the factors last moved

controllerVars == <<adaptive, factor, ceiling, recent, streak, action>>
relaxationVars == <<controllerVars, unstable, since>>

Greater(a, b) == IF a >= b THEN a ELSE b
Lesser(a, b)  == IF a <= b THEN a ELSE b

\* The bounds are required of the initial values only if the controller is enabled.
RelaxationInit ==
  /\ adaptive \in BOOLEAN
  /\ adaptive => \A k \in Kinds : Least[k] <= Initial[k] /\ Initial[k] <= Most[k]
  /\ factor = Initial
  /\ ceiling = Most
  /\ recent = << >>
  /\ streak = 0
  /\ action = "Hold"
  /\ unstable = [k \in Kinds |-> {}]
  /\ since = 0

RelaxationTypeOK ==
  /\ adaptive \in BOOLEAN
  /\ factor \in [Kinds -> Factors]
  /\ ceiling \in [Kinds -> Factors]
  /\ recent \in Seq(Measures)
  /\ Len(recent) <= OscillationRatios + 1
  /\ streak \in 0 .. ImprovementStreak - 1
  /\ action \in {"Hold", "Increase", "Decrease"}
  /\ unstable \in [Kinds -> SUBSET Factors]
  /\ since \in Nat

--------------------------------------------------------------------------------
(* update().                                                               *)

\* The measures of the window after m has been added.
Shifted(m) == IF Len(recent) <= OscillationRatios THEN Append(recent, m)
              ELSE Append(Tail(recent), m)

\* The last measure is more than 1.2 times the one before (kGrowthRatio).
Grows(r) == Len(r) > 1 /\ 10 * r[Len(r)] > 12 * r[Len(r) - 1]

\* The window is full, every step goes the other way than the step before it, and
\* the last measure is no less than the one two before.
Oscillates(r) ==
  /\ Len(r) = OscillationRatios + 1
  /\ \A i \in 1 .. Len(r) - 1 : r[i] # r[i + 1]
  /\ \A i \in 1 .. Len(r) - 2 : (r[i] < r[i + 1]) # (r[i + 1] < r[i + 2])
  /\ r[Len(r)] >= r[Len(r) - 2]

Improves(r) == Len(r) > 1 /\ r[Len(r)] < r[Len(r) - 1]

\* Mutated form: the ceiling stays where it was.
DecreasesOnly ==
  /\ ceiling' = ceiling
  /\ factor' = [k \in Kinds |-> Greater(Least[k], Decreased[factor[k]])]
  /\ unstable' = [k \in Kinds |-> unstable[k] \cup {factor[k]}]
  /\ action' = "Decrease"
  /\ streak' = 0
  /\ since' = 0

\* Mutated form: the improvements seen before the decrease still count.
DecreasesKeepingStreak ==
  /\ ceiling' = [k \in Kinds |->
       Lesser(ceiling[k], Greater(Least[k], Lowered[factor[k]]))]
  /\ factor' = [k \in Kinds |-> Greater(Least[k], Decreased[factor[k]])]
  /\ unstable' = [k \in Kinds |-> unstable[k] \cup {factor[k]}]
  /\ action' = "Decrease"
  /\ streak' = streak
  /\ since' = 0

\* The factor that has just proved unstable becomes a ceiling.
Decrease ==
  /\ ceiling' = [k \in Kinds |->
       Lesser(ceiling[k], Greater(Least[k], Lowered[factor[k]]))]
  /\ factor' = [k \in Kinds |-> Greater(Least[k], Decreased[factor[k]])]
  /\ unstable' = [k \in Kinds |-> unstable[k] \cup {factor[k]}]
  /\ action' = "Decrease"
  /\ streak' = 0
  /\ since' = 0

Raised(k) ==
  Lesser(Lesser(Most[k], ceiling[k]), Greater(factor[k], Increased[factor[k]]))

\* After a streak of improvements; a Hold if both factors sit at their limits.
Increase ==
  /\ factor' = [k \in Kinds |-> Raised(k)]
  /\ streak' = 0
  /\ IF factor' = factor
     THEN action' = "Hold" /\ since' = since + 1
     ELSE action' = "Increase" /\ since' = 0
  /\ UNCHANGED <<ceiling, unstable>>

\* Nothing moves; s improvements have been seen in a row.
Hold(s) ==
  /\ streak' = s
  /\ action' = "Hold"
  /\ since' = since + 1
  /\ UNCHANGED <<factor, ceiling, unstable>>

UpdateDisabled(m) ==
  /\ ~adaptive \/ m = Overflow
  /\ action' = "Hold"
  /\ UNCHANGED <<adaptive, factor, ceiling, recent, streak, unstable, since>>

UpdateEnabled(m) ==
  /\ adaptive
  /\ m # Overflow
  /\ recent' = Shifted(m)
  /\ \/ (Grows(recent') \/ Oscillates(recent')) /\ Decrease
     \/ /\ ~(Grows(recent') \/ Oscillates(recent'))
        /\ \/ Improves(recent') /\ streak + 1 >= ImprovementStreak /\ Increase
           \/ Improves(recent') /\ streak + 1 < ImprovementStreak /\ Hold(streak + 1)
           \* A first measure leaves the streak alone: it is zero.
           \/ ~Improves(recent') /\ Hold(0)
  /\ UNCHANGED adaptive

Update(m) == UpdateDisabled(m) \/ UpdateEnabled(m)

RelaxationNext == \E m \in Measures \cup {Overflow} : Update(m)

RelaxationSpec == RelaxationInit /\ [][RelaxationNext]_relaxationVars

--------------------------------------------------------------------------------
(* Safety.                                                                 *)

\* Whatever measures arrive, an adaptive factor stays within the bounds of the
\* settings and below its ceiling ("0 < alpha <= 1 always", SolverRobustness.hpp:234).
FactorsBounded ==
  adaptive => \A k \in Kinds : /\ Least[k] <= factor[k]
                               /\ factor[k] <= ceiling[k]
                               /\ ceiling[k] <= Most[k]

\* The controller does not hunt (SolverRobustness.hpp:230): a factor it once had to decrease, and any factor
\* above 0.9 times that, is never used again (unless the minimum itself is higher).
UnstableFactorsAvoided ==
  \A k \in Kinds : \A x \in unstable[k] :
    factor[k] <= Greater(Least[k], Lowered[x])

\* The factors are always ones the settings allow and the solve has not refuted.
FactorsStaySafe == FactorsBounded /\ UnstableFactorsAvoided

\* The factors are raised only after as many updates as a streak has since they last
\* moved ("at most once every 5 iterations", SolverRobustness.hpp:239).
IncreasesAreSpaced ==
  [][action' = "Increase" /\ factor' # factor
       => since + 1 >= ImprovementStreak]_relaxationVars

================================================================================
