--------------------------- MODULE LinearSolveProofs ---------------------------
(***************************************************************************)
(* What the combined result of a linear solve with fallback claims, proved *)
(* for any norms, limits, configurations and matrices: the history counts  *)
(* the iterations, restarts are paid for, and a recovered solve is as      *)
(* accurate as the primary was asked to be, and CG is only tried on        *)
(* matrices that are positive definite.                                    *)
(***************************************************************************)
EXTENDS LinearSolve, WellFoundedInduction, FiniteSetTheorems, TLAPS

Statuses == {"Converged", "MaxIterations", "Breakdown", "NonFiniteInput",
             "NonFiniteResidual", "InvalidSystem"}

Results == [status : Statuses, iterations : Nat, recorded : Nat,
            first : Norms, final : Norms, solution : Iterates]

\* What each variable holds; a solve that has ended has left a result.
SolveType ==
  /\ config \in Configurations
  /\ criterion \in [absolute : Int, relative : Int]
  /\ x \in Iterates /\ start \in Iterates
  /\ r \in Norms /\ first \in Norms /\ base \in Norms
  /\ count \in Nat /\ recorded \in Nat /\ restarts \in Nat
  /\ outcome \in Results \cup {None}
  /\ result \in Results \cup {None}
  /\ pc = "ended" => outcome \in Results
  /\ overflowed \in BOOLEAN

--------------------------------------------------------------------------------
(* Norms, iterates and tolerances.                                         *)

LEMMA NormFacts ==
  /\ 0 \in Norms /\ Infinite \in Norms /\ NaN \in Norms
  /\ \A n \in Norms : n = NaN \/ n \in Int
  /\ \A n \in Norms : n = NaN \/ n = Infinite \/ IsFinite(n)
  /\ \A n : IsFinite(n) => n \in Norms /\ n \in Int /\ n >= 0
  /\ ~IsFinite(Infinite) /\ ~IsFinite(NaN) /\ NaN \notin Int
BY LinearSolveAssumption DEF Norms, Infinite, IsFinite

LEMMA IterateFacts ==
  /\ \A y \in Iterates : y.norm \in Norms /\ y.finite \in BOOLEAN
  /\ FiniteIterates \subseteq Iterates
  /\ \A n : WithResidual(n) \subseteq Iterates
<1>1. FiniteIterates \subseteq Iterates
  BY DEF Iterates
<1>2. ASSUME NEW y \in Iterates PROVE y.norm \in Norms /\ y.finite \in BOOLEAN
  <2>1. PICK b \in BOOLEAN, n \in Norms : y = [finite |-> b, norm |-> n]
    <3>1. CASE y \in FiniteIterates
      <4>1. PICK n \in Norms : y = [finite |-> TRUE, norm |-> n]
        BY <3>1 DEF FiniteIterates
      <4> QED BY <4>1
    <3>2. CASE y \notin FiniteIterates
      <4>1. PICK n \in {Infinite, NaN} : y = [finite |-> FALSE, norm |-> n]
        BY <3>2 DEF Iterates
      <4> QED BY <4>1, NormFacts
    <3> QED BY <3>1, <3>2
  <2> QED BY <2>1
<1>3. ASSUME NEW n PROVE WithResidual(n) \subseteq Iterates
  BY <1>1 DEF WithResidual
<1> QED BY <1>1, <1>2, <1>3

LEMMA ConfigurationFacts ==
  ASSUME config \in Configurations
  PROVE  /\ config.absolute \in Nat /\ config.relative \in Nat
         /\ OwnCriterion \in [absolute : Int, relative : Int]
BY LinearSolveAssumption DEF OwnCriterion

\* The target an attempt is given when the primary started from the residual f.
TargetOf(f) ==
  LET absolute == 100 * config.absolute
      scaled   == config.relative * f
  IN  IF f = NaN \/ (f = Infinite /\ config.relative = 0) THEN absolute
      ELSE IF f = Infinite THEN 100 * Infinite
      ELSE IF scaled > absolute THEN scaled ELSE absolute

LEMMA TargetType ==
  ASSUME config \in Configurations, NEW f \in Norms
  PROVE  TargetOf(f) \in Int
<1>1. config.absolute \in Nat /\ config.relative \in Nat
  BY ConfigurationFacts
<1>2. Infinite \in Int
  BY LinearSolveAssumption DEF Infinite
<1>3. f = NaN \/ f \in Int
  BY NormFacts
<1> QED BY <1>1, <1>2, <1>3 DEF TargetOf

\* The attempts' criterion is the primary's, unless the primary started from infinity.
LEMMA TargetIsThePrimarys ==
  ASSUME config \in Configurations, NEW f \in Norms, f # Infinite,
         NEW n \in Norms, NEW n0 \in Norms, n0 # Infinite,
         Meets(n, n0, [absolute |-> TargetOf(f), relative |-> 0])
  PROVE  f = 0 \/ Meets(n, f, OwnCriterion)
<1>1. config.absolute \in Nat /\ config.relative \in Nat
  BY ConfigurationFacts
<1>2. n \in Int /\ n # NaN
  BY NormFacts DEF Meets
<1>3. OwnCriterion.absolute = 100 * config.absolute /\ OwnCriterion.relative = config.relative
  BY DEF OwnCriterion
<1>4. 100 * n <= TargetOf(f) \/ 100 * n <= 0
  <2>1. CASE 100 * n <= TargetOf(f)
    BY <2>1
  <2>2. CASE n0 # NaN /\ n0 > 0 /\ 100 * n <= 0 * n0
    <3>1. n0 \in Int BY <2>2, NormFacts
    <3>2. 0 * n0 = 0 BY <3>1
    <3> QED BY <2>2, <3>2
  <2> QED BY <2>1, <2>2 DEF Meets
<1>5. CASE 100 * n <= 100 * config.absolute
  BY <1>2, <1>3, <1>5 DEF Meets
<1>6. CASE f # NaN /\ f # 0 /\ 100 * n <= config.relative * f
  <2>1. IsFinite(f) /\ f \in Int /\ f > 0 BY <1>6, NormFacts
  <2> QED BY <1>2, <1>3, <1>6, <2>1 DEF Meets
<1>7. 100 * n <= 0 => 100 * n <= 100 * config.absolute
  BY <1>1, <1>2
<1>8. CASE f = NaN
  BY <1>4, <1>5, <1>7, <1>8 DEF TargetOf
<1>9. CASE f # NaN
  BY <1>4, <1>5, <1>6, <1>7, <1>9 DEF TargetOf
<1> QED BY <1>8, <1>9

--------------------------------------------------------------------------------
(* Types.                                                                  *)

LEMMA EndsResult ==
  ASSUME NEW status \in Statuses, NEW final \in Norms, NEW solution \in Iterates,
         count' \in Nat, recorded' \in Nat, first' \in Norms,
         Ends(status, final, solution)
  PROVE  /\ pc' = "ended" /\ x' \in Iterates /\ outcome' \in Results
         /\ outcome'.status = status /\ outcome'.final = final /\ outcome'.first = first'
         /\ outcome'.iterations = count' /\ outcome'.recorded = recorded'
BY DEF Ends, Results

\* What a step inside a solver leaves alone.
Kept == <<config, input, start, result, candidates, attempts, definite>>

LEMMA TypeInit == Init => SolveType
<1> SUFFICES ASSUME Init PROVE SolveType
  OBVIOUS
<1>1. x \in Iterates /\ config \in Configurations
  BY IterateFacts DEF Init
<1>2. criterion \in [absolute : Int, relative : Int]
  <2>1. criterion = OwnCriterion BY DEF Init, OwnCriterion
  <2> QED BY <1>1, <2>1, ConfigurationFacts
<1> QED BY <1>1, <1>2, NormFacts DEF Init, SolveType

LEMMA TypeSolveStep ==
  ASSUME SolveType, SolveStep, UNCHANGED Kept
  PROVE  SolveType'
<1> USE DEF SolveType, Kept
<1> DEFINE Goal ==
      /\ criterion' = criterion
      /\ x' \in Iterates /\ {r', first', base'} \subseteq Norms
      /\ {count', recorded', restarts'} \subseteq Nat
      /\ \/ outcome' \in Results
         \/ outcome' = outcome /\ pc' # "ended"
      /\ overflowed' \in BOOLEAN
<1> SUFFICES Goal OBVIOUS
<1> x.norm \in Norms
  BY IterateFacts
<1>1. CASE Refuse
  <2>1. PICK status \in Statuses : Ends(status, 0, x)
    BY <1>1 DEF Refuse, Statuses
  <2>2. {count', recorded', restarts'} \subseteq Nat /\ first' \in Norms /\ 0 \in Norms
    BY <1>1, NormFacts DEF Refuse
  <2> QED BY <1>1, <2>1, <2>2, EndsResult DEF Refuse
<1>2. CASE Start
  <2>1. {count', recorded', restarts'} \subseteq Nat /\ {r', first', base'} \subseteq Norms
    BY <1>2 DEF Start
  <2>2. overflowed' \in BOOLEAN /\ criterion' = criterion
    BY <1>2 DEF Start
  <2>3. CASE Ends("Converged", x.norm, x)
    BY <2>1, <2>2, <2>3, EndsResult DEF Statuses
  <2>4. CASE pc' = "iterate" /\ UNCHANGED <<x, outcome>>
    BY <2>1, <2>2, <2>4
  <2> QED BY <1>2, <2>3, <2>4 DEF Start
<1>3. CASE BreakDown
  BY <1>3, EndsResult DEF BreakDown, Statuses
<1>4. CASE Iterate
  <2>1. PICK n \in Norms : \E y \in WithResidual(n) :
           /\ Advance(n) /\ r' = n
           /\ \/ Ends("NonFiniteResidual", n, y)
              \/ Ends("Converged", n, y)
              \/ x' = y /\ UNCHANGED <<pc, outcome>>
    BY <1>4 DEF Iterate
  <2>2. PICK y \in WithResidual(n) :
           /\ Advance(n) /\ r' = n
           /\ \/ Ends("NonFiniteResidual", n, y)
              \/ Ends("Converged", n, y)
              \/ x' = y /\ UNCHANGED <<pc, outcome>>
    BY <2>1
  <2> y \in Iterates
    BY IterateFacts
  <2>3. /\ {count', recorded', restarts'} \subseteq Nat /\ criterion' = criterion
        /\ {r', first', base'} \subseteq Norms /\ overflowed' \in BOOLEAN
    BY <2>2 DEF Advance
  <2>4. pc = "iterate"
    BY <1>4 DEF Iterate, Iterating
  <2> QED BY <2>1, <2>2, <2>3, <2>4, EndsResult DEF Statuses
<1>5. CASE Exhaust
  BY <1>5, EndsResult DEF Exhaust, Statuses
<1>6. CASE HalfStepOverflows
  <2>1. PICK n \in Norms : Advance(n) /\ Ends("NonFiniteResidual", n, x)
    BY <1>6, NormFacts DEF HalfStepOverflows
  <2>2. /\ {count', recorded', restarts'} \subseteq Nat /\ criterion' = criterion
        /\ {first', base'} \subseteq Norms /\ overflowed' \in BOOLEAN
    BY <2>1 DEF Advance
  <2> QED BY <1>6, <2>1, <2>2, EndsResult DEF HalfStepOverflows, Statuses
<1>7. CASE RestartSequence
  <2>1. /\ count' = count /\ recorded' = recorded /\ first' = first
        /\ criterion' = criterion /\ overflowed' = overflowed
    BY <1>7 DEF RestartSequence
  <2>2. CASE Ends("Breakdown", r, x) /\ UNCHANGED <<r, base, restarts>>
    BY <2>1, <2>2, EndsResult DEF Statuses
  <2>3. CASE r' = x.norm /\ Ends("Breakdown", r', x) /\ UNCHANGED <<base, restarts>>
    BY <2>1, <2>3, EndsResult DEF Statuses
  <2>4. CASE r' = x.norm /\ Ends("Converged", r', x) /\ UNCHANGED <<base, restarts>>
    BY <2>1, <2>4, EndsResult DEF Statuses
  <2>5. CASE /\ r' = x.norm /\ base' = RestartsAt(r') /\ restarts' = restarts + 1
             /\ UNCHANGED <<pc, x, outcome>>
    BY <1>7, <2>1, <2>5 DEF RestartsAt, RestartSequence, Iterating
  <2> QED BY <1>7, <2>2, <2>3, <2>4, <2>5 DEF RestartSequence
<1>8. CASE ArnoldiStep
  <2>1. PICK n \in Norms :
           /\ Advance(n) /\ r' = n
           /\ \/ Ends("NonFiniteResidual", n, x)
              \/ pc' \in {"update", pc} /\ UNCHANGED <<x, outcome>>
    <3>1. \A n : n \in (IF IsFinite(r) THEN {NaN} \cup 0 .. r ELSE {NaN}) => n \in Norms
      BY LinearSolveAssumption DEF Norms, IsFinite
    <3> QED BY <1>8, <3>1 DEF ArnoldiStep
  <2>2. /\ {count', recorded', restarts'} \subseteq Nat /\ criterion' = criterion
        /\ {r', first', base'} \subseteq Norms /\ overflowed' \in BOOLEAN
    BY <2>1 DEF Advance
  <2>3. pc = "iterate"
    BY <1>8 DEF ArnoldiStep, Iterating
  <2> QED BY <2>1, <2>2, <2>3, EndsResult DEF Statuses
<1>9. CASE UpdateFails
  BY <1>9, EndsResult DEF UpdateFails, Statuses
<1>10. CASE Update
  <2>1. PICK y \in Iterates :
           /\ r' = y.norm /\ base' = y.norm
           /\ \/ \E status \in Statuses : Ends(status, r', y)
              \/ pc' = "iterate" /\ x' = y /\ UNCHANGED outcome
    BY <1>10, IterateFacts DEF Update, Statuses
  <2>2. /\ {count', recorded', restarts'} \subseteq Nat /\ criterion' = criterion
        /\ {r', first', base'} \subseteq Norms /\ overflowed' \in BOOLEAN
    BY <1>10, <2>1, IterateFacts DEF Update
  <2> QED BY <2>1, <2>2, EndsResult
<1> QED BY <1>1, <1>2, <1>3, <1>4, <1>5, <1>6, <1>7, <1>8, <1>9, <1>10 DEF SolveStep

LEMMA CombinedResult ==
  ASSUME outcome \in Results, result \in Results
  PROVE  /\ Combined \in Results
         /\ Combined.status = outcome.status /\ Combined.final = outcome.final
         /\ Combined.first = result.first
         /\ Combined.iterations = result.iterations + outcome.iterations
         /\ Combined.recorded =
              result.recorded + (IF outcome.recorded = 0 THEN 0 ELSE outcome.recorded - 1)
<1> DEFINE added == IF outcome.recorded = 0 THEN 0 ELSE outcome.recorded - 1
<1>1. /\ outcome.recorded \in Nat /\ outcome.iterations \in Nat
      /\ result.recorded \in Nat /\ result.iterations \in Nat /\ result.first \in Norms
  BY DEF Results
<1>2. result.recorded + added \in Nat /\ result.iterations + outcome.iterations \in Nat
  BY <1>1
<1>3. Combined = [outcome EXCEPT !.iterations = result.iterations + outcome.iterations,
                                 !.recorded   = result.recorded + added,
                                 !.first      = result.first]
  BY DEF Combined, Results
<1> HIDE DEF added
<1>4. /\ Combined \in Results
      /\ Combined.status = outcome.status /\ Combined.final = outcome.final
      /\ Combined.first = result.first
      /\ Combined.iterations = result.iterations + outcome.iterations
      /\ Combined.recorded = result.recorded + added
  BY <1>1, <1>2, <1>3 DEF Results
<1> QED BY <1>4 DEF added

LEMMA NoneIsNoResult == None \notin Results
BY DEF None, Results, Statuses

LEMMA TypePolicyStep ==
  ASSUME SolveType, PrimaryIsFinal \/ FallBack \/ AttemptEnds \/ UNCHANGED vars
  PROVE  SolveType'
<1> USE DEF SolveType
<1>0. outcome \in Results => LatestFinite \in Iterates
  BY DEF LatestFinite, Results
<1>1. CASE PrimaryIsFinal
  BY <1>1 DEF PrimaryIsFinal, solverVars
<1>2. CASE FallBack
  <2>1. outcome \in Results /\ outcome.first \in Norms
    BY <1>2 DEF FallBack, Results
  <2>2. AttemptCriterion \in [absolute : Int, relative : Int]
    <3>1. Target = TargetOf(outcome.first) BY DEF Target, TargetOf
    <3>2. Target \in Int BY <2>1, <3>1, TargetType
    <3> QED BY <3>2 DEF AttemptCriterion
  <2> QED BY <1>0, <1>2, <2>1, <2>2 DEF FallBack, Launch
<1>3. CASE AttemptEnds
  <2>1. outcome \in Results /\ result \in Results
    BY <1>3 DEF AttemptEnds
  <2>2. Combined \in Results
    BY <2>1, CombinedResult
  <2>3. CASE pc' = "returned" /\ UNCHANGED <<config, solverVars, outcome, start, overflowed>>
    BY <1>3, <2>2, <2>3 DEF AttemptEnds, solverVars
  <2>4. CASE Launch(criterion)
    BY <1>0, <1>3, <2>1, <2>2, <2>4 DEF AttemptEnds, Launch
  <2> QED BY <1>3, <2>3, <2>4 DEF AttemptEnds
<1>4. CASE UNCHANGED vars
  BY <1>4 DEF vars, solverVars
<1> QED BY <1>1, <1>2, <1>3, <1>4

LEMMA TypeStep == SolveType /\ [Next]_vars => SolveType'
<1> SUFFICES ASSUME SolveType, [Next]_vars PROVE SolveType'
  OBVIOUS
<1>1. CASE SolveStep /\ UNCHANGED Kept
  BY <1>1, TypeSolveStep
<1>2. CASE PrimaryIsFinal \/ FallBack \/ AttemptEnds \/ UNCHANGED vars
  BY <1>2, TypePolicyStep
<1> QED BY <1>1, <1>2 DEF Next, Done, Kept

--------------------------------------------------------------------------------
(* Restarts.                                                               *)

\* A sequence whose residual has decreased has done an iteration that no restart has
\* been paid with yet.
PaidInv ==
  /\ restarts <= count
  /\ pc = "update" => method = "GMRES"
  /\ pc = "iterate" /\ method = "BiCGSTAB" /\ IsFinite(r) /\ r < base => restarts < count

LEMMA PaidStep ==
  ASSUME SolveType, PaidInv, [Next]_vars
  PROVE  PaidInv'
<1> USE DEF PaidInv
<1> count \in Nat /\ restarts \in Nat
  BY DEF SolveType
<1>1. CASE Refuse
  BY <1>1 DEF Refuse, Ends
<1>2. CASE Start
  <2>1. restarts' = 0 /\ count' = 0 /\ r' = base'
    BY <1>2 DEF Start
  <2>2. IsFinite(r') => ~(r' < base')
    BY <2>1, NormFacts
  <2>3. pc' # "update"
    BY <1>2 DEF Start, Ends
  <2> QED BY <2>1, <2>2, <2>3
<1>3. CASE BreakDown \/ Exhaust \/ UpdateFails
  BY <1>3 DEF BreakDown, Exhaust, UpdateFails, Ends
<1>4. CASE Iterate \/ HalfStepOverflows \/ ArnoldiStep
  <2>1. count' = count + 1 /\ restarts' = restarts
    BY <1>4 DEF Iterate, HalfStepOverflows, ArnoldiStep, Advance
  <2>2. restarts' <= count' /\ restarts' < count'
    BY <2>1
  <2>3. pc' = "update" => method' = "GMRES"
    <3>1. CASE ArnoldiStep
      BY <3>1 DEF ArnoldiStep, Iterating, Advance
    <3>2. CASE Iterate \/ HalfStepOverflows
      BY <3>2 DEF Iterate, HalfStepOverflows, Iterating, Ends
    <3> QED BY <1>4, <3>1, <3>2
  <2> QED BY <2>2, <2>3
<1>5. CASE RestartSequence
  <2>1. count' = count /\ method' = method /\ pc = "iterate" /\ method = "BiCGSTAB" /\ IsFinite(r)
    BY <1>5 DEF RestartSequence, Iterating
  <2>2. CASE pc' = "ended" /\ restarts' = restarts
    BY <2>1, <2>2
  <2>3. CASE r < base /\ base' = RestartsAt(r') /\ restarts' = restarts + 1
    <3>1. restarts' <= count' BY <2>1, <2>3
    <3>2. IsFinite(r') => ~(r' < base') BY <2>3, NormFacts DEF RestartsAt
    <3>3. method' # "GMRES" /\ pc' # "update" BY <1>5, <2>1, <2>3 DEF RestartSequence, Ends
    <3> QED BY <3>1, <3>2, <3>3
  <2> QED BY <1>5, <2>2, <2>3 DEF RestartSequence, Ends
<1>6. CASE Update
  <2>1. count' = count /\ restarts' = restarts /\ method' = method
    BY <1>6 DEF Update
  <2>2. method = "GMRES"
    BY <1>6 DEF Update
  <2> QED BY <2>1, <2>2
<1>7. CASE PrimaryIsFinal \/ UNCHANGED vars
  BY <1>7 DEF PrimaryIsFinal, vars, solverVars
<1>8. CASE FallBack
  BY <1>8 DEF FallBack, Launch
<1>9. CASE AttemptEnds
  BY <1>9 DEF AttemptEnds, Launch, solverVars
<1> QED BY <1>1, <1>2, <1>3, <1>4, <1>5, <1>6, <1>7, <1>8, <1>9 DEF Next, Done, SolveStep

--------------------------------------------------------------------------------
(* The history and the iterations.                                         *)

Counted(o) == o.recorded = o.iterations + 1
Refused(o) ==
  o.status \in {"NonFiniteInput", "InvalidSystem"} /\ o.recorded = 0 /\ o.iterations = 0

CountInv ==
  /\ pc \in {"iterate", "update"} => recorded = count + 1
  /\ pc = "ended" => Counted(outcome) \/ Refused(outcome)
  /\ result # None => Counted(result) \/ (pc = "returned" /\ Refused(result))
  /\ pc = "returned" => result # None

LEMMA CountSolveStep ==
  ASSUME SolveType, CountInv, SolveStep, UNCHANGED Kept
  PROVE  CountInv'
<1> USE DEF CountInv
<1> count \in Nat /\ recorded \in Nat
  BY DEF SolveType
<1> SUFFICES /\ pc' \in {"iterate", "update"} => recorded' = count' + 1
             /\ pc' = "ended" => Counted(outcome') \/ Refused(outcome')
  <2>1. pc # "returned"
    BY DEF SolveStep, Refuse, Start, BreakDown, Iterate, Exhaust, HalfStepOverflows,
           RestartSequence, ArnoldiStep, UpdateFails, Update, Iterating
  <2>2. pc' \in {"ended", "iterate", "update"}
    BY DEF SolveStep, Refuse, Start, BreakDown, Iterate, Exhaust, HalfStepOverflows,
           RestartSequence, ArnoldiStep, UpdateFails, Update, Iterating, Ends
  <2> QED BY <2>1, <2>2 DEF Kept, Counted, Refused
<1>1. CASE Refuse
  BY <1>1 DEF Refuse, Ends, Refused
<1>2. ASSUME NEW status, NEW final, NEW solution, Ends(status, final, solution),
             recorded' = count' + 1
      PROVE  pc' = "ended" /\ Counted(outcome')
  BY <1>2 DEF Ends, Counted
<1>3. CASE Start
  <2>1. recorded' = count' + 1 BY <1>3 DEF Start
  <2> QED BY <1>2, <1>3, <2>1 DEF Start
<1>4. CASE BreakDown \/ Exhaust \/ UpdateFails
  <2>1. recorded' = count' + 1
    BY <1>4 DEF BreakDown, Exhaust, UpdateFails, Iterating
  <2> QED BY <1>2, <1>4, <2>1 DEF BreakDown, Exhaust, UpdateFails
<1>5. CASE Iterate \/ HalfStepOverflows \/ ArnoldiStep
  <2>1. pc = "iterate" /\ count' = count + 1 /\ recorded' = recorded + 1
    BY <1>5 DEF Iterate, HalfStepOverflows, ArnoldiStep, Advance, Iterating
  <2>2. recorded' = count' + 1 BY <2>1
  <2>3. \/ pc' \in {"iterate", "update"}
        \/ \E status, final, solution : Ends(status, final, solution)
    BY <1>5, <2>1 DEF Iterate, HalfStepOverflows, ArnoldiStep
  <2> QED BY <1>2, <2>2, <2>3
<1>6. CASE RestartSequence \/ Update
  <2>1. recorded' = count' + 1
    BY <1>6 DEF RestartSequence, Update, Iterating
  <2>2. \/ pc' = "iterate"
        \/ \E status, final, solution : Ends(status, final, solution)
    BY <1>6 DEF RestartSequence, Update, Iterating
  <2> QED BY <1>2, <2>1, <2>2
<1> QED BY <1>1, <1>3, <1>4, <1>5, <1>6 DEF SolveStep

LEMMA CountStep ==
  ASSUME SolveType, CountInv, [Next]_vars
  PROVE  CountInv'
<1> USE DEF CountInv
<1>1. CASE SolveStep /\ UNCHANGED Kept
  BY <1>1, CountSolveStep
<1>2. CASE PrimaryIsFinal
  <2>1. outcome # None BY <1>2, NoneIsNoResult DEF PrimaryIsFinal, SolveType
  <2> QED BY <1>2, <2>1 DEF PrimaryIsFinal, Counted, Refused
<1>3. CASE FallBack
  <2>1. Counted(outcome) /\ result' = outcome /\ pc' \in {"begin", "threw"}
    BY <1>3 DEF FallBack, Launch, Eligible, Refused
  <2> QED BY <2>1 DEF Counted
<1>4. CASE AttemptEnds
  <2>1. outcome \in Results /\ result \in Results /\ result' = Combined
    BY <1>4 DEF AttemptEnds, SolveType
  <2>2. Counted(result) /\ (Counted(outcome) \/ Refused(outcome))
    <3>1. pc = "ended" /\ result # None BY <1>4 DEF AttemptEnds
    <3> QED BY <3>1
  <2>3. /\ outcome.recorded \in Nat /\ outcome.iterations \in Nat
        /\ result.recorded \in Nat /\ result.iterations \in Nat
    BY <2>1 DEF Results
  <2>4. Counted(Combined)
    BY <2>1, <2>2, <2>3, CombinedResult DEF Counted, Refused
  <2>5. pc' \in {"returned", "begin", "threw"}
    BY <1>4 DEF AttemptEnds, Launch
  <2> QED BY <2>1, <2>4, <2>5, CombinedResult, NoneIsNoResult DEF Counted
<1>5. CASE UNCHANGED vars
  BY <1>5 DEF vars, solverVars, Counted, Refused
<1> QED BY <1>1, <1>2, <1>3, <1>4, <1>5 DEF Next, Done, Kept

--------------------------------------------------------------------------------
(* The accuracy of a recovered solve.                                      *)

\* A solve that ended Converged met the criterion it was run with.
Honest == outcome.status = "Converged" =>
            \/ outcome.first = 0 /\ outcome.final = 0
            \/ Meets(outcome.final, outcome.first, criterion)

\* While no solve has started from an infinite residual, the primary runs with its own
\* criterion and every attempt with the primary's target.
AccuracyInv ==
  overflowed \/
    /\ pc \in {"iterate", "update"} => first # Infinite
    /\ pc = "ended" => outcome.first # Infinite /\ Honest
    /\ result = None => criterion = OwnCriterion
    /\ result # None /\ pc # "returned" =>
         /\ result.first # Infinite /\ result.first \in Norms
         /\ criterion = [absolute |-> TargetOf(result.first), relative |-> 0]
    /\ RecoveredMeetsCriterion

LEMMA AccuracySolveStep ==
  ASSUME SolveType, AccuracyInv, SolveStep, UNCHANGED Kept
  PROVE  AccuracyInv'
<1> USE DEF SolveType, Kept
<1>0. /\ overflowed => overflowed'
      /\ criterion' = criterion /\ pc # "returned" /\ pc' # "returned"
      /\ x.norm \in Norms
  <2>1. criterion' = criterion /\ pc # "returned" /\ (overflowed => overflowed')
    BY DEF SolveStep, Refuse, Start, BreakDown, Iterate, Exhaust, HalfStepOverflows,
           RestartSequence, ArnoldiStep, UpdateFails, Update, Iterating, Advance
  <2>2. pc' \in {"ended", "iterate", "update"}
    BY DEF SolveStep, Refuse, Start, BreakDown, Iterate, Exhaust, HalfStepOverflows,
           RestartSequence, ArnoldiStep, UpdateFails, Update, Iterating, Ends
  <2> QED BY <2>1, <2>2, IterateFacts
<1> SUFFICES ASSUME ~overflowed'
             PROVE  /\ pc' \in {"iterate", "update"} => first' # Infinite
                    /\ pc' = "ended" => outcome'.first # Infinite /\ Honest'
  BY <1>0 DEF AccuracyInv, TargetOf, OwnCriterion, RecoveredMeetsCriterion
<1>1. ASSUME NEW status, NEW final, NEW solution, Ends(status, final, solution),
             first' # Infinite,
             status = "Converged" => \/ first' = 0 /\ final = 0
                                     \/ Meets(final, first', criterion)
      PROVE  pc' = "ended" /\ outcome'.first # Infinite /\ Honest'
  BY <1>0, <1>1 DEF Ends, Honest, Meets
<1>2. CASE Refuse
  <2>1. first' = 0 /\ 0 # Infinite BY <1>2, LinearSolveAssumption DEF Refuse, Infinite
  <2> QED BY <1>1, <1>2, <2>1 DEF Refuse
<1>3. CASE Start
  <2>1. first' = x.norm /\ first' # Infinite BY <1>3 DEF Start
  <2> QED BY <1>1, <1>3, <2>1 DEF Start
<1>4. CASE BreakDown \/ Exhaust \/ UpdateFails
  <2>1. first' = first /\ first # Infinite
    BY <1>4 DEF BreakDown, Exhaust, UpdateFails, Iterating, AccuracyInv
  <2> QED BY <1>1, <1>4, <2>1 DEF BreakDown, Exhaust, UpdateFails
<1>5. CASE Iterate \/ HalfStepOverflows \/ ArnoldiStep
  <2>1. pc = "iterate" /\ first' = first /\ first # Infinite
    BY <1>5 DEF Iterate, HalfStepOverflows, ArnoldiStep, Advance, Iterating, AccuracyInv
  <2>2. \/ pc' \in {"iterate", "update"}
        \/ \E n, y : Ends("NonFiniteResidual", n, y)
        \/ \E n, y : Ends("Converged", n, y) /\ Meets(n, first, criterion)
    BY <1>5, <2>1 DEF Iterate, HalfStepOverflows, ArnoldiStep
  <2> QED BY <1>1, <2>1, <2>2
<1>6. CASE RestartSequence \/ Update
  <2>1. first' = first /\ first # Infinite
    BY <1>6 DEF RestartSequence, Update, Iterating, AccuracyInv
  <2>2. \/ pc' = "iterate"
        \/ \E status \in {"Breakdown", "NonFiniteResidual", "MaxIterations"} :
             \E n, y : Ends(status, n, y)
        \/ \E n, y : Ends("Converged", n, y) /\ Meets(n, first, criterion)
    BY <1>6 DEF RestartSequence, Update, Iterating
  <2> QED BY <1>1, <2>1, <2>2
<1> QED BY <1>2, <1>3, <1>4, <1>5, <1>6 DEF SolveStep

LEMMA AccuracyPolicyStep ==
  ASSUME SolveType, AccuracyInv, PrimaryIsFinal \/ FallBack \/ AttemptEnds
  PROVE  AccuracyInv'
<1> USE DEF SolveType
<1> SUFFICES ASSUME ~overflowed
             PROVE  /\ pc' \notin {"iterate", "update", "ended"}
                    /\ result' # None
                    /\ pc' # "returned" =>
                         /\ result'.first # Infinite /\ result'.first \in Norms
                         /\ criterion' = [absolute |-> TargetOf(result'.first), relative |-> 0]
                    /\ config' = config
                    /\ pc' = "returned" /\ result'.status = "Converged"
                         => \/ result'.first = 0
                            \/ Meets(result'.final, result'.first, OwnCriterion)
  <2> overflowed' = overflowed
    BY DEF PrimaryIsFinal, FallBack, AttemptEnds, Launch
  <2> QED BY DEF AccuracyInv, RecoveredMeetsCriterion, OwnCriterion, TargetOf, Meets
<1>1. /\ pc = "ended" /\ outcome \in Results /\ outcome.first # Infinite /\ Honest
      /\ outcome.first \in Norms /\ outcome.final \in Norms
      /\ config \in Configurations
  BY DEF PrimaryIsFinal, FallBack, AttemptEnds, AccuracyInv, Results
<1>2. CASE PrimaryIsFinal
  <2>1. criterion = OwnCriterion /\ result' = outcome /\ pc' = "returned" /\ config' = config
    BY <1>2 DEF PrimaryIsFinal, AccuracyInv
  <2> QED BY <1>1, <2>1, NoneIsNoResult DEF Honest
<1>3. CASE FallBack
  <2>1. /\ result' = outcome /\ pc' \in {"begin", "threw"} /\ config' = config
        /\ criterion' = AttemptCriterion
    BY <1>3 DEF FallBack, Launch
  <2>2. AttemptCriterion = [absolute |-> TargetOf(outcome.first), relative |-> 0]
    BY DEF AttemptCriterion, Target, TargetOf
  <2> QED BY <1>1, <2>1, <2>2, NoneIsNoResult
<1>4. CASE AttemptEnds
  <2>1. /\ result \in Results /\ result' = Combined /\ config' = config
        /\ pc' \in {"returned", "begin", "threw"}
        /\ criterion' = criterion
    BY <1>4 DEF AttemptEnds, Launch, solverVars
  <2>2. /\ Combined \in Results /\ Combined.status = outcome.status
        /\ Combined.final = outcome.final /\ Combined.first = result.first
    BY <1>1, <2>1, CombinedResult
  <2>3. /\ result.first # Infinite /\ result.first \in Norms
        /\ criterion = [absolute |-> TargetOf(result.first), relative |-> 0]
    BY <1>1, <1>4 DEF AttemptEnds, AccuracyInv
  <2>4. ASSUME outcome.status = "Converged"
        PROVE  result.first = 0 \/ Meets(outcome.final, result.first, OwnCriterion)
    <3>1. CASE outcome.final = 0
      <4>1. 0 # NaN /\ 100 * 0 <= 100 * config.absolute
        BY <1>1, ConfigurationFacts, NormFacts
      <4> QED BY <3>1, <4>1 DEF Meets, OwnCriterion
    <3>2. CASE Meets(outcome.final, outcome.first, criterion)
      BY <1>1, <2>3, <3>2, TargetIsThePrimarys
    <3> QED BY <1>1, <2>4, <3>1, <3>2 DEF Honest
  <2> QED BY <2>1, <2>2, <2>3, <2>4, NoneIsNoResult
<1> QED BY <1>2, <1>3, <1>4

LEMMA AccuracyStep ==
  ASSUME SolveType, AccuracyInv, [Next]_vars
  PROVE  AccuracyInv'
<1>1. CASE SolveStep /\ UNCHANGED Kept
  BY <1>1, AccuracySolveStep
<1>2. CASE PrimaryIsFinal \/ FallBack \/ AttemptEnds
  BY <1>2, AccuracyPolicyStep
<1>3. CASE UNCHANGED vars
  BY <1>3 DEF vars, solverVars, AccuracyInv, RecoveredMeetsCriterion, OwnCriterion, TargetOf,
              Meets, Honest
<1> QED BY <1>1, <1>2, <1>3 DEF Next, Done, Kept

--------------------------------------------------------------------------------
(* Sums over the rows of a matrix.  A set of rows that is smallest among those *)
(* for which a claim about sums fails does the work of induction.           *)

\* Every set of natural numbers that is not empty has a least one.
LEMMA LeastNatural ==
  ASSUME NEW T \in SUBSET Nat, T # {}
  PROVE  \E n \in T : \A k \in T : n <= k
<1>1. PICK n \in T : \A k \in T : <<k, n>> \notin OpToRel(<, Nat)
  BY NatLessThanWellFounded, WFMin
<1>2. \A k \in T : ~(k < n)
  BY <1>1 DEF OpToRel
<1> QED BY <1>2

\* The sets of rows, and what a part of them has: fewer members.
LEMMA RowSets ==
  ASSUME NEW S \in SUBSET Rows
  PROVE  /\ IsFiniteSet(S) /\ Cardinality(S) \in Nat
         /\ S = {} <=> Cardinality(S) = 0
         /\ \A i \in S : Cardinality(S \ {i}) = Cardinality(S) - 1
<1>1. IsFiniteSet(S)
  BY LinearSolveAssumption, FS_Subset
<1> QED BY <1>1, FS_CardinalityType, FS_EmptySet, FS_RemoveElement

\* A smallest set of rows among those in a collection.
LEMMA SmallestRows ==
  ASSUME NEW C \in SUBSET (SUBSET Rows), C # {}
  PROVE  \E S \in C : \A i \in S : S \ {i} \notin C
<1> DEFINE sizes == {Cardinality(S) : S \in C}
<1>1. sizes \in SUBSET Nat /\ sizes # {}
  BY RowSets
<1>2. PICK n \in sizes : \A k \in sizes : n <= k
  <2> HIDE DEF sizes
  <2> QED BY <1>1, LeastNatural
<1>3. PICK S \in C : Cardinality(S) = n
  BY <1>2
<1>4. ASSUME NEW i \in S, S \ {i} \in C PROVE FALSE
  <2>1. Cardinality(S \ {i}) \in sizes
    BY <1>4
  <2> HIDE DEF sizes
  <2>2. Cardinality(S \ {i}) = n - 1 /\ n \in Nat
    BY <1>3, RowSets
  <2> QED BY <1>2, <2>1, <2>2
<1> QED BY <1>4

Body(f, g, T) == IF T = {} THEN 0
                 ELSE LET j == CHOOSE j \in T : TRUE IN f[j] + g[T \ {j}]

\* The sets of at most n rows.
UpTo(n) == {T \in SUBSET Rows : Cardinality(T) <= n}

\* The recursion that SumOver is defined by has a solution.
LEMMA SumExists ==
  ASSUME NEW f
  PROVE  \E g : g = [T \in SUBSET Rows |-> Body(f, g, T)]
<1> DEFINE Solved(n) == \E g : g = [T \in UpTo(n) |-> Body(f, g, T)]
           bad == {n \in Nat : ~Solved(n)}
<1>1. bad = {}
  <2> SUFFICES ASSUME bad # {} PROVE FALSE
    OBVIOUS
  <2>1. bad \in SUBSET Nat
    OBVIOUS
  <2>2. PICK n \in bad : \A k \in bad : n <= k
    <3> HIDE DEF bad
    <3> QED BY <2>1, LeastNatural
  <2>3. n \in Nat /\ ~Solved(n)
    OBVIOUS
  <2>4. CASE n = 0
    <3> DEFINE g == [T \in UpTo(n) |-> 0]
    <3>1. \A T \in UpTo(n) : T = {}
      BY <2>4, RowSets DEF UpTo
    <3>2. g = [T \in UpTo(n) |-> Body(f, g, T)]
      BY <3>1 DEF Body
    <3> QED BY <2>3, <3>2
  <2>5. CASE n > 0
    <3>1. n - 1 \in Nat /\ ~(n <= n - 1)
      BY <2>3, <2>5
    <3>2. Solved(n - 1)
      <4> HIDE DEF Solved
      <4> QED BY <2>2, <3>1
    <3>3. PICK g : g = [T \in UpTo(n - 1) |-> Body(f, g, T)]
      BY <3>2
    <3> DEFINE h == [T \in UpTo(n) |-> Body(f, g, T)]
    <3>4. ASSUME NEW T \in UpTo(n) PROVE Body(f, h, T) = Body(f, g, T)
      <4>1. CASE T = {}
        BY <4>1 DEF Body
      <4>2. CASE T # {}
        <5> DEFINE j == CHOOSE j \in T : TRUE
        <5>1. j \in T
          BY <4>2
        <5> HIDE DEF j
        <5>2. T \ {j} \in UpTo(n - 1) /\ T \ {j} \in UpTo(n)
          BY <2>3, <3>4, <5>1, RowSets DEF UpTo
        <5>3. g[T \ {j}] = h[T \ {j}]
          <6>1. g[T \ {j}] = Body(f, g, T \ {j})
            BY <3>3, <5>2
          <6> QED BY <5>2, <6>1
        <5> HIDE DEF h
        <5> QED BY <5>3 DEF Body, j
      <4> QED BY <4>1, <4>2
    <3>5. h = [T \in UpTo(n) |-> Body(f, h, T)]
      <4>1. h = [T \in UpTo(n) |-> Body(f, g, T)]
        OBVIOUS
      <4> HIDE DEF h
      <4> QED BY <3>4, <4>1
    <3> HIDE DEF h
    <3> QED BY <2>3, <3>5
  <2> QED BY <2>3, <2>4, <2>5
<1>2. Cardinality(Rows) \in Nat
  BY RowSets
<1>3. UpTo(Cardinality(Rows)) = SUBSET Rows
  BY LinearSolveAssumption, FS_Subset, RowSets DEF UpTo
<1>4. Solved(Cardinality(Rows))
  BY <1>1, <1>2
<1> QED BY <1>3, <1>4

LEMMA SumUnfolds ==
  ASSUME NEW f
  PROVE  /\ SumOver({}, f) = 0
         /\ \A S \in SUBSET Rows : S # {} =>
              \E j \in S : SumOver(S, f) = f[j] + SumOver(S \ {j}, f)
<1> DEFINE sum[T \in SUBSET Rows] ==
             IF T = {} THEN 0
             ELSE LET j == CHOOSE j \in T : TRUE IN f[j] + sum[T \ {j}]
<1>1. sum = [T \in SUBSET Rows |-> Body(f, sum, T)]
  <2> DEFINE P(g) == g = [T \in SUBSET Rows |-> Body(f, g, T)]
  <2>1. \E g : P(g)
    BY SumExists
  <2> HIDE DEF P
  <2>2. P(CHOOSE g : P(g))
    BY <2>1
  <2> USE DEF P
  <2>3. P(sum)
    BY <2>2 DEF sum, Body
  <2> QED BY <2>3
<1>2. \A S : SumOver(S, f) = sum[S]
  BY DEF SumOver
<1> HIDE DEF sum
<1>3. \A S \in SUBSET Rows : sum[S] = Body(f, sum, S)
  BY <1>1
<1>4. SumOver({}, f) = 0
  BY <1>2, <1>3 DEF Body
<1>5. ASSUME NEW S \in SUBSET Rows, S # {}
      PROVE  \E j \in S : SumOver(S, f) = f[j] + SumOver(S \ {j}, f)
  <2> DEFINE j == CHOOSE j \in S : TRUE
  <2>1. j \in S
    BY <1>5
  <2>2. sum[S] = f[j] + sum[S \ {j}]
    BY <1>3, <1>5 DEF Body
  <2> HIDE DEF j
  <2> QED BY <1>2, <2>1, <2>2
<1> QED BY <1>4, <1>5

\* A sum of integers is an integer, and any row may be taken out of it.
LEMMA SumType ==
  ASSUME NEW f \in [Rows -> Int], NEW S \in SUBSET Rows
  PROVE  SumOver(S, f) \in Int
<1> DEFINE bad == {T \in SUBSET Rows : SumOver(T, f) \notin Int}
<1>1. bad = {}
  <2> SUFFICES ASSUME bad # {} PROVE FALSE
    OBVIOUS
  <2>1. bad \in SUBSET (SUBSET Rows)
    OBVIOUS
  <2>2. PICK T \in bad : \A i \in T : T \ {i} \notin bad
    <3> HIDE DEF bad
    <3> QED BY <2>1, SmallestRows
  <2>3. T # {}
    BY SumUnfolds
  <2>4. PICK j \in T : SumOver(T, f) = f[j] + SumOver(T \ {j}, f)
    BY <2>3, SumUnfolds
  <2>5. SumOver(T \ {j}, f) \in Int /\ f[j] \in Int
    BY <2>2
  <2> QED BY <2>4, <2>5
<1> QED BY <1>1

LEMMA SumRemoves ==
  ASSUME NEW f \in [Rows -> Int], NEW S \in SUBSET Rows, NEW i \in S
  PROVE  SumOver(S, f) = f[i] + SumOver(S \ {i}, f)
<1> DEFINE bad == {T \in SUBSET Rows : \E k \in T : SumOver(T, f) # f[k] + SumOver(T \ {k}, f)}
<1>1. bad = {}
  <2> SUFFICES ASSUME bad # {} PROVE FALSE
    OBVIOUS
  <2>1. bad \in SUBSET (SUBSET Rows)
    OBVIOUS
  <2>2. PICK T \in bad : \A k \in T : T \ {k} \notin bad
    <3> HIDE DEF bad
    <3> QED BY <2>1, SmallestRows
  <2>3. PICK k \in T : SumOver(T, f) # f[k] + SumOver(T \ {k}, f)
    OBVIOUS
  <2>4. PICK j \in T : SumOver(T, f) = f[j] + SumOver(T \ {j}, f)
    BY SumUnfolds
  <2>5. j # k
    BY <2>3, <2>4
  <2> DEFINE rest == SumOver((T \ {j}) \ {k}, f)
  <2>6. SumOver(T \ {j}, f) = f[k] + rest
    BY <2>2, <2>5
  <2>7. SumOver(T \ {k}, f) = f[j] + rest
    <3>1. (T \ {k}) \ {j} = (T \ {j}) \ {k}
      OBVIOUS
    <3>2. j \in T \ {k} /\ T \ {k} \in SUBSET Rows /\ T \ {k} \notin bad
      BY <2>2, <2>5
    <3>3. SumOver(T \ {k}, f) = f[j] + SumOver((T \ {k}) \ {j}, f)
      BY <3>2
    <3> QED BY <3>1, <3>3
  <2>8. rest \in Int /\ f[j] \in Int /\ f[k] \in Int
    BY SumType
  <2> HIDE DEF rest, bad
  <2> QED BY <2>3, <2>4, <2>6, <2>7, <2>8
<1> QED BY <1>1

\* Sums respect order, and what is larger in one place is larger in sum.
LEMMA SumMonotone ==
  ASSUME NEW f \in [Rows -> Int], NEW g \in [Rows -> Int], NEW S \in SUBSET Rows,
         \A i \in S : f[i] <= g[i]
  PROVE  SumOver(S, f) <= SumOver(S, g)
<1> DEFINE bad == {T \in SUBSET S : ~(SumOver(T, f) <= SumOver(T, g))}
<1>1. bad = {}
  <2> SUFFICES ASSUME bad # {} PROVE FALSE
    OBVIOUS
  <2>1. bad \in SUBSET (SUBSET Rows)
    OBVIOUS
  <2>2. PICK T \in bad : \A k \in T : T \ {k} \notin bad
    <3> HIDE DEF bad
    <3> QED BY <2>1, SmallestRows
  <2>3. T # {}
    <3>1. SumOver({}, f) = 0 /\ SumOver({}, g) = 0
      BY SumUnfolds
    <3> QED BY <3>1
  <2>4. PICK j \in T : TRUE
    BY <2>3
  <2>5. /\ SumOver(T, f) = f[j] + SumOver(T \ {j}, f)
        /\ SumOver(T, g) = g[j] + SumOver(T \ {j}, g)
    BY SumRemoves
  <2>6. SumOver(T \ {j}, f) <= SumOver(T \ {j}, g)
    BY <2>2
  <2>7. /\ SumOver(T \ {j}, f) \in Int /\ SumOver(T \ {j}, g) \in Int
        /\ f[j] \in Int /\ g[j] \in Int /\ f[j] <= g[j]
    BY SumType
  <2> QED BY <2>5, <2>6, <2>7
<1> QED BY <1>1

LEMMA SumOfZeros ==
  ASSUME NEW S \in SUBSET Rows
  PROVE  SumOver(S, [i \in Rows |-> 0]) = 0
<1> DEFINE f == [i \in Rows |-> 0]
           bad == {T \in SUBSET Rows : SumOver(T, f) # 0}
<1>1. bad = {}
  <2> SUFFICES ASSUME bad # {} PROVE FALSE
    OBVIOUS
  <2>1. bad \in SUBSET (SUBSET Rows)
    OBVIOUS
  <2>2. PICK T \in bad : \A k \in T : T \ {k} \notin bad
    <3> HIDE DEF bad
    <3> QED BY <2>1, SmallestRows
  <2>3. T # {}
    BY SumUnfolds
  <2>4. PICK j \in T : SumOver(T, f) = f[j] + SumOver(T \ {j}, f)
    BY <2>3, SumUnfolds
  <2>5. SumOver(T \ {j}, f) = 0 /\ f[j] = 0
    BY <2>2
  <2> QED BY <2>4, <2>5
<1> QED BY <1>1

LEMMA SumNonNegative ==
  ASSUME NEW f \in [Rows -> Int], NEW S \in SUBSET Rows, \A i \in S : f[i] >= 0
  PROVE  /\ SumOver(S, f) >= 0
         /\ (\E i \in S : f[i] > 0) => SumOver(S, f) > 0
<1>1. \A T \in SUBSET S : SumOver(T, f) >= 0
  <2> TAKE T \in SUBSET S
  <2> DEFINE zero == [i \in Rows |-> 0]
  <2>1. zero \in [Rows -> Int] /\ \A i \in T : zero[i] <= f[i]
    OBVIOUS
  <2>2. SumOver(T, zero) = 0
    BY SumOfZeros
  <2> HIDE DEF zero
  <2>3. SumOver(T, zero) <= SumOver(T, f)
    BY <2>1, SumMonotone
  <2> QED BY <2>2, <2>3, SumType
<1>2. ASSUME NEW i \in S, f[i] > 0 PROVE SumOver(S, f) > 0
  <2>1. SumOver(S, f) = f[i] + SumOver(S \ {i}, f)
    BY SumRemoves
  <2>2. SumOver(S \ {i}, f) >= 0 /\ SumOver(S \ {i}, f) \in Int /\ f[i] \in Int
    BY <1>1, SumType
  <2> QED BY <1>2, <2>1, <2>2
<1> QED BY <1>1, <1>2

LEMMA SumAgrees ==
  ASSUME NEW f \in [Rows -> Int], NEW g \in [Rows -> Int], NEW S \in SUBSET Rows,
         \A i \in S : f[i] = g[i]
  PROVE  SumOver(S, f) = SumOver(S, g)
<1>1. \A i \in S : f[i] <= g[i] /\ g[i] <= f[i]
  OBVIOUS
<1>2. SumOver(S, f) <= SumOver(S, g) /\ SumOver(S, g) <= SumOver(S, f)
  BY <1>1, SumMonotone
<1> QED BY <1>2, SumType

\* Sums are linear.
LEMMA SumAdds ==
  ASSUME NEW f \in [Rows -> Int], NEW g \in [Rows -> Int], NEW h \in [Rows -> Int],
         NEW S \in SUBSET Rows, \A i \in S : h[i] = f[i] + g[i]
  PROVE  SumOver(S, h) = SumOver(S, f) + SumOver(S, g)
<1> DEFINE bad == {T \in SUBSET S : SumOver(T, h) # SumOver(T, f) + SumOver(T, g)}
<1>1. bad = {}
  <2> SUFFICES ASSUME bad # {} PROVE FALSE
    OBVIOUS
  <2>1. bad \in SUBSET (SUBSET Rows)
    OBVIOUS
  <2>2. PICK T \in bad : \A k \in T : T \ {k} \notin bad
    <3> HIDE DEF bad
    <3> QED BY <2>1, SmallestRows
  <2>3. T # {}
    <3>1. SumOver({}, f) = 0 /\ SumOver({}, g) = 0 /\ SumOver({}, h) = 0
      BY SumUnfolds
    <3>2. SumOver(T, h) # SumOver(T, f) + SumOver(T, g)
      OBVIOUS
    <3> HIDE DEF bad
    <3> QED BY <3>1, <3>2
  <2>4. PICK j \in T : TRUE
    BY <2>3
  <2>5. /\ SumOver(T, f) = f[j] + SumOver(T \ {j}, f)
        /\ SumOver(T, g) = g[j] + SumOver(T \ {j}, g)
        /\ SumOver(T, h) = h[j] + SumOver(T \ {j}, h)
    BY SumRemoves
  <2>6. SumOver(T \ {j}, h) = SumOver(T \ {j}, f) + SumOver(T \ {j}, g)
    BY <2>2
  <2>7. /\ SumOver(T \ {j}, f) \in Int /\ SumOver(T \ {j}, g) \in Int
        /\ f[j] \in Int /\ g[j] \in Int /\ h[j] = f[j] + g[j]
    BY SumType
  <2> QED BY <2>5, <2>6, <2>7
<1> QED BY <1>1

LEMMA SumScales ==
  ASSUME NEW f \in [Rows -> Int], NEW g \in [Rows -> Int], NEW n \in Int,
         NEW S \in SUBSET Rows, \A i \in S : g[i] = n * f[i]
  PROVE  SumOver(S, g) = n * SumOver(S, f)
<1> DEFINE bad == {T \in SUBSET S : SumOver(T, g) # n * SumOver(T, f)}
<1>1. bad = {}
  <2> SUFFICES ASSUME bad # {} PROVE FALSE
    OBVIOUS
  <2>1. bad \in SUBSET (SUBSET Rows)
    OBVIOUS
  <2>2. PICK T \in bad : \A k \in T : T \ {k} \notin bad
    <3> HIDE DEF bad
    <3> QED BY <2>1, SmallestRows
  <2>3. T # {}
    <3>1. n * 0 = 0
      OBVIOUS
    <3> QED BY <3>1, SumUnfolds
  <2>4. PICK j \in T : TRUE
    BY <2>3
  <2>5. /\ SumOver(T, f) = f[j] + SumOver(T \ {j}, f)
        /\ SumOver(T, g) = g[j] + SumOver(T \ {j}, g)
    BY SumRemoves
  <2>6. SumOver(T \ {j}, g) = n * SumOver(T \ {j}, f)
    BY <2>2
  <2>7. SumOver(T \ {j}, f) \in Int /\ f[j] \in Int /\ g[j] = n * f[j]
    BY SumType
  <2>8. ASSUME NEW a \in Int, NEW b \in Int PROVE n * (a + b) = n * a + n * b
    OBVIOUS
  <2> QED BY <2>5, <2>6, <2>7, <2>8
<1> QED BY <1>1

\* What each row gives to another one the other one takes.
IsExchange(h) == \A i, j \in Rows : h[i][j] + h[j][i] = 0

\* What the rows give to one another cancels over all of them.
LEMMA ExchangesCancel ==
  ASSUME NEW h \in [Rows -> [Rows -> Int]], IsExchange(h),
         NEW S \in SUBSET Rows
  PROVE  SumOver(S, [i \in Rows |-> SumOver(S, h[i])]) = 0
<1> DEFINE Total(T) == SumOver(T, [i \in Rows |-> SumOver(T, h[i])])
           bad == {T \in SUBSET Rows : Total(T) # 0}
<1>1. bad = {}
  <2> SUFFICES ASSUME bad # {} PROVE FALSE
    OBVIOUS
  <2>1. bad \in SUBSET (SUBSET Rows)
    OBVIOUS
  <2>2. PICK T \in bad : \A k \in T : T \ {k} \notin bad
    <3> HIDE DEF bad
    <3> QED BY <2>1, SmallestRows
  <2>3. T # {}
    BY SumUnfolds
  <2>4. PICK j \in T : TRUE
    BY <2>3
  <2> DEFINE U == T \ {j}
             whole == [i \in Rows |-> SumOver(T, h[i])]
             within == [i \in Rows |-> SumOver(U, h[i])]
             given == [i \in Rows |-> h[i][j]]
  <2>5. /\ whole \in [Rows -> Int] /\ within \in [Rows -> Int] /\ given \in [Rows -> Int]
        /\ h[j] \in [Rows -> Int] /\ U \in SUBSET Rows
    BY SumType
  <2>6. \A i \in Rows : whole[i] = within[i] + given[i]
    <3> TAKE i \in Rows
    <3>1. SumOver(T, h[i]) = h[i][j] + SumOver(U, h[i])
      BY SumRemoves
    <3>2. h[i][j] \in Int /\ SumOver(U, h[i]) \in Int
      BY SumType
    <3> QED BY <3>1, <3>2
  <2>7. SumOver(U, within) = 0
    <3>1. U \notin bad
      BY <2>2, <2>4
    <3> QED BY <2>5, <3>1
  <2>8. whole[j] = SumOver(U, h[j])
    <3>1. h[j][j] = 0
      <4>1. h[j][j] \in Int
        OBVIOUS
      <4>2. h[j][j] + h[j][j] = 0
        BY DEF IsExchange
      <4>3. \A n \in Int : n + n = 0 => n = 0
        OBVIOUS
      <4> QED BY <4>1, <4>2, <4>3
    <3>2. SumOver(T, h[j]) = h[j][j] + SumOver(U, h[j]) /\ SumOver(U, h[j]) \in Int
      BY <2>5, SumRemoves, SumType
    <3>3. whole[j] = SumOver(T, h[j])
      OBVIOUS
    <3> HIDE DEF whole, U
    <3> QED BY <3>1, <3>2, <3>3
  <2>9. SumOver(U, given) + SumOver(U, h[j]) = 0
    <3> DEFINE zero == [i \in Rows |-> 0]
    <3>1. \A i \in U : zero[i] = given[i] + h[j][i]
      <4> TAKE i \in U
      <4>1. h[i][j] + h[j][i] = 0
        BY <2>5 DEF IsExchange
      <4>2. h[j][i] \in Int /\ h[i][j] \in Int /\ given[i] = h[i][j] /\ zero[i] = 0
        OBVIOUS
      <4> HIDE DEF given, zero
      <4> QED BY <4>1, <4>2
    <3>2. zero \in [Rows -> Int]
      OBVIOUS
    <3>3. SumOver(U, zero) = 0
      BY <2>5, SumOfZeros
    <3> HIDE DEF given, U, zero
    <3> QED BY <2>5, <3>1, <3>2, <3>3, SumAdds
  <2>10. Total(T) = whole[j] + SumOver(U, whole)
    <3> HIDE DEF whole
    <3>1. SumOver(T, whole) = whole[j] + SumOver(T \ {j}, whole)
      BY <2>5, SumRemoves
    <3> QED BY <3>1 DEF whole
  <2>11. SumOver(U, whole) = SumOver(U, within) + SumOver(U, given)
    <3>1. \A i \in U : whole[i] = within[i] + given[i]
      BY <2>6
    <3> HIDE DEF whole, within, given, U, bad, Total
    <3> QED BY <2>5, <3>1, SumAdds
  <2>12. SumOver(U, h[j]) \in Int /\ SumOver(U, given) \in Int
    BY <2>5, SumType
  <2> HIDE DEF whole, within, given, U
  <2>13. Total(T) = 0
    BY <2>7, <2>8, <2>9, <2>10, <2>11, <2>12
  <2> QED BY <2>13
<1> QED BY <1>1

--------------------------------------------------------------------------------
(* What makes a matrix fit for CG.                                         *)

LEMMA MagnitudeFacts ==
  ASSUME NEW n \in Int
  PROVE  /\ Magnitude(n) \in Nat
         /\ Magnitude(n) = n \/ Magnitude(n) = -n
         /\ n = 0 <=> Magnitude(n) = 0
BY DEF Magnitude

LEMMA SquareFacts ==
  ASSUME NEW p \in Int
  PROVE  p * p \in Nat /\ (p # 0 => p * p > 0)
OBVIOUS

LEMMA PositiveProduct ==
  ASSUME NEW p \in Nat, NEW q \in Nat
  PROVE  p * q \in Nat /\ (p > 0 /\ q > 0 => p * q > 0)
OBVIOUS

\* What the entry n and its mirror image add to the form at p and q, beside what
\* they take from the diagonal.
Gain(n, p, q) == Magnitude(n) * (p * p + q * q) + 2 * (n * (p * q))

LEMMA GainFacts ==
  ASSUME NEW n \in Int, NEW p \in Int, NEW q \in Int
  PROVE  /\ Gain(n, p, q) \in Nat
         /\ Gain(n, p, q) = 0 /\ n # 0 => p * p = q * q
<1>1. CASE n >= 0
  <2> DEFINE s == (p + q) * (p + q)
  <2>1. Gain(n, p, q) = n * s
    <3>1. Magnitude(n) = n
      BY <1>1 DEF Magnitude
    <3>2. n * (p * p + q * q) + 2 * (n * (p * q)) = n * ((p + q) * (p + q))
      OBVIOUS
    <3> QED BY <3>1, <3>2 DEF Gain
  <2>2. s \in Nat /\ (p + q # 0 => s > 0)
    BY SquareFacts
  <2>3. p + q = 0 => p * p = q * q
    <3>1. ASSUME p + q = 0 PROVE p * p = q * q
      <4>1. p = -q
        BY <3>1
      <4>2. (-q) * (-q) = q * q
        OBVIOUS
      <4> QED BY <4>1, <4>2
    <3> QED BY <3>1
  <2> HIDE DEF s
  <2>4. n * s \in Nat /\ (n > 0 /\ s > 0 => n * s > 0)
    BY <1>1, <2>2, PositiveProduct
  <2> QED BY <1>1, <2>1, <2>2, <2>3, <2>4
<1>2. CASE n < 0
  <2> DEFINE s == (p - q) * (p - q)
             k == -n
  <2>1. Gain(n, p, q) = k * s
    <3>1. Magnitude(n) = -n
      BY <1>2 DEF Magnitude
    <3>2. (-n) * (p * p + q * q) + 2 * (n * (p * q)) = (-n) * ((p - q) * (p - q))
      OBVIOUS
    <3> QED BY <3>1, <3>2 DEF Gain
  <2>2. s \in Nat /\ (p - q # 0 => s > 0)
    BY SquareFacts
  <2>3. p - q = 0 => p * p = q * q
    <3>1. ASSUME p - q = 0 PROVE p = q
      BY <3>1
    <3> QED BY <3>1
  <2>4. k \in Nat /\ k > 0
    BY <1>2
  <2> HIDE DEF s, k
  <2>5. k * s \in Nat /\ (k > 0 /\ s > 0 => k * s > 0)
    BY <2>2, <2>4, PositiveProduct
  <2> QED BY <2>1, <2>2, <2>3, <2>4, <2>5
<1> QED BY <1>1, <1>2

\* What the rows gain at v; the diagonal gains what it exceeds its row by.
Gains(m, v) ==
  [i \in Rows |-> [j \in Rows |->
     IF i = j THEN 2 * ((m[i][i] - OffDiagonalSum(m, i)) * (v[i] * v[i]))
     ELSE Gain(m[i][j], v[i], v[j])]]

\* What they exchange.
Given(m, v) ==
  [i \in Rows |-> [j \in Rows |->
     IF i = j THEN 0 ELSE Magnitude(m[i][j]) * (v[i] * v[i] - v[j] * v[j])]]

Row(m, v, i) == [j \in Rows |-> m[i][j] * v[j]]

LEMMA RowTypes ==
  ASSUME NEW m \in [Rows -> [Rows -> Int]], NEW v \in [Rows -> Int]
  PROVE  /\ \A i \in Rows : OffDiagonalSum(m, i) \in Int
         /\ \A i \in Rows : Row(m, v, i) \in [Rows -> Int]
         /\ Gains(m, v) \in [Rows -> [Rows -> Int]]
         /\ Given(m, v) \in [Rows -> [Rows -> Int]]
<1>1. ASSUME NEW i \in Rows PROVE OffDiagonalSum(m, i) \in Int
  <2> DEFINE f == [j \in Rows |-> Magnitude(m[i][j])]
  <2>1. f \in [Rows -> Int]
    BY MagnitudeFacts
  <2> HIDE DEF f
  <2>2. SumOver(Rows \ {i}, f) \in Int
    BY <2>1, SumType
  <2> QED BY <2>2 DEF OffDiagonalSum, f
<1>2. ASSUME NEW i \in Rows PROVE Row(m, v, i) \in [Rows -> Int]
  BY DEF Row
<1>3. ASSUME NEW i \in Rows, NEW j \in Rows
      PROVE  /\ 2 * ((m[i][i] - OffDiagonalSum(m, i)) * (v[i] * v[i])) \in Int
             /\ Gain(m[i][j], v[i], v[j]) \in Int
             /\ Magnitude(m[i][j]) * (v[i] * v[i] - v[j] * v[j]) \in Int
  <2>1. m[i][j] \in Int /\ v[i] \in Int /\ v[j] \in Int /\ m[i][i] \in Int
    OBVIOUS
  <2>2. Gain(m[i][j], v[i], v[j]) \in Int
    BY <2>1, GainFacts
  <2>3. Magnitude(m[i][j]) \in Int
    BY <2>1, MagnitudeFacts
  <2>4. OffDiagonalSum(m, i) \in Int
    BY <1>1
  <2>5. v[i] * v[i] \in Int /\ v[j] * v[j] \in Int
    BY <2>1
  <2> DEFINE mg == Magnitude(m[i][j])
             d == OffDiagonalSum(m, i)
             p == v[i] * v[i]
             q == v[j] * v[j]
             e == m[i][i]
  <2> HIDE DEF mg, d, p, q, e
  <2>6. ASSUME NEW A \in Int, NEW B \in Int, NEW P \in Int
        PROVE  2 * ((A - B) * P) \in Int /\ A * (B - P) \in Int
    OBVIOUS
  <2> QED BY <2>1, <2>2, <2>3, <2>4, <2>5, <2>6
<1> QED BY <1>1, <1>2, <1>3 DEF Gains, Given

LEMMA GivenIsExchange ==
  ASSUME NEW m \in [Rows -> [Rows -> Int]], NEW v \in [Rows -> Int], Symmetric(m)
  PROVE  IsExchange(Given(m, v))
<1> SUFFICES ASSUME NEW i \in Rows, NEW j \in Rows
             PROVE  Given(m, v)[i][j] + Given(m, v)[j][i] = 0
  BY DEF IsExchange
<1>1. CASE i = j
  <2>1. Given(m, v)[i][j] = 0 /\ Given(m, v)[j][i] = 0
    BY <1>1 DEF Given
  <2> QED BY <2>1
<1>2. CASE i # j
  <2>1. m[i][j] = m[j][i]
    BY DEF Symmetric
  <2>2. ASSUME NEW A \in Int, NEW P \in Int, NEW Q \in Int
        PROVE  A * (P - Q) + A * (Q - P) = 0
    OBVIOUS
  <2>3. Magnitude(m[i][j]) \in Int /\ v[i] * v[i] \in Int /\ v[j] * v[j] \in Int
    BY MagnitudeFacts
  <2>4. /\ Given(m, v)[i][j] = Magnitude(m[i][j]) * (v[i] * v[i] - v[j] * v[j])
        /\ Given(m, v)[j][i] = Magnitude(m[j][i]) * (v[j] * v[j] - v[i] * v[i])
    BY <1>2 DEF Given
  <2> QED BY <2>1, <2>2, <2>3, <2>4
<1> QED BY <1>1, <1>2

\* Row by row, gains and exchanges are twice what the row adds to the form.
LEMMA RowBalance ==
  ASSUME NEW m \in [Rows -> [Rows -> Int]], NEW v \in [Rows -> Int], NEW i \in Rows
  PROVE  SumOver(Rows, Gains(m, v)[i]) + SumOver(Rows, Given(m, v)[i])
           = 2 * (v[i] * SumOver(Rows, Row(m, v, i)))
<1> DEFINE S == Rows \ {i}
           mags == [j \in Rows |-> Magnitude(m[i][j])]
           row == Row(m, v, i)
           gain == Gains(m, v)[i]
           give == Given(m, v)[i]
           diag == [j \in Rows |-> (2 * (v[i] * v[i])) * mags[j]]
           off == [j \in Rows |-> (2 * v[i]) * row[j]]
           both == [j \in Rows |-> gain[j] + give[j]]
           d == OffDiagonalSum(m, i)
           rest == SumOver(S, row)
<1>1. /\ mags \in [Rows -> Int] /\ row \in [Rows -> Int] /\ gain \in [Rows -> Int]
      /\ give \in [Rows -> Int] /\ v[i] \in Int /\ v[i] * v[i] \in Int
      /\ m[i][i] \in Int /\ S \in SUBSET Rows
  <2>1. mags \in [Rows -> Int]
    BY MagnitudeFacts
  <2>2. row \in [Rows -> Int] /\ gain \in [Rows -> Int] /\ give \in [Rows -> Int]
    BY RowTypes
  <2>3. v[i] \in Int /\ v[i] * v[i] \in Int /\ m[i][i] \in Int /\ S \in SUBSET Rows
    OBVIOUS
  <2> QED BY <2>1, <2>2, <2>3
<1>2. diag \in [Rows -> Int] /\ off \in [Rows -> Int] /\ both \in [Rows -> Int]
  <2> HIDE DEF mags, row, gain, give
  <2> QED BY <1>1
<1>3. \A j \in S : both[j] = diag[j] + off[j]
  <2> TAKE j \in S
  <2>1. gain[j] = Gain(m[i][j], v[i], v[j])
    BY DEF Gains
  <2>2. give[j] = Magnitude(m[i][j]) * (v[i] * v[i] - v[j] * v[j])
    BY DEF Given
  <2>3. row[j] = m[i][j] * v[j] /\ mags[j] = Magnitude(m[i][j])
    BY DEF Row
  <2>4. ASSUME NEW A \in Int, NEW n \in Int, NEW p \in Int, NEW q \in Int
        PROVE  A * (p * p + q * q) + 2 * (n * (p * q)) + A * (p * p - q * q)
                 = (2 * (p * p)) * A + (2 * p) * (n * q)
    OBVIOUS
  <2>5. Magnitude(m[i][j]) \in Int /\ m[i][j] \in Int /\ v[i] \in Int /\ v[j] \in Int
    BY MagnitudeFacts
  <2>6. both[j] = gain[j] + give[j] /\ diag[j] = (2 * (v[i] * v[i])) * mags[j]
        /\ off[j] = (2 * v[i]) * row[j]
    OBVIOUS
  <2> HIDE DEF mags, row, gain, give, both, diag, off
  <2> QED BY <2>1, <2>2, <2>3, <2>4, <2>5, <2>6 DEF Gain
<1>4. both[i] = 2 * ((m[i][i] - d) * (v[i] * v[i]))
  <2>1. gain[i] = 2 * ((m[i][i] - d) * (v[i] * v[i])) /\ give[i] = 0
    BY DEF Gains, Given
  <2>2. both[i] = gain[i] + give[i] /\ gain[i] \in Int
    BY <1>1
  <2> HIDE DEF both, gain, give, d
  <2> QED BY <2>1, <2>2
<1>5. SumOver(S, mags) = d
  BY DEF OffDiagonalSum
<1>6. row[i] = m[i][i] * v[i]
  BY DEF Row
<1>7. SumOver(S, diag) = (2 * (v[i] * v[i])) * SumOver(S, mags)
  <2> HIDE DEF mags
  <2>1. \A j \in S : diag[j] = (2 * (v[i] * v[i])) * mags[j]
    OBVIOUS
  <2> DEFINE n == 2 * (v[i] * v[i])
  <2>2. n \in Int
    BY <1>1
  <2>3. \A j \in S : diag[j] = n * mags[j]
    BY <2>1
  <2> HIDE DEF diag, S, n
  <2>4. mags \in [Rows -> Int] /\ diag \in [Rows -> Int] /\ S \in SUBSET Rows
    BY <1>1, <1>2
  <2>5. SumOver(S, diag) = n * SumOver(S, mags)
    BY <2>2, <2>3, <2>4, SumScales
  <2> QED BY <2>5 DEF n
<1>8. SumOver(S, off) = (2 * v[i]) * rest
  <2> HIDE DEF row
  <2>1. \A j \in S : off[j] = (2 * v[i]) * row[j]
    OBVIOUS
  <2> DEFINE n == 2 * v[i]
  <2>2. n \in Int
    BY <1>1
  <2>3. \A j \in S : off[j] = n * row[j]
    BY <2>1
  <2> HIDE DEF off, S, n
  <2>4. row \in [Rows -> Int] /\ off \in [Rows -> Int] /\ S \in SUBSET Rows
    BY <1>1, <1>2
  <2>5. SumOver(S, off) = n * SumOver(S, row)
    BY <2>2, <2>3, <2>4, SumScales
  <2> QED BY <2>5 DEF n
<1>9. SumOver(Rows, row) = row[i] + rest
  <2> HIDE DEF row
  <2> QED BY <1>1, SumRemoves
<1>10. SumOver(Rows, both) = both[i] + SumOver(S, both)
  <2> HIDE DEF both
  <2> QED BY <1>2, SumRemoves
<1>11. \A j \in Rows : both[j] = gain[j] + give[j]
  OBVIOUS
<1>12. d \in Int
  BY RowTypes
<1> HIDE DEF mags, row, gain, give, diag, off, both, S, d
<1>13. rest \in Int /\ rest = SumOver(S, row)
  BY <1>1, SumType
<1>14. SumOver(S, both) = SumOver(S, diag) + SumOver(S, off)
  BY <1>1, <1>2, <1>3, SumAdds
<1>15. SumOver(Rows, both) = SumOver(Rows, gain) + SumOver(Rows, give)
  BY <1>1, <1>2, <1>11, SumAdds
<1> HIDE DEF rest
<1>16. ASSUME NEW A \in Int, NEW D \in Int, NEW p \in Int, NEW R \in Int
       PROVE  2 * ((A - D) * (p * p)) + ((2 * (p * p)) * D + (2 * p) * R)
                = 2 * (p * (A * p + R))
  OBVIOUS
<1>17. SumOver(Rows, both) = 2 * (v[i] * SumOver(Rows, row))
  <2>1. SumOver(Rows, both)
          = 2 * ((m[i][i] - d) * (v[i] * v[i]))
            + ((2 * (v[i] * v[i])) * d + (2 * v[i]) * rest)
    BY <1>4, <1>5, <1>7, <1>8, <1>10, <1>14
  <2>2. SumOver(Rows, row) = m[i][i] * v[i] + rest
    BY <1>6, <1>9
  <2> QED BY <1>1, <1>12, <1>13, <1>16, <2>1, <2>2
<1> QED BY <1>15, <1>17 DEF gain, give, row

\* Over all rows the exchanges cancel: the form is half of the gains.
LEMMA FormIsHalfTheGains ==
  ASSUME NEW m \in [Rows -> [Rows -> Int]], NEW v \in [Rows -> Int], Symmetric(m)
  PROVE  /\ Form(m, v) \in Int
         /\ SumOver(Rows, [i \in Rows |-> SumOver(Rows, Gains(m, v)[i])]) = 2 * Form(m, v)
<1> DEFINE gains == [i \in Rows |-> SumOver(Rows, Gains(m, v)[i])]
           gives == [i \in Rows |-> SumOver(Rows, Given(m, v)[i])]
           parts == [i \in Rows |-> v[i] * SumOver(Rows, Row(m, v, i))]
           twice == [i \in Rows |-> 2 * parts[i]]
<1>1. gains \in [Rows -> Int] /\ gives \in [Rows -> Int]
  <2>1. \A i \in Rows : Gains(m, v)[i] \in [Rows -> Int] /\ Given(m, v)[i] \in [Rows -> Int]
    BY RowTypes
  <2> QED BY <2>1, SumType
<1>2. parts \in [Rows -> Int]
  <2>1. \A i \in Rows : SumOver(Rows, Row(m, v, i)) \in Int /\ v[i] \in Int
    BY RowTypes, SumType
  <2> QED BY <2>1
<1>3. twice \in [Rows -> Int] /\ \A i \in Rows : twice[i] = 2 * parts[i]
  <2> HIDE DEF parts
  <2> QED BY <1>2
<1>4. \A i \in Rows : twice[i] = gains[i] + gives[i]
  BY RowBalance
<1>5. SumOver(Rows, gives) = 0
  BY RowTypes, GivenIsExchange, ExchangesCancel
<1>6. Form(m, v) = SumOver(Rows, parts)
  BY DEF Form, Row
<1> HIDE DEF gains, gives, parts, twice
<1>7. SumOver(Rows, twice) = 2 * SumOver(Rows, parts)
  BY <1>2, <1>3, SumScales
<1>8. SumOver(Rows, twice) = SumOver(Rows, gains) + SumOver(Rows, gives)
  BY <1>1, <1>3, <1>4, SumAdds
<1>9. SumOver(Rows, gains) \in Int /\ SumOver(Rows, parts) \in Int
  BY <1>1, <1>2, SumType
<1> QED BY <1>5, <1>6, <1>7, <1>8, <1>9 DEF gains

\* What analyzeMatrix() establishes is enough, for a matrix of any size.
LEMMA EligibleIsDefinite ==
  ASSUME NEW m \in [Rows -> [Rows -> Int]], CgEligible(m)
  PROVE  PositiveDefinite(m)
<1>1. Symmetric(m)
  BY DEF CgEligible
<1> SUFFICES ASSUME NEW v \in Vectors, \E i \in Rows : v[i] # 0, ~(Form(m, v) > 0)
             PROVE  FALSE
  BY <1>1 DEF PositiveDefinite
<1>2. v \in [Rows -> Int]
  BY LinearSolveAssumption
<1> DEFINE gain == Gains(m, v)
           gains == [i \in Rows |-> SumOver(Rows, gain[i])]
<1>3. gain \in [Rows -> [Rows -> Int]] /\ \A i \in Rows : gain[i] \in [Rows -> Int]
  BY <1>2, RowTypes
<1>4. \A i, j \in Rows : i # j => gain[i][j] = Gain(m[i][j], v[i], v[j])
  BY DEF Gains
<1>5. \A i \in Rows : gain[i][i] = 2 * ((m[i][i] - OffDiagonalSum(m, i)) * (v[i] * v[i]))
  BY DEF Gains
<1>6. ASSUME NEW i \in Rows
      PROVE  /\ m[i][i] - OffDiagonalSum(m, i) \in Nat
             /\ v[i] * v[i] \in Nat
             /\ gain[i][i] >= 0
             /\ m[i][i] > OffDiagonalSum(m, i) /\ v[i] # 0 => gain[i][i] > 0
  <2> DEFINE e == m[i][i] - OffDiagonalSum(m, i)
             w == v[i] * v[i]
  <2>1. m[i][i] \in Int /\ OffDiagonalSum(m, i) \in Int /\ v[i] \in Int
    BY <1>2, RowTypes
  <2>2. m[i][i] >= OffDiagonalSum(m, i)
    BY DEF CgEligible, DiagonallyDominant
  <2>3. e \in Nat /\ (m[i][i] > OffDiagonalSum(m, i) => e > 0)
    BY <2>1, <2>2
  <2>4. w \in Nat /\ (v[i] # 0 => w > 0)
    BY <2>1, SquareFacts
  <2>5. gain[i][i] = 2 * (e * w)
    BY <1>5
  <2> HIDE DEF e, w, gain
  <2>6. e * w \in Nat /\ (e > 0 /\ w > 0 => e * w > 0)
    BY <2>3, <2>4, PositiveProduct
  <2>7. gain[i][i] >= 0 /\ (m[i][i] > OffDiagonalSum(m, i) /\ v[i] # 0 => gain[i][i] > 0)
    BY <2>3, <2>4, <2>5, <2>6
  <2> QED BY <2>3, <2>4, <2>7 DEF e, w
<1> HIDE DEF gain
<1>7. \A i, j \in Rows : gain[i][j] >= 0
  <2> SUFFICES ASSUME NEW i \in Rows, NEW j \in Rows PROVE gain[i][j] >= 0
    OBVIOUS
  <2>1. CASE i = j
    BY <1>6, <2>1
  <2>2. CASE i # j
    <3>1. m[i][j] \in Int /\ v[i] \in Int /\ v[j] \in Int
      BY <1>2
    <3>2. Gain(m[i][j], v[i], v[j]) \in Nat
      BY <3>1, GainFacts
    <3> QED BY <1>4, <2>2, <3>2
  <2> QED BY <2>1, <2>2
<1>8. \A i \in Rows : SumOver(Rows, gain[i]) \in Int /\ SumOver(Rows, gain[i]) >= 0
  BY <1>3, <1>7, SumType, SumNonNegative
<1>9. gains \in [Rows -> Int] /\ \A i \in Rows : gains[i] >= 0
  BY <1>8
<1>10. SumOver(Rows, gains) = 2 * Form(m, v) /\ Form(m, v) \in Int
  BY <1>1, <1>2, FormIsHalfTheGains DEF gain
<1>11. ~(SumOver(Rows, gains) > 0)
  BY <1>10
\* Nothing is gained anywhere.
<1>12. \A i \in Rows : ~(gains[i] > 0)
  <2> HIDE DEF gains
  <2> QED BY <1>9, <1>11, SumNonNegative
<1>13. \A i, j \in Rows : gain[i][j] = 0
  <2> SUFFICES ASSUME NEW i \in Rows, NEW j \in Rows, gain[i][j] # 0 PROVE FALSE
    OBVIOUS
  <2>1. gain[i][j] > 0
    BY <1>3, <1>7
  <2>2. SumOver(Rows, gain[i]) > 0
    BY <1>3, <1>7, <2>1, SumNonNegative
  <2> QED BY <1>12, <2>2
\* So neighbours have the same square, and then all rows do.
<1>14. ASSUME NEW i \in Rows, NEW j \in Rows, m[i][j] # 0 PROVE v[i] * v[i] = v[j] * v[j]
  <2>1. CASE i = j
    BY <2>1
  <2>2. CASE i # j
    <3>1. m[i][j] \in Int /\ v[i] \in Int /\ v[j] \in Int
      BY <1>2
    <3>2. Gain(m[i][j], v[i], v[j]) = 0
      BY <1>4, <1>13, <2>2
    <3> QED BY <1>14, <3>1, <3>2, GainFacts
  <2> QED BY <2>1, <2>2
<1> DEFINE same == {i \in Rows : v[i] * v[i] = v[1] * v[1]}
<1>15. same = Rows
  <2>1. same \in SUBSET Rows /\ 1 \in same
    BY LinearSolveAssumption
  <2>2. \A i \in same, j \in Rows : m[i][j] # 0 => j \in same
    BY <1>14
  <2> HIDE DEF same
  <2> QED BY <2>1, <2>2 DEF CgEligible, Irreducible
\* It is zero, for the row that dominates strictly gains otherwise.
<1>16. PICK k \in Rows : m[k][k] > OffDiagonalSum(m, k)
  BY DEF CgEligible, StrictlyDominantRow
<1>17. v[k] = 0
  BY <1>6, <1>13, <1>16
<1>18. \A i \in Rows : v[i] * v[i] = v[k] * v[k]
  BY <1>15
<1>19. ASSUME NEW i \in Rows PROVE v[i] = 0
  <2>1. v[i] \in Int
    BY <1>2
  <2>2. v[i] * v[i] = 0
    <3>1. v[k] * v[k] = 0
      BY <1>17
    <3> QED BY <1>18, <3>1
  <2>3. v[i] # 0 => v[i] * v[i] > 0
    BY <2>1, SquareFacts
  <2> QED BY <2>2, <2>3
<1> QED BY <1>19

--------------------------------------------------------------------------------
(* The solvers that are left to try.                                       *)

CandidateInv ==
  /\ candidates \in Seq(Methods)
  /\ CgOnlyIfDefinite

LEMMA CandidatesOf ==
  ASSUME NEW type \in Methods, NEW cg \in BOOLEAN, NEW k \in Nat \ {0}
  PROVE  LET all == FallbackCandidates(type, cg)
             tried == SubSeq(all, 1, IF k < Len(all) THEN k ELSE Len(all))
         IN  /\ tried \in Seq(Methods)
             /\ \A i \in 1 .. Len(tried) : tried[i] = "CG" => cg
<1> DEFINE all == FallbackCandidates(type, cg)
           n == IF k < Len(all) THEN k ELSE Len(all)
           tried == SubSeq(all, 1, n)
<1>1. all \in Seq(Methods) /\ \A i \in 1 .. Len(all) : all[i] = "CG" => cg
  <2>1. type = "BiCGSTAB" \/ type = "CG" \/ type = "GMRES"
    BY DEF Methods
  <2>2. PICK a \in Methods, b \in Methods \ {"CG"} :
          (all = <<a, b>> /\ (a = "CG" => cg)) \/ all = <<b>>
    BY <2>1 DEF FallbackCandidates, Methods
  <2> HIDE DEF all
  <2>3. CASE all = <<b>>
    BY <2>3
  <2>4. CASE all = <<a, b>> /\ (a = "CG" => cg)
    BY <2>4
  <2> QED BY <2>2, <2>3, <2>4
<1> HIDE DEF all
<1>2. n \in 0 .. Len(all)
  BY <1>1
<1> HIDE DEF n
<1>3. tried \in Seq(Methods) /\ Len(tried) = n /\ \A i \in 1 .. n : tried[i] = all[i]
  BY <1>1, <1>2
<1> HIDE DEF tried
<1>4. \A i \in 1 .. Len(tried) : tried[i] = "CG" => cg
  BY <1>1, <1>2, <1>3
<1> QED BY <1>3, <1>4 DEF tried, n, all

LEMMA CandidateStep ==
  ASSUME SolveType, CandidateInv, [Next]_vars
  PROVE  CandidateInv'
<1> USE DEF CandidateInv
<1>1. CASE UNCHANGED <<candidates, definite>>
  BY <1>1 DEF CgOnlyIfDefinite
<1>2. CASE FallBack
  <2>1. config.type \in Methods /\ config.maxAttempts \in Nat \ {0}
    <3>1. config \in [type : Methods, absolute : 0 .. MaxNorm, relative : 0 .. 99,
                      jacobi : BOOLEAN, enabled : BOOLEAN, maxAttempts : 0 .. 3]
      BY LinearSolveAssumption DEF SolveType
    <3>2. config.maxAttempts > 0
      BY <1>2 DEF FallBack
    <3> QED BY <3>1, <3>2
  <2>2. PICK m \in Matrices :
          LET all == FallbackCandidates(config.type, CgEligible(m))
          IN  /\ candidates' = SubSeq(all, 1, IF config.maxAttempts < Len(all)
                                              THEN config.maxAttempts ELSE Len(all))
              /\ definite' = (m \in DefiniteMatrices)
    BY <1>2 DEF FallBack
  <2>3. CgEligible(m) \in BOOLEAN
    BY DEF CgEligible
  <2>4. /\ candidates' \in Seq(Methods)
        /\ \A i \in 1 .. Len(candidates') : candidates'[i] = "CG" => CgEligible(m)
    BY <2>1, <2>2, <2>3, CandidatesOf
  <2>5. CgEligible(m) => definite'
    BY <2>2, EligibleIsDefinite, LinearSolveAssumption DEF DefiniteMatrices
  <2> QED BY <2>4, <2>5 DEF CgOnlyIfDefinite
<1>3. CASE AttemptEnds
  <2>1. CASE UNCHANGED candidates
    BY <1>1, <1>3, <2>1 DEF AttemptEnds
  <2>2. CASE candidates' = Tail(candidates) /\ Len(candidates) > 1
    <3>1. definite' = definite
      BY <1>3 DEF AttemptEnds
    <3>2. /\ candidates' \in Seq(Methods) /\ Len(candidates') = Len(candidates) - 1
          /\ \A i \in 1 .. Len(candidates') : candidates'[i] = candidates[i + 1]
      BY <2>2
    <3>3. \A i \in 1 .. Len(candidates') : i + 1 \in 1 .. Len(candidates)
      BY <2>2, <3>2
    <3> QED BY <3>1, <3>2, <3>3 DEF CgOnlyIfDefinite
  <2> QED BY <1>3, <2>1, <2>2 DEF AttemptEnds
<1> QED BY <1>1, <1>2, <1>3 DEF Next, PrimaryIsFinal, Done, vars

--------------------------------------------------------------------------------
(* The theorems.                                                           *)

SolveInv == SolveType /\ PaidInv /\ CountInv /\ AccuracyInv

LEMMA SolveInvariant == Spec => []SolveInv
<1>1. Init => SolveInv
  <2> SUFFICES ASSUME Init PROVE SolveInv
    OBVIOUS
  <2>1. SolveType BY TypeInit
  <2>2. PaidInv BY DEF Init, PaidInv
  <2>3. CountInv BY DEF Init, CountInv
  <2>4. AccuracyInv
    BY DEF Init, AccuracyInv, OwnCriterion, RecoveredMeetsCriterion
  <2> QED BY <2>1, <2>2, <2>3, <2>4 DEF SolveInv
<1>2. SolveInv /\ [Next]_vars => SolveInv'
  BY TypeStep, PaidStep, CountStep, AccuracyStep DEF SolveInv
<1> QED BY <1>1, <1>2, PTL DEF Spec

\* Whatever solvers were tried, and however each of them ended, the combined history has
\* one residual more than there were iterations; and restarts, which do not count against
\* the iteration limit, are never more than the iterations that do, so BiCGSTAB::solve
\* ends, whatever the matrix.
THEOREM SolveIsAccounted == Spec => []IterationsAreAccounted
<1>1. SolveInv => HistoryCountsIterations
  BY DEF SolveInv, CountInv, HistoryCountsIterations, Counted, Refused
<1>2. SolveInv => RestartsArePaid
  BY DEF SolveInv, PaidInv, RestartsArePaid
<1> QED BY <1>1, <1>2, SolveInvariant, PTL DEF IterationsAreAccounted

\* Unless a solve starts from an overflowed residual, a result that is Converged meets the
\* caller's own criterion, for any tolerances: the attempts' absolute target stands for it.
THEOREM RecoveryIsAccurate == Spec => []RecoveredUnlessOverflowed
<1>1. SolveInv => RecoveredUnlessOverflowed
  BY DEF SolveInv, AccuracyInv, RecoveredUnlessOverflowed
<1> QED BY <1>1, SolveInvariant, PTL

\* For matrices of any size with any integer entries: CG is tried after another solver
\* only on a symmetric positive definite matrix.  FallbackLinearSolver::solve analyses the
\* matrix once and works through the candidates afterwards; the test it makes
\* (analyzeMatrix) only compares rows and visits neighbours, and implies definiteness:
\* the form is a sum of squares that vanishes nowhere else.
THEOREM CgIsForDefinite == Spec => []CgOnlyIfDefinite
<1>1. Init => CandidateInv
  BY DEF Init, CandidateInv, CgOnlyIfDefinite
<1>2. SolveInv /\ CandidateInv /\ [Next]_vars => CandidateInv'
  BY CandidateStep DEF SolveInv
<1>3. CandidateInv => CgOnlyIfDefinite
  BY DEF CandidateInv
<1> QED BY <1>1, <1>2, <1>3, SolveInvariant, PTL DEF Spec

================================================================================
