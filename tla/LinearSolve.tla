------------------------------ MODULE LinearSolve ------------------------------
(***************************************************************************)
(* One call of FallbackLinearSolver::solve (src/src/algebra/               *)
(* LinearSolverFallback.cpp): a primary Krylov solver, and when it breaks  *)
(* down, a bounded sequence of other ones.  The three solvers (CG.cpp,     *)
(* BiCGSTAB.cpp, GMRES.cpp) are modelled by what they count, record and    *)
(* compare; the numbers their recurrences produce are arbitrary.           *)
(*                                                                         *)
(* A residual norm is 0 .. MaxNorm, Infinite (its sum of squares           *)
(* overflowed) or NaN, compared as doubles are.  An iterate is what a      *)
(* solver can tell of a vector: whether its entries are finite, and the    *)
(* norm of its true residual b - A x.                                      *)
(***************************************************************************)
EXTENDS Integers, Sequences, FiniteSets

CONSTANTS
  MaxNorm, NaN,
  Rounding,          \* how far the recurrence's residual may be from the true one
  MaxIterations, GmresRestart,   \* of LinearSolverSettings
  Configurations,    \* [type, absolute, relative (per cent), jacobi, enabled, maxAttempts]
  Rows, Matrices,    \* the matrices the solver may be given: [Rows -> [Rows -> Int]]
  Vectors            \* those that positive definiteness is tried on: [Rows -> Int]

Methods == {"CG", "BiCGSTAB", "GMRES"}
Infinite == MaxNorm + 1
Norms == 0 .. MaxNorm \cup {Infinite, NaN}
IsFinite(n) == n \in 0 .. MaxNorm
FiniteIterates == {[finite |-> TRUE, norm |-> n] : n \in Norms}
Iterates == FiniteIterates \cup {[finite |-> FALSE, norm |-> n] : n \in {Infinite, NaN}}

ASSUME LinearSolveAssumption ==
  /\ MaxNorm \in Nat \ {0} /\ NaN \notin Int
  /\ Rounding \in Nat
  /\ MaxIterations \in Nat \ {0} /\ GmresRestart \in Nat \ {0}
  /\ Configurations \subseteq
       [type : Methods, absolute : 0 .. MaxNorm, relative : 0 .. 99, jacobi : BOOLEAN,
        enabled : BOOLEAN, maxAttempts : 0 .. 3]
  /\ \A c \in Configurations : c.absolute > 0 \/ c.relative > 0
  /\ IsFiniteSet(Rows) /\ 1 \in Rows
  /\ Matrices \subseteq [Rows -> [Rows -> Int]]
  /\ Vectors \subseteq [Rows -> Int]

VARIABLES
  config,
  input,      \* what the checks at the start of every solve() find
  pc,
  method,     \* the solver that runs
  criterion,  \* its tolerances: absolute in hundredths, relative per cent
  x, r,       \* its iterate, and the norm of its residual (GMRES: the estimate)
  first,      \* initialResidual
  base,       \* restartResidual; GMRES: the residual at the start of the cycle
  inner,      \* GMRES: the steps of this cycle
  count, recorded, restarts,   \* iterations, residualHistory.size(), restarts
  outcome,    \* the SolverResult of the solver that ended last
  result,     \* combined; None until the primary has ended
  start,      \* the latest finite iterate
  candidates, \* the solvers left to try, the running one first
  attempts,   \* the solvers tried after the primary, with their statuses
  definite,   \* history: the analysed matrix is symmetric positive definite
  overflowed  \* history: some solve started from an infinite residual

solverVars == <<method, criterion, x, r, first, base, inner, count, recorded, restarts>>
vars == <<config, input, pc, solverVars, outcome, result, start, candidates, attempts,
          definite, overflowed>>

None == [status |-> "None", iterations |-> 0, recorded |-> 0, first |-> 0, final |-> 0,
         solution |-> [finite |-> TRUE, norm |-> 0]]

Init ==
  /\ config \in Configurations
  /\ input \in {"Valid", "NonFinite"} \cup (IF config.jacobi THEN {"ZeroDiagonal"} ELSE {})
  /\ pc = "begin"
  /\ method = config.type
  /\ criterion = [absolute |-> 100 * config.absolute, relative |-> config.relative]
  /\ x \in FiniteIterates
  /\ r = 0 /\ first = 0 /\ base = 0 /\ inner = 0 /\ count = 0 /\ recorded = 0 /\ restarts = 0
  /\ outcome = None /\ result = None
  /\ start = x
  /\ candidates = << >> /\ attempts = << >>
  /\ definite = FALSE /\ overflowed = FALSE

--------------------------------------------------------------------------------
(* The parts the three solvers share.                                      *)

\* converged(), with the initial residual n0: an infinite one makes every finite
\* ratio zero, and Infinite <= Infinite holds.
Meets(n, n0, c) ==
  /\ n # NaN
  /\ \/ 100 * n <= c.absolute
     \/ /\ n0 # NaN /\ n0 > 0
        /\ IF n0 = Infinite THEN n # Infinite ELSE 100 * n <= c.relative * n0

\* The iterates whose recurrence has residual n.
WithResidual(n) ==
  IF IsFinite(n)
  THEN {y \in FiniteIterates : IsFinite(y.norm) /\ n - y.norm \in -Rounding .. Rounding}
  ELSE {y \in Iterates : ~IsFinite(y.norm)}

Ends(status, final, solution) ==
  /\ pc' = "ended"
  /\ x' = solution
  /\ outcome' = [status |-> status, iterations |-> count', recorded |-> recorded',
                first |-> first', final |-> final, solution |-> solution]

Refuse ==
  /\ pc = "begin"
  /\ input # "Valid" \/ ~x.finite
  /\ count' = 0 /\ recorded' = 0 /\ first' = 0 /\ restarts' = 0
  /\ Ends(IF input = "ZeroDiagonal" /\ x.finite THEN "InvalidSystem" ELSE "NonFiniteInput", 0, x)
  /\ UNCHANGED <<method, criterion, r, base, inner, overflowed>>

Start ==
  /\ pc = "begin"
  /\ input = "Valid" /\ x.finite
  /\ first' = x.norm /\ r' = x.norm /\ base' = x.norm
  /\ inner' = 0 /\ count' = 0 /\ recorded' = 1 /\ restarts' = 0
  /\ overflowed' = (overflowed \/ x.norm = Infinite)
  /\ \/ (x.norm = 0 \/ Meets(x.norm, x.norm, criterion)) /\ Ends("Converged", x.norm, x)
     \/ /\ ~(x.norm = 0 \/ Meets(x.norm, x.norm, criterion))
        /\ pc' = "iterate"
        /\ UNCHANGED <<x, outcome>>
  /\ UNCHANGED <<method, criterion>>

Iterating(m) == pc = "iterate" /\ method \in m

\* A scalar of the recurrence is not finite, or zero where it divides.  CG looks at
\* some of them after the last iteration too.
BreakDown ==
  /\ Iterating({"CG", "BiCGSTAB"})
  /\ count < MaxIterations \/ method = "CG"
  /\ UNCHANGED <<method, criterion, r, first, base, inner, count, recorded, restarts, overflowed>>
  /\ Ends("Breakdown", r, x)

\* The inner product of a residual with itself: without a preconditioner, and always in
\* BiCGSTAB, it overflows when the norm does.
CanStep == IsFinite(r) \/ (r = Infinite /\ method = "CG" /\ config.jacobi)

Advance(n) ==
  /\ count < MaxIterations
  /\ count' = count + 1
  /\ recorded' = recorded + 1
  /\ UNCHANGED <<method, criterion, first, base, restarts, overflowed>>

Iterate ==
  /\ Iterating({"CG", "BiCGSTAB"})
  /\ CanStep
  /\ \E n \in Norms : \E y \in WithResidual(n) :
       /\ Advance(n)
       /\ r' = n
       /\ \/ ~IsFinite(n) /\ Ends("NonFiniteResidual", n, y)
          \/ IsFinite(n) /\ Meets(n, first, criterion) /\ Ends("Converged", n, y)
          \/ /\ IsFinite(n) /\ ~Meets(n, first, criterion)
             /\ x' = y
             /\ UNCHANGED <<pc, outcome>>
  /\ UNCHANGED inner

Exhaust ==
  /\ Iterating({"CG", "BiCGSTAB"})
  /\ count = MaxIterations
  /\ UNCHANGED <<method, criterion, r, first, base, inner, count, recorded, restarts, overflowed>>
  /\ Ends("MaxIterations", r, x)

--------------------------------------------------------------------------------
(* BiCGSTAB.                                                               *)

\* The intermediate residual s overflows; x has not moved yet.
HalfStepOverflows ==
  /\ Iterating({"BiCGSTAB"})
  /\ IsFinite(r)
  /\ \E n \in {Infinite, NaN} : Advance(n) /\ Ends("NonFiniteResidual", n, x)
  /\ UNCHANGED <<r, inner>>

\* The residual a later restart of this sequence has to improve on.
RestartsAt(t) == t

\* An inner product has cancelled to its rounding level: the sequence restarts from the
\* true residual, if the residual has decreased since it started.
RestartSequence ==
  /\ Iterating({"BiCGSTAB"})
  /\ count < MaxIterations
  /\ IsFinite(r)
  /\ UNCHANGED <<method, criterion, first, inner, count, recorded, overflowed>>
  /\ \/ r >= base /\ Ends("Breakdown", r, x) /\ UNCHANGED <<r, base, restarts>>
     \/ /\ r < base
        /\ r' = x.norm
        /\ \/ ~IsFinite(r') /\ Ends("Breakdown", r', x) /\ UNCHANGED <<base, restarts>>
           \/ IsFinite(r') /\ Meets(r', first, criterion) /\ Ends("Converged", r', x)
                /\ UNCHANGED <<base, restarts>>
           \/ /\ IsFinite(r') /\ ~Meets(r', first, criterion)
              /\ base' = RestartsAt(r')
              /\ restarts' = restarts + 1
              /\ UNCHANGED <<pc, x, outcome>>

--------------------------------------------------------------------------------
(* GMRES.                                                                  *)

\* One step of the Arnoldi process; the cycle ends with the basis full, the iterations
\* used up, the estimate within tolerance, or the Krylov space exhausted.
ArnoldiStep ==
  /\ Iterating({"GMRES"})
  /\ inner' = inner + 1
  /\ \E estimate \in IF IsFinite(r) THEN {NaN} \cup 0 .. r ELSE {NaN} :
       /\ Advance(estimate)
       /\ r' = estimate
       /\ \/ Ends("NonFiniteResidual", estimate, x)
          \/ /\ IsFinite(estimate)
             /\ \/ pc' = "update"
                \/ /\ inner' < GmresRestart /\ count' < MaxIterations
                   /\ ~Meets(estimate, first, criterion)
                   /\ UNCHANGED pc
             /\ UNCHANGED <<x, outcome>>

\* The triangular system of the cycle is singular, or its solution not finite.
UpdateFails ==
  /\ pc = "update"
  /\ UNCHANGED <<method, criterion, r, first, base, inner, count, recorded, restarts, overflowed>>
  /\ Ends("Breakdown", base, x)

\* The iterate moves; the true residual replaces the cycle's last estimate.
Update ==
  /\ pc = "update"
  /\ UNCHANGED <<method, criterion, first, count, recorded, restarts, overflowed>>
  /\ inner' = 0
  /\ \E y \in WithResidual(r) \cup {z \in Iterates : ~IsFinite(z.norm)} :
       /\ r' = y.norm /\ base' = y.norm
       /\ \/ ~IsFinite(r') /\ Ends("NonFiniteResidual", r', y)
          \/ IsFinite(r') /\ Meets(r', first, criterion) /\ Ends("Converged", r', y)
          \/ /\ IsFinite(r') /\ ~Meets(r', first, criterion)
             /\ \/ count = MaxIterations /\ Ends("MaxIterations", r', y)
                \/ /\ count < MaxIterations
                   /\ pc' = "iterate" /\ x' = y
                   /\ UNCHANGED outcome

--------------------------------------------------------------------------------
(* The analysis of the matrix.  The code compares with a relative tolerance *)
(* of 1e-12; entries here are exact, and so are the comparisons.            *)

\* The sum of f over the rows (or columns) in S.
SumOver(S, f) ==
  LET sum[T \in SUBSET Rows] ==
        IF T = {} THEN 0
        ELSE LET j == CHOOSE j \in T : TRUE IN f[j] + sum[T \ {j}]
  IN  sum[S]

Magnitude(n) == IF n < 0 THEN -n ELSE n

OffDiagonalSum(m, i) == SumOver(Rows \ {i}, [j \in Rows |-> Magnitude(m[i][j])])

Symmetric(m) == \A i, j \in Rows : m[i][j] = m[j][i]
PositiveDiagonal(m) == \A i \in Rows : m[i][i] > 0
DiagonallyDominant(m) == \A i \in Rows : m[i][i] >= OffDiagonalSum(m, i)
StrictlyDominantRow(m) == \E i \in Rows : m[i][i] > OffDiagonalSum(m, i)

\* From the first row, the entries that are not zero reach every row.
Irreducible(m) ==
  \A S \in SUBSET Rows :
    /\ 1 \in S
    /\ \A i \in S, j \in Rows : m[i][j] # 0 => j \in S
    => S = Rows

\* Mutated form: without irreducibility.
CgEligibleIfDominant(m) ==
  Symmetric(m) /\ PositiveDiagonal(m) /\ DiagonallyDominant(m) /\ StrictlyDominantRow(m)

CgEligible(m) ==
  /\ Symmetric(m) /\ PositiveDiagonal(m)
  /\ DiagonallyDominant(m) /\ StrictlyDominantRow(m) /\ Irreducible(m)

FallbackCandidates(primary, cg) ==
  CASE primary = "BiCGSTAB" -> IF cg THEN <<"CG", "GMRES">> ELSE <<"GMRES">>
    [] primary = "CG"       -> <<"GMRES", "BiCGSTAB">>
    [] primary = "GMRES"    -> IF cg THEN <<"CG", "BiCGSTAB">> ELSE <<"BiCGSTAB">>

\* Positive definiteness by its definition, which the code never evaluates.
\* The form of m: the sum of m[i][j] v[i] v[j] over all rows and columns.
Form(m, v) ==
  SumOver(Rows, [i \in Rows |-> v[i] * SumOver(Rows, [j \in Rows |-> m[i][j] * v[j]])])

PositiveDefinite(m) ==
  /\ Symmetric(m)
  /\ \A v \in Vectors : (\E i \in Rows : v[i] # 0) => Form(m, v) > 0

DefiniteMatrices == {m \in Matrices : PositiveDefinite(m)}

--------------------------------------------------------------------------------
(* FallbackLinearSolver::solve, around the solves.                         *)

Eligible(status) == status \in {"Breakdown", "NonFiniteResidual"}

\* max(absolute, relative * initialResidual) in hundredths: std::max keeps its first
\* argument when the second is NaN, as zero times infinity is.
Target ==
  LET absolute == 100 * config.absolute
      scaled   == config.relative * outcome.first
  IN  IF outcome.first = NaN \/ (outcome.first = Infinite /\ config.relative = 0)
      THEN absolute
      ELSE IF outcome.first = Infinite THEN 100 * Infinite
      ELSE IF scaled > absolute THEN scaled ELSE absolute

LatestFinite == IF outcome.solution.finite THEN outcome.solution ELSE start

PrimaryIsFinal ==
  /\ pc = "ended" /\ result = None
  /\ ~config.enabled \/ config.maxAttempts = 0 \/ ~Eligible(outcome.status)
  /\ pc' = "returned"
  /\ result' = outcome
  /\ UNCHANGED <<config, input, solverVars, outcome, start, candidates, attempts, definite,
                 overflowed>>

\* The next attempt runs with the criterion c; makeLinearSolver throws when both of its
\* tolerances are zero.
Launch(c) ==
  /\ start' = LatestFinite
  /\ criterion' = c
  /\ pc' = IF c.absolute = 0 /\ c.relative = 0 THEN "threw" ELSE "begin"
  /\ method' = Head(candidates')
  /\ x' = start'
  /\ UNCHANGED <<config, input, r, first, base, inner, count, recorded, restarts, outcome,
                 overflowed>>

\* Mutated form: an attempt is judged by its own initial residual.
OwnCriterion == [absolute |-> 100 * config.absolute, relative |-> config.relative]

AttemptCriterion == [absolute |-> Target, relative |-> 0]

FallBack ==
  /\ pc = "ended" /\ result = None
  /\ config.enabled /\ config.maxAttempts > 0 /\ Eligible(outcome.status)
  /\ result' = outcome
  /\ \E m \in Matrices :
       LET all == FallbackCandidates(config.type, CgEligible(m))
       IN  /\ candidates' = SubSeq(all, 1, IF config.maxAttempts < Len(all)
                                           THEN config.maxAttempts ELSE Len(all))
           /\ definite' = (m \in DefiniteMatrices)
  /\ Launch(AttemptCriterion)
  /\ UNCHANGED attempts

\* Mutated form: the attempt's whole history is appended.
WithWholeHistory ==
  [outcome EXCEPT !.iterations = result.iterations + @,
                  !.recorded   = result.recorded + @,
                  !.first      = result.first]

\* The attempt's first residual is already in the history.
Combined ==
  [outcome EXCEPT !.iterations = result.iterations + @,
                  !.recorded   = result.recorded + (IF @ = 0 THEN 0 ELSE @ - 1),
                  !.first      = result.first]

AttemptEnds ==
  /\ pc = "ended" /\ result # None
  /\ result' = Combined
  /\ attempts' = Append(attempts, [method |-> method, status |-> outcome.status])
  /\ UNCHANGED definite
  /\ \/ /\ outcome.status = "Converged" \/ Len(candidates) = 1
        /\ pc' = "returned"
        /\ UNCHANGED <<config, input, solverVars, outcome, start, candidates, overflowed>>
     \/ /\ outcome.status # "Converged" /\ Len(candidates) > 1
        /\ candidates' = Tail(candidates)
        /\ Launch(criterion)

SolveStep ==
  \/ Refuse \/ Start
  \/ BreakDown \/ Iterate \/ Exhaust
  \/ HalfStepOverflows \/ RestartSequence
  \/ ArnoldiStep \/ UpdateFails \/ Update

Done == pc \in {"returned", "threw"} /\ UNCHANGED vars

Next ==
  \/ SolveStep /\ UNCHANGED <<config, input, start, result, candidates, attempts, definite>>
  \/ PrimaryIsFinal \/ FallBack \/ AttemptEnds
  \/ Done

Spec == Init /\ [][Next]_vars

--------------------------------------------------------------------------------
(* Properties.                                                             *)

\* residualHistory.size() == iterations + 1 (LinearSolver.hpp:98-102), over the primary and
\* however many attempts, whichever of their ways out each of them took.
HistoryCountsIterations ==
  pc = "returned" /\ result.status \notin {"NonFiniteInput", "InvalidSystem"}
    => result.recorded = result.iterations + 1

\* A solve reported Converged meets the criterion the primary was given, whichever solver
\* produced it ("a recovered solve meets the same accuracy the primary was asked for",
\* LinearSolverFallback.hpp:49).
RecoveredMeetsCriterion ==
  pc = "returned" /\ result.status = "Converged"
    => \/ result.first = 0
       \/ Meets(result.final, result.first,
                [absolute |-> 100 * config.absolute, relative |-> config.relative])

\* The same, of every call none of whose solves starts from an overflowed residual.
RecoveredUnlessOverflowed == overflowed \/ RecoveredMeetsCriterion

\* CG is tried after another solver only on a matrix it is valid for ("CG is never used
\* unless analyzeMatrix() establishes its requirements", LinearSolverFallback.hpp:34):
\* the structural test implies that the matrix is symmetric positive definite.
CgOnlyIfDefinite ==
  \A i \in 1 .. Len(candidates) : candidates[i] = "CG" => definite

\* "Bounded and deterministic" (BiCGSTAB.cpp:120): a restart is paid for by an iteration
\* that decreased the residual, so that restarts, which do not count against the
\* iteration limit, cannot go on for ever.
RestartsArePaid == restarts <= count

\* The counts of a solve add up: what is reported is what was iterated, and what is not
\* counted is bounded by what is.
IterationsAreAccounted == HistoryCountsIterations /\ RestartsArePaid

================================================================================
