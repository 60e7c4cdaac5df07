------------------------- MODULE OuterIterationMonitor -------------------------
(***************************************************************************)
(* What SIMPLE and CompressibleSIMPLE decide after every outer iteration:  *)
(* OuterIterationMonitor in src/src/solver/SolverRobustness.cpp.  record() *)
(* pushes the residuals of the iteration, then says whether the solve has  *)
(* converged, diverges or stagnates, and if none of these, lets the        *)
(* controller of AdaptiveRelaxation choose the factors of the next one.    *)
(*                                                                         *)
(* Which residuals there are is a parameter: u, v, w and pressure are all  *)
(* Relative and tracked, continuity is tracked with an absolute gate, and  *)
(* the global imbalance and the turbulence residual are gates only.        *)
(***************************************************************************)
EXTENDS AdaptiveRelaxation, FiniteSetsExt

CONSTANTS
  None, Scale,        \* of ResidualTracker
  Tracked,            \* the residuals with a tracker
  Relative,           \* those the normalized criterion judges by their reference
  Gates,              \* every residual of a sample
  Unchecked,          \* gates whose overflow is not looked for: turbulence
  Tolerance,          \* the absolute tolerance of each gate
  Samples,            \* the residuals an outer iteration may end with
  Settings,           \* [normalized, divergence, stagnation : BOOLEAN]
  ReferenceIterations, NormalizedPercent,
  DivergenceWindow, DivergenceStart, GrowthFactor,
  StagnationWindow, StagnationStart, MinImprovementPercent,
  MaxIterations       \* the solver's limit

ASSUME MonitorAssumption ==
  /\ IsFiniteSet(Gates)
  /\ Samples \subseteq [Gates -> Nat \cup {Overflow}]
  /\ Scale \in Nat \ {0}
  /\ None \notin Nat \cup {Overflow}
  /\ Relative # {} /\ Relative \subseteq Tracked /\ Tracked \subseteq Gates
  /\ Unchecked \subseteq Gates \ Tracked
  /\ Tolerance \in [Gates -> Nat \ {0}]
  /\ Settings \subseteq [normalized : BOOLEAN, divergence : BOOLEAN, stagnation : BOOLEAN]
  /\ ReferenceIterations \in Nat \ {0}
  /\ NormalizedPercent \in 1 .. 99 /\ MinImprovementPercent \in 1 .. 99
  /\ DivergenceWindow \in Nat \ {0, 1} /\ StagnationWindow \in Nat \ {0, 1}
  /\ GrowthFactor \in Nat \ {0, 1}
  /\ {DivergenceStart, StagnationStart, MaxIterations} \subseteq Nat

INSTANCE ResidualTracker

VARIABLES
  settings,
  trackers,   \* u_, v_, p_, c_, w_
  distances,  \* distanceTracker_
  verdict,    \* what the last record() returned
  samples,    \* history: the sample of every iteration
  distanceLog,   \* history: the convergence distance of every iteration
  kept,          \* history: for each tracker, the iterations whose residual was finite
  keptDistances  \* history: the iterations whose distance was finite

monitorVars == <<settings, trackers, distances, verdict, samples, distanceLog, kept,
                 keptDistances>>
allVars == <<relaxationVars, monitorVars>>

MonitorInit ==
  /\ RelaxationInit
  /\ settings \in Settings
  /\ trackers = [q \in Tracked |->
       NewTracker(Tolerance[q], ReferenceIterations, DivergenceWindow, DivergenceStart)]
  /\ distances = NewTracker(1, 1, StagnationWindow, 1)
  /\ verdict = "Continue"
  /\ samples = << >>
  /\ distanceLog = << >>
  /\ kept = [q \in Tracked |-> << >>]
  /\ keptDistances = << >>

--------------------------------------------------------------------------------
(* record(), in the order it decides; ts are the trackers after the push.  *)

Threshold(ts, q) ==
  IF q \in Relative /\ settings.normalized
  THEN Max({(NormalizedPercent * ts[q].reference) \div 100, ts[q].floor})
  ELSE Tolerance[q]

\* A ratio, times Scale and rounded up: like the quotient of two doubles, it is at
\* most 1 exactly when the value is at most the limit.
Ratio(value, limit) == (Scale * value + limit - 1) \div limit

\* The largest ratio of a residual to its threshold.
Distance(ts, sample) ==
  IF \E q \in Gates : ~Finite(sample[q]) THEN Overflow
  ELSE Max({Ratio(sample[q], Threshold(ts, q)) : q \in Gates})

IsConverged(ts, sample) ==
  \A q \in Gates : Finite(sample[q]) /\ sample[q] <= Threshold(ts, q)

Overflowed(sample) == \E q \in Gates \ Unchecked : ~Finite(sample[q])

\* Every value of the window is far above the best before it.
Excursion(t) ==
  /\ t.bestBefore # None
  /\ Min(Window(t)) >= GrowthFactor * Max({t.floor, t.bestBefore})

\* The window only rises, and far above the tolerance.
Runaway(t) ==
  LET oldest == ValueAgo(t, t.capacity - 1)
  IN  /\ \A ago \in 1 .. t.capacity - 1 : ValueAgo(t, ago - 1) > ValueAgo(t, ago)
      /\ ValueAgo(t, 0) >= GrowthFactor * Max({t.floor, oldest})

\* Mutated form: it is left to the first rule alone.
DivergesByExcursion(t) == Full(t) /\ Excursion(t)

Diverges(t) == Full(t) /\ (Excursion(t) \/ Runaway(t))

IsDiverging(ts, sample, n) ==
  /\ settings.divergence
  /\ \/ Overflowed(sample)
     \/ /\ n >= Max({DivergenceStart, 1}) + DivergenceWindow
        /\ \E q \in Tracked : Diverges(ts[q])

IsStagnating(d, n) ==
  /\ settings.stagnation
  /\ n >= StagnationStart
  /\ Full(d) /\ d.bestBefore # None /\ d.bestBefore > 0
  /\ 100 * (d.bestBefore - Min(Window(d))) < MinImprovementPercent * d.bestBefore

Verdict(ts, d, sample, n) ==
  CASE IsConverged(ts, sample) -> "Converged"
    [] ~IsConverged(ts, sample) /\ IsDiverging(ts, sample, n) -> "Diverging"
    [] ~IsConverged(ts, sample) /\ ~IsDiverging(ts, sample, n) /\ IsStagnating(d, n)
         -> "Stagnated"
    [] OTHER -> "Continue"

\* The largest normalized residual of the momentum and pressure equations. One that is
\* not finite is the largest if it is an infinity, or a NaN that std::max compares
\* first; a NaN in another place is passed over.
MeasuresOf(ts) ==
  LET residuals == {Normalized(ts[q]) : q \in Relative}
      finite    == residuals \ {Overflow}
  IN  (residuals \cap {Overflow}) \cup (IF finite = {} THEN {} ELSE {Max(finite)})

\* The iteration that ends now is kept if its value is finite.
Noted(list, value) == IF Finite(value) THEN Append(list, Len(samples) + 1) ELSE list

Record(sample) ==
  /\ verdict = "Continue"
  /\ Len(samples) < MaxIterations
  /\ samples' = Append(samples, sample)
  /\ trackers' = [q \in Tracked |-> Push(trackers[q], sample[q])]
  /\ LET d == Distance(trackers', sample)
     IN  /\ distanceLog' = Append(distanceLog, d)
         /\ distances' = Push(distances, d)
         /\ keptDistances' = Noted(keptDistances, d)
  /\ kept' = [q \in Tracked |-> Noted(kept[q], sample[q])]
  /\ verdict' = Verdict(trackers', distances', sample, Len(samples'))
  /\ \/ verdict' = "Continue" /\ \E m \in MeasuresOf(trackers') : Update(m)
     \/ verdict' # "Continue" /\ UNCHANGED relaxationVars
  /\ UNCHANGED settings

\* The solver has left its loop.
SolveEnded ==
  /\ verdict # "Continue" \/ Len(samples) = MaxIterations
  /\ UNCHANGED allVars

MonitorNext == (\E sample \in Samples : Record(sample)) \/ SolveEnded

MonitorSpec == MonitorInit /\ [][MonitorNext]_allVars

--------------------------------------------------------------------------------
(* Safety.                                                                 *)

\* The residuals of q, and all the residuals of the last iteration.
History(q) == [i \in 1 .. Len(samples) |-> samples[i][q]]
LastSample == samples[Len(samples)]

\* The ring buffer of every tracker holds exactly the last finite residuals, its best
\* before the window is the least one that has left it since startIteration, and its
\* reference the largest of the first iterations, whatever overflowed in between and
\* however often the buffer has wrapped (the contract at SolverRobustness.hpp:124-150).
TrackersMatchHistory ==
  /\ \A q \in Tracked : Reflects(trackers[q], History(q), kept[q])
  /\ Reflects(distances, distanceLog, keptDistances)

\* "D_n = max over gates of value / threshold (converged iff every gate <= 1)": the
\* distance shown to the user and the gates that end the solve are computed apart.
ConvergedIffDistanceWithinOne ==
  samples # << >> =>
    LET d == distanceLog[Len(distanceLog)]
    IN  verdict = "Converged" <=> Finite(d) /\ d <= Scale

\* Divergence is what the header defines over the whole history of residuals: of some
\* residual, every one of the last window is far above the best before them since the
\* start, or the last window only rises and ends far above where it began; a solve
\* that diverges is stopped, and no other one. Both rules are held to the tolerance as
\* a floor, without which a converged solve was once given up over rounding errors
\* (SolverRobustness.cpp:407-420). For the second rule that floor is the code's alone:
\* hpp:389-390 states none. Both count from the first iteration when the settings say
\* 0 (cpp:493).
DivergenceMatchesHistory ==
  LET n          == Len(samples)
      start      == Max({DivergenceStart, 1})
      oldest     == n - DivergenceWindow + 1
      grown(q, from) == GrowthFactor * Max({Tolerance[q], from})
      excursion(q) ==
        \A i \in oldest .. n :
          samples[i][q] >= grown(q, Min({samples[j][q] : j \in start .. oldest - 1}))
      runaway(q) ==
        /\ \A i \in oldest .. n - 1 : samples[i][q] < samples[i + 1][q]
        /\ samples[n][q] >= grown(q, samples[oldest][q])
  IN  samples # << >> /\ verdict # "Converged" =>
        (verdict = "Diverging"
           <=> /\ settings.divergence
               /\ \/ Overflowed(LastSample)
                  \/ /\ n >= start + DivergenceWindow
                     /\ \E q \in Tracked : excursion(q) \/ runaway(q))

\* "A single spike can never trigger" (SolverRobustness.hpp:75): some residual was
\* already above an earlier value in the iteration before the one that gave up. A
\* window of two, the least the settings allow, is the exception.
SpikeNeverTriggers ==
  DivergenceWindow > 2 /\ verdict = "Diverging" /\ ~Overflowed(LastSample) =>
    \E q \in Tracked :
      LET n == Len(kept[q])
          value(i) == samples[kept[q][i]][q]
      IN  n > 2 /\ \E i \in 1 .. n - 2 : value(i) < value(n - 1)

\* Stagnation is what the header defines over the whole history of distances: too
\* little improvement of the best of the last window over the best before it. A slow
\* solve that improves is never stopped, and one that does not is.
StagnationMatchesHistory ==
  LET n   == Len(keptDistances)
      old == Min({distanceLog[keptDistances[i]] : i \in 1 .. n - StagnationWindow})
      new == Min({distanceLog[keptDistances[i]] : i \in n - StagnationWindow + 1 .. n})
  IN  /\ verdict \in {"Stagnated", "Continue"}
      /\ settings.stagnation
      /\ Len(samples) >= StagnationStart
      => (verdict = "Stagnated"
            <=> n > StagnationWindow /\ 100 * (old - new) < MinImprovementPercent * old)

\* The verdict that ends a solve, or lets it go on, is the one the header's definitions
\* (SolverRobustness.hpp:360-400, with the floor of cpp:419 in the runaway rule) give for
\* the whole history of residuals.
VerdictMatchesHistory ==
  /\ ConvergedIffDistanceWithinOne
  /\ DivergenceMatchesHistory
  /\ SpikeNeverTriggers
  /\ StagnationMatchesHistory

================================================================================
