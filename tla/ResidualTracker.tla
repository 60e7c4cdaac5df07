---------------------------- MODULE ResidualTracker ----------------------------
(***************************************************************************)
(* One residual's history in constant memory: ResidualTracker in           *)
(* src/src/solver/SolverRobustness.cpp.  A tracker is a record, and its    *)
(* operations are operators on it; OuterIterationMonitor keeps one for     *)
(* each residual.                                                          *)
(*                                                                         *)
(* Residuals are natural numbers, or Overflow for a norm that is not       *)
(* finite.                                                                 *)
(***************************************************************************)
EXTENDS Integers, Sequences, FiniteSetsExt

CONSTANTS
  Overflow,
  None,       \* the initial infinity of a minimum
  Scale       \* what a normalized residual of 1 is represented by

Finite(x) == x # Overflow

NewTracker(floor, references, capacity, bestFrom) ==
  [floor |-> floor, references |-> references, capacity |-> capacity,
   bestFrom |-> Max({bestFrom, 1}), count |-> 0, latest |-> 0, reference |-> 0,
   bestBefore |-> None, ring |-> [i \in 0 .. capacity - 1 |-> 0],
   ringIndex |-> [i \in 0 .. capacity - 1 |-> 0], head |-> 0, size |-> 0]

\* Mutated form: the value that is overwritten is looked for one slot too far.
LeavingNext(t) == (t.head + 1) % t.capacity

\* The slot whose value leaves a full window.
Leaving(t) == t.head

\* bestBeforeWindow_ once the next value has been pushed.
BestBefore(t) ==
  LET old == t.ring[Leaving(t)]
  IN  IF t.size < t.capacity \/ t.ringIndex[Leaving(t)] < t.bestFrom THEN t.bestBefore
      ELSE IF t.bestBefore = None THEN old
      ELSE Min({t.bestBefore, old})

\* A value that is not finite is counted and enters nothing else.
Push(t, value) ==
  LET counted == [t EXCEPT !.count = @ + 1, !.latest = value]
  IN  IF ~Finite(value) THEN counted
      ELSE [counted EXCEPT
              !.reference      = IF counted.count <= t.references THEN Max({@, value}) ELSE @,
              !.bestBefore     = BestBefore(t),
              !.size           = Min({@ + 1, t.capacity}),
              !.ring[t.head]   = value,
              !.ringIndex[t.head] = counted.count,
              !.head           = (@ + 1) % t.capacity]

\* 0 is the most recent finite value.
ValueAgo(t, ago) == t.ring[(t.head + t.capacity - 1 - ago) % t.capacity]

Window(t) == {ValueAgo(t, ago) : ago \in 0 .. t.size - 1}

Full(t) == t.size = t.capacity

\* The floor keeps a reference of zero from making a small residual enormous.
Normalized(t) ==
  IF Finite(t.latest) THEN (Scale * t.latest) \div Max({t.reference, t.floor})
  ELSE Overflow

--------------------------------------------------------------------------------
(* What a tracker promises about the values it was given.                  *)

\* kept lists, in order, the places in values of the finite ones.
ListsFinite(kept, values) ==
  /\ {kept[i] : i \in 1 .. Len(kept)} = {i \in 1 .. Len(values) : Finite(values[i])}
  /\ \A i, j \in 1 .. Len(kept) : i < j => kept[i] < kept[j]

\* The values that left the window of t and count for its best.
LeftWindow(t, values, kept) ==
  {values[kept[i]] : i \in {j \in 1 .. Len(kept) - t.size : kept[j] >= t.bestFrom}}

\* The values of the reference iterations.
FirstValues(t, values, kept) ==
  {values[kept[i]] : i \in {j \in 1 .. Len(kept) : kept[j] <= t.references}}

\* The buffer holds exactly the last finite values, the best before the window is the
\* least that has left it since bestFrom, and the reference the largest of the first.
Reflects(t, values, kept) ==
  LET n    == Len(kept)
      left == LeftWindow(t, values, kept)
  IN  /\ t.count = Len(values)
      /\ ListsFinite(kept, values)
      /\ t.size = Min({n, t.capacity})
      /\ \A ago \in 0 .. t.size - 1 : ValueAgo(t, ago) = values[kept[n - ago]]
      /\ t.bestBefore = IF left = {} THEN None ELSE Min(left)
      /\ t.reference = Max(FirstValues(t, values, kept) \cup {0})

================================================================================
