-------------------------- MODULE TransientRunProofs ---------------------------
(***************************************************************************)
(* Proofs about TransientRun, for any end times, any time step, any        *)
(* rounding of the step times, any number of steps, meshes and motions.  One *)
(* inductive invariant, RunInv, carries all four theorems: what the trial  *)
(* step holds at each stage (TrialInv), what the accepted steps were       *)
(* (StateInv), where the mesh stands (MotionInv) and what a complete       *)
(* restart file is relative to the mesh it was written on (FileInv).       *)
(***************************************************************************)
EXTENDS TransientRun, TLAPS, SequenceTheorems

InStep == {"move", "predict", "correct", "judge"}

\* The time of step n of run s: TimeAtStep(n) is TimeAt(setup, n).
RawAt(s, n) == IF n = 0 THEN 0 ELSE n * DeltaT + s.rounding[n]
TimeAt(s, n) == IF RawAt(s, n) >= s.end - Tolerance THEN s.end ELSE RawAt(s, n)

\* Where the first n steps of a state left the mesh of run s: LeftAt(state, n).
Left(s, state, n) == IF n = 0 THEN s.motion[0] ELSE state[n].to

\* The motion of run s is nowhere twice: NeverRecurs.
Once(s) == \A a, b \in 0 .. Horizon : s.motion[a] = s.motion[b] => a = b

\* At motion time t the mesh of run s stands where the state, of time now, left it.
Stands(s, t, state, n, now) == s.motion[t] = Left(s, state, n) /\ (Once(s) => t = now)

\* The steps of a state of run s: the nominal sequence, on mesh m, none begun at the
\* end, each from where the one before had left the mesh.
Nominal(s, state, n, m) ==
  /\ state \in Seq(Stamps)
  /\ Len(state) = n
  /\ \A k \in 1 .. n : /\ state[k].dt = TimeAt(s, k) - TimeAt(s, k - 1)
                       /\ state[k].mesh = m
                       /\ state[k].passes = 2
                       /\ TimeAt(s, k - 1) < s.end
                       /\ s.motion # Fixed => state[k].from = Left(s, state, k - 1)

\* A step in progress is the next one of the leg, and has not reached the end.
TrialInv ==
  /\ stage \in InStep =>
       /\ step < cap
       /\ time < setup.end
       /\ fits
       /\ trial.dt = TimeAt(setup, step + 1) - time
       /\ trial.dt > 0
  /\ stage \in {"move", "predict"} => trial.passes = 0
  /\ stage = "correct" => trial.passes \in {0, 1}
  /\ stage = "judge" => trial.passes = 2

\* The state is what the step counter says; the last record is its record.
StateInv ==
  /\ time = TimeAt(setup, step)
  /\ Nominal(setup, accepted, step, mesh)
  /\ history # <<>> =>
       /\ fits
       /\ history[Len(history)].step = step
       /\ history[Len(history)].time = time
  /\ stage = "writing" => history # <<>> /\ outcome # "none"
  /\ stage = "idle" /\ outcome = "none" => history = <<>> /\ fits /\ motion.time = 0

\* During a step the mesh stands at its end and remembers its beginning.
MotionInv ==
  Moving /\ fits =>
    /\ stage \notin {"predict", "correct", "judge"} =>
         Stands(setup, motion.time, accepted, step, time)
    /\ stage \in {"predict", "correct", "judge"} =>
         /\ motion.time = motion.revertTime + trial.dt
         /\ motion.canRevert
         /\ Stands(setup, motion.revertTime, accepted, step, time)

\* A complete file belongs to the mesh, and to the position of it, it names.
FileInv ==
  file.whole =>
    /\ file.mesh \in Meshes \X Int
    /\ Nominal(setup, file.state, file.step, file.mesh[1])
    /\ file.time = TimeAt(setup, file.step)
    /\ Moving =>
         /\ file.mesh[2] = Left(setup, file.state, file.step)
         /\ Once(setup) => file.time \in 0 .. Horizon /\ file.mesh[2] = setup.motion[file.time]

RunInv == TransientTypeOK /\ TrialInv /\ StateInv /\ MotionInv /\ FileInv

--------------------------------------------------------------------------------
(* The times of the steps. *)

\* The model's operator and the one the proofs use.
LEMMA SameTime == \A n : TimeAtStep(n) = TimeAt(setup, n)
  BY DEF TimeAtStep, Raw, TimeAt, RawAt

\* A step of the run has a time, and no time is beyond the end.
LEMMA TimeIsInt ==
  ASSUME TransientTypeOK, NEW n \in 0 .. MaxSteps
  PROVE  /\ TimeAt(setup, n) \in Int
         /\ TimeAt(setup, n) <= setup.end
         /\ setup.end \in Int
<1>1. setup.end \in Nat /\ DeltaT \in Int /\ Tolerance \in Nat /\ MaxSteps \in Nat
  BY TransientAssumption DEF TransientTypeOK, Setups
<1>2. n \in Int
  BY <1>1
<1>3. RawAt(setup, n) \in Int
  <2>1. CASE n = 0
    BY <2>1 DEF RawAt
  <2>2. CASE n # 0
    <3>1. setup.rounding \in [1 .. MaxSteps -> -1 .. 1]
      BY TransientAssumption DEF TransientTypeOK, Setups
    <3>2. n \in 1 .. MaxSteps
      BY <1>1, <2>2
    <3>3. setup.rounding[n] \in -1 .. 1
      BY <3>1, <3>2
    <3>4. n * DeltaT \in Int
      BY <1>1, <1>2
    <3> QED
      BY <2>2, <3>3, <3>4 DEF RawAt
  <2> QED
    BY <2>1, <2>2
<1> QED
  BY <1>1, <1>3 DEF TimeAt

\* The run starts at time zero.
LEMMA StartTime ==
  ASSUME TransientTypeOK
  PROVE  TimeAt(setup, 0) = 0
<1>1. setup.end \in Nat /\ Tolerance \in Nat /\ setup.end > Tolerance
  BY TransientAssumption DEF TransientTypeOK, Setups
<1> QED
  BY <1>1 DEF TimeAt, RawAt

\* A step begun before the end is no sliver, does not overshoot, and its nominal
\* beginning lies before the end.
LEMMA StepSizes ==
  ASSUME TransientTypeOK, NEW k \in 1 .. MaxSteps, TimeAt(setup, k - 1) < setup.end
  PROVE  /\ TimeAt(setup, k) - TimeAt(setup, k - 1) > Tolerance
         /\ TimeAt(setup, k) - TimeAt(setup, k - 1) <= DeltaT + Tolerance + 2
         /\ (k - 1) * DeltaT < setup.end
<1>1. /\ setup.end \in Nat /\ setup.end > Tolerance
      /\ DeltaT \in Nat /\ Tolerance \in Nat /\ 1 < Tolerance /\ Tolerance + 2 < DeltaT
      /\ MaxSteps \in Nat
  BY TransientAssumption DEF TransientTypeOK, Setups
<1>2. setup.rounding \in [1 .. MaxSteps -> -1 .. 1]
  BY TransientAssumption DEF TransientTypeOK, Setups
<1> DEFINE before == (k - 1) * DeltaT
           r == setup.rounding[k]
           q == IF k = 1 THEN 0 ELSE setup.rounding[k - 1]
<1>3. k \in Int /\ k - 1 \in 0 .. MaxSteps /\ before \in Int
  BY <1>1
<1>4. r \in -1 .. 1
  BY <1>2
<1>5. q \in -1 .. 1
  <2>1. CASE k = 1
    BY <2>1
  <2>2. CASE k # 1
    <3>1. k - 1 \in 1 .. MaxSteps
      BY <1>1, <2>2
    <3>2. setup.rounding[k - 1] \in -1 .. 1
      BY <1>2, <3>1
    <3> QED
      BY <2>2, <3>2
  <2> QED
    BY <2>1, <2>2
<1>6. RawAt(setup, k) = before + DeltaT + r
  <2>1. k * DeltaT = before + DeltaT
    BY <1>1, <1>3
  <2>2. k # 0
    BY <1>1
  <2> QED
    BY <2>1, <2>2 DEF RawAt
<1>7. RawAt(setup, k - 1) = before + q
  <2>1. CASE k = 1
    <3>1. k - 1 = 0 /\ before = 0
      BY <1>1, <2>1
    <3> QED
      BY <2>1, <3>1 DEF RawAt
  <2>2. CASE k # 1
    <3>1. k - 1 # 0
      BY <1>3, <2>2
    <3> QED
      BY <2>2, <3>1 DEF RawAt
  <2> QED
    BY <2>1, <2>2
<1>8. RawAt(setup, k - 1) < setup.end - Tolerance /\ TimeAt(setup, k - 1) = RawAt(setup, k - 1)
  <2> HIDE DEF before, q
  <2> QED
    BY <1>1, <1>3, <1>5, <1>7 DEF TimeAt
<1> HIDE DEF before, q, r
<1>9. TimeAt(setup, k) = IF before + DeltaT + r >= setup.end - Tolerance THEN setup.end
                      ELSE before + DeltaT + r
  BY <1>6 DEF TimeAt
<1>10. /\ TimeAt(setup, k) - TimeAt(setup, k - 1) > Tolerance
       /\ TimeAt(setup, k) - TimeAt(setup, k - 1) <= DeltaT + Tolerance + 2
       /\ before < setup.end
  BY <1>1, <1>3, <1>4, <1>5, <1>7, <1>8, <1>9
<1> QED
  BY <1>10 DEF before

\* Wherever the motion is, or would be taken back to, the vertices have a position.
LEMMA PositionIsInt ==
  ASSUME TransientTypeOK
  PROVE  /\ Position \in Int
         /\ (IF Moving THEN setup.motion[motion.revertTime] ELSE 0) \in Int
<1>1. motion.time \in 0 .. Horizon /\ motion.revertTime \in 0 .. Horizon
  BY DEF TransientTypeOK
<1>2. Moving => setup.motion \in [0 .. Horizon -> Int]
  BY TransientAssumption DEF TransientTypeOK, Setups, Moving
<1>3. Moving => setup.motion[motion.time] \in Int /\ setup.motion[motion.revertTime] \in Int
  BY <1>1, <1>2
<1> QED
  BY <1>3 DEF Position

--------------------------------------------------------------------------------
(* The steps of the solver. *)

\* A step given up leaves the run as it was, if the mesh is back.
LEMMA Abandoned ==
  ASSUME RunInv,
         stage' = "idle",
         outcome' \in Outcomes \ {"none"},
         trial' = NoTrial,
         motion' \in [time : 0 .. Horizon, canRevert : BOOLEAN, revertTime : 0 .. Horizon],
         Moving /\ fits => Stands(setup, motion'.time, accepted, step, time),
         correct' \in Nat,
         UNCHANGED <<setup, mesh, file, solver>>
  PROVE  RunInv'
<1>1. TransientTypeOK'
  BY DEF RunInv, TransientTypeOK, solver, NoTrial
<1>2. TrialInv'
  BY DEF RunInv, TrialInv, InStep
<1>3. StateInv'
  BY DEF RunInv, StateInv, solver
<1>4. MotionInv' /\ FileInv'
  BY DEF RunInv, MotionInv, FileInv, solver, Moving
<1> QED
  BY <1>1, <1>2, <1>3, <1>4 DEF RunInv

\* onStepRejected() brings the mesh back, once or a second time.
LEMMA Rejected ==
  ASSUME RunInv, stage \in {"predict", "correct", "judge"} \/ ~fits
  PROVE  /\ OnStepRejected \in [time : 0 .. Horizon, canRevert : BOOLEAN, revertTime : 0 .. Horizon]
         /\ Moving /\ fits => Stands(setup, OnStepRejected.time, accepted, step, time)
<1>1. motion \in [time : 0 .. Horizon, canRevert : BOOLEAN, revertTime : 0 .. Horizon]
  BY DEF RunInv, TransientTypeOK
<1>2. Undone(motion) \in [time : 0 .. Horizon, canRevert : BOOLEAN, revertTime : 0 .. Horizon]
  BY <1>1 DEF Undone
<1>3. Moving /\ fits => Stands(setup, Undone(motion).time, accepted, step, time)
  BY <1>1 DEF RunInv, MotionInv, Undone
<1> QED
  BY <1>1, <1>2, <1>3 DEF OnStepRejected

\* A rejection keeps the invariant.
LEMMA RejectKeeps ==
  ASSUME RunInv, stage \in {"predict", "correct", "judge"} \/ ~fits,
         NEW s \in Outcomes \ {"none"}, Reject(s), correct' \in Nat, UNCHANGED solver
  PROVE  RunInv'
  BY Rejected, Abandoned DEF Reject

\* The step counter, the cap and the time are in range.
LEMMA Ranges ==
  ASSUME TransientTypeOK
  PROVE  /\ MaxSteps \in Nat /\ MaxSteps \in Caps
         /\ cap \in Int /\ cap <= MaxSteps
         /\ step \in 0 .. MaxSteps /\ step \in Int /\ time \in Int
         /\ \A c \in Caps : c \in 1 .. MaxSteps
  BY TransientAssumption DEF TransientTypeOK, Setups

\* The step begun is the one after the last accepted, or none.
LEMMA BeginKeeps == ASSUME RunInv, BeginStep PROVE RunInv'
<1>1. CASE ~fits
  <2>1. Reject("InvalidConfiguration") /\ UNCHANGED <<solver, correct>>
    BY <1>1 DEF BeginStep
  <2>2. correct' \in Nat
    BY <2>1 DEF RunInv, TransientTypeOK
  <2> QED
    BY <1>1, <2>1, <2>2, RejectKeeps DEF Outcomes
<1>2. CASE fits
  <2>1. /\ trial' = [dt |-> StepSize, passes |-> 0]
        /\ stage' = IF Moving THEN "move" ELSE "predict"
        /\ stage = "loop"
        /\ ~Finished
        /\ UNCHANGED <<setup, outcome, mesh, motion, file, solver, correct>>
    BY <1>2 DEF BeginStep
  <2>2. /\ step < cap /\ time < setup.end
        /\ step + 1 \in 0 .. MaxSteps
    <3>1. setup.end \in Int
      BY TransientAssumption DEF RunInv, TransientTypeOK, Setups
    <3> QED
      BY <2>1, <3>1, Ranges DEF Finished, RunInv
  <2>3. /\ StepSize = TimeAt(setup, step + 1) - time
        /\ StepSize \in Int
        /\ StepSize > 0
    <3>1. StepSize = TimeAt(setup, step + 1) - time /\ StepSize \in Int
      BY <2>2, SameTime, TimeIsInt, Ranges DEF StepSize, RunInv
    <3>2. step + 1 \in 1 .. MaxSteps /\ (step + 1) - 1 = step
      BY <2>2, Ranges DEF RunInv
    <3>3. TimeAt(setup, (step + 1) - 1) = time
      BY <3>2 DEF RunInv, StateInv
    <3>4. TimeAt(setup, step + 1) - TimeAt(setup, (step + 1) - 1) > Tolerance
      BY <2>2, <3>2, <3>3, StepSizes DEF RunInv
    <3>5. Tolerance \in Nat
      BY TransientAssumption
    <3> QED
      BY <3>1, <3>3, <3>4, <3>5
  <2>4. TransientTypeOK'
    BY <2>1, <2>3 DEF RunInv, TransientTypeOK, solver
  <2>5. TrialInv'
    BY <1>2, <2>1, <2>2, <2>3 DEF RunInv, TrialInv, InStep, solver
  <2>6. StateInv'
    BY <2>1 DEF RunInv, StateInv, solver
  <2>7. MotionInv' /\ FileInv'
    BY <2>1 DEF RunInv, MotionInv, FileInv, solver, Moving
  <2> QED
    BY <2>4, <2>5, <2>6, <2>7 DEF RunInv
<1> QED
  BY <1>1, <1>2

\* The move is undone by whatever leaves the step after it.
LEMMA MoveKeeps == ASSUME RunInv, MoveMesh PROVE RunInv'
<1> DEFINE Places == [time : 0 .. Horizon, canRevert : BOOLEAN, revertTime : 0 .. Horizon]
<1>1. /\ stage = "move" /\ UNCHANGED <<solver, correct>> /\ correct' \in Nat
      /\ motion \in Places /\ trial.dt \in Int /\ trial.dt > 0
  BY DEF MoveMesh, RunInv, TransientTypeOK, TrialInv, InStep
<1>2. motion.time + trial.dt <= Horizon => Advanced(trial.dt) \in Places
  BY <1>1, TransientAssumption DEF Advanced
<1>3. Undone(Advanced(trial.dt)) = [time |-> motion.time, canRevert |-> FALSE,
                                    revertTime |-> motion.time]
  BY DEF Undone, Advanced
<1>4. Moving /\ fits => Stands(setup, motion.time, accepted, step, time)
  BY <1>1 DEF RunInv, MotionInv
<1>5. ASSUME NEW m \in Places, m.time = motion.time, Throw(m)
      PROVE  RunInv'
  BY <1>1, <1>4, <1>5, Abandoned DEF Throw, Outcomes
<1>6. CASE Throw(motion)
  BY <1>1, <1>5, <1>6
<1>7. CASE Throw(Undone(Advanced(trial.dt)))
  BY <1>1, <1>3, <1>5, <1>7
<1>8. CASE /\ motion.time + trial.dt <= Horizon
           /\ motion' = Advanced(trial.dt)
           /\ stage' = "predict"
           /\ UNCHANGED <<setup, outcome, trial, mesh, file>>
  <2>1. TransientTypeOK'
    BY <1>1, <1>2, <1>8 DEF RunInv, TransientTypeOK, solver
  <2>2. TrialInv'
    BY <1>1, <1>8 DEF RunInv, TrialInv, InStep, solver
  <2>3. StateInv'
    BY <1>1, <1>8 DEF RunInv, StateInv, solver
  <2>4. MotionInv'
    BY <1>1, <1>4, <1>8 DEF MotionInv, Advanced, solver, Moving
  <2>5. FileInv'
    BY <1>8 DEF RunInv, FileInv, Moving
  <2> QED
    BY <2>1, <2>2, <2>3, <2>4, <2>5 DEF RunInv
<1> QED
  BY <1>6, <1>7, <1>8 DEF MoveMesh

\* The predictor changes nothing a rejection would have to undo but the mesh.
LEMMA PredictKeeps == ASSUME RunInv, Predict PROVE RunInv'
<1>1. stage = "predict" /\ UNCHANGED solver /\ correct' \in Nat
  BY DEF Predict, RunInv, TransientTypeOK
<1>2. ASSUME NEW s \in {"MomentumFailure", "NonFiniteState"}, Reject(s)
      PROVE  RunInv'
  BY <1>1, <1>2, RejectKeeps DEF Outcomes
<1>3. CASE stage' = "correct" /\ UNCHANGED <<setup, outcome, trial, mesh, motion, file>>
  <2>1. TransientTypeOK'
    BY <1>1, <1>3 DEF RunInv, TransientTypeOK, solver
  <2>2. TrialInv'
    BY <1>1, <1>3 DEF RunInv, TrialInv, InStep, solver
  <2>3. StateInv'
    BY <1>1, <1>3 DEF RunInv, StateInv, solver
  <2>4. MotionInv' /\ FileInv'
    BY <1>1, <1>3 DEF RunInv, MotionInv, FileInv, solver, Moving
  <2> QED
    BY <2>1, <2>2, <2>3, <2>4 DEF RunInv
<1> QED
  BY <1>2, <1>3 DEF Predict

\* Judging comes after the second pass, and only then.
LEMMA CorrectKeeps == ASSUME RunInv, CorrectPressure PROVE RunInv'
<1>1. stage = "correct" /\ UNCHANGED <<solver, correct>> /\ correct' \in Nat
  BY DEF CorrectPressure, RunInv, TransientTypeOK
<1>2. ASSUME NEW s \in {"PressureCorrectionFailure", "NonFiniteState"}, Reject(s)
      PROVE  RunInv'
  BY <1>1, <1>2, RejectKeeps DEF Outcomes
<1>3. CASE Throw(OnStepRejected)
  BY <1>1, <1>3, Rejected, Abandoned DEF Throw, Outcomes
<1>4. CASE /\ trial' = [trial EXCEPT !.passes = @ + 1]
           /\ stage' = IF trial.passes = 1 THEN "judge" ELSE "correct"
           /\ UNCHANGED <<setup, outcome, mesh, motion, file>>
  <2>1. trial.passes \in {0, 1} /\ trial \in [dt : Int, passes : 0 .. 2]
    BY <1>1 DEF RunInv, TrialInv, TransientTypeOK
  <2>2. trial' \in [dt : Int, passes : 0 .. 2] /\ trial'.dt = trial.dt
        /\ trial'.passes = trial.passes + 1
    BY <1>4, <2>1
  <2>3. TransientTypeOK'
    BY <1>1, <1>4, <2>2 DEF RunInv, TransientTypeOK, solver
  <2>4. TrialInv'
    BY <1>1, <1>4, <2>1, <2>2 DEF RunInv, TrialInv, InStep, solver
  <2>5. StateInv'
    BY <1>1, <1>4 DEF RunInv, StateInv, solver
  <2>6. MotionInv' /\ FileInv'
    BY <1>1, <1>4, <2>2 DEF RunInv, MotionInv, FileInv, solver, Moving
  <2> QED
    BY <2>3, <2>4, <2>5, <2>6 DEF RunInv
<1> QED
  BY <1>2, <1>3, <1>4 DEF CorrectPressure

\* The step accepted is the one that was begun, with both its passes.
LEMMA JudgeKeeps == ASSUME RunInv, Judge PROVE RunInv'
<1>1. /\ stage = "judge" /\ UNCHANGED <<cap, fits, correct>> /\ correct' \in Nat
      /\ step < cap /\ time < setup.end /\ fits /\ trial.passes = 2
      /\ trial.dt = TimeAt(setup, step + 1) - time
      /\ Moving => setup.motion[motion.revertTime] = Left(setup, accepted, step)
  BY DEF Judge, RunInv, TransientTypeOK, TrialInv, InStep, MotionInv, Stands
<1>2. CASE Reject("CFLViolation") /\ UNCHANGED solver
  BY <1>1, <1>2, RejectKeeps DEF Outcomes
<1>3. CASE /\ accepted' = Solved
           /\ step' = step + 1
           /\ time' = TimeAtStep(step + 1)
           /\ history' = Append(history, [step |-> step', time |-> time', dt |-> trial.dt])
           /\ trial' = NoTrial
           /\ stage' = "loop"
           /\ UNCHANGED <<setup, outcome, mesh, motion, file>>
  <2> DEFINE before == IF Moving THEN setup.motion[motion.revertTime] ELSE 0
             stamp == [dt |-> trial.dt, mesh |-> mesh, model |-> correct,
                       passes |-> trial.passes, to |-> Position, from |-> before]
             record == [step |-> step + 1, time |-> TimeAt(setup, step + 1), dt |-> trial.dt]
  <2>1. step + 1 \in 1 .. MaxSteps /\ step + 1 \in 0 .. MaxSteps /\ step \in Nat
    BY <1>1, Ranges DEF RunInv
  <2>2. TimeAt(setup, step + 1) \in Int /\ time' = TimeAt(setup, step + 1)
    BY <1>3, <2>1, TimeIsInt, SameTime DEF RunInv
  <2>3. stamp \in Stamps /\ accepted' = Append(accepted, stamp) /\ accepted \in Seq(Stamps)
    <3>1. Position \in Int /\ before \in Int
      BY PositionIsInt DEF RunInv
    <3> HIDE DEF before
    <3>2. stamp \in Stamps
      BY <3>1 DEF Stamps, RunInv, TransientTypeOK
    <3>3. accepted' = Append(accepted, stamp)
      BY <1>3 DEF Solved, before
    <3> QED
      BY <3>2, <3>3 DEF RunInv, TransientTypeOK
  <2>4. /\ record \in [step : 1 .. MaxSteps, time : Int, dt : Int]
        /\ history' = Append(history, record)
        /\ history \in Seq([step : 1 .. MaxSteps, time : Int, dt : Int])
    BY <1>3, <2>1, <2>2 DEF RunInv, TransientTypeOK
  <2>5. TransientTypeOK'
    <3>1. accepted' \in Seq(Stamps)
      BY <2>3
    <3>2. history' \in Seq([step : 1 .. MaxSteps, time : Int, dt : Int])
      BY <2>4
    <3> QED
      BY <1>1, <1>3, <2>1, <2>2, <3>1, <3>2 DEF RunInv, TransientTypeOK, NoTrial
  <2>6. TrialInv'
    BY <1>3 DEF TrialInv, InStep
  <2>7. Nominal(setup, accepted', step + 1, mesh)
    <3>1. Nominal(setup, accepted, step, mesh) /\ time = TimeAt(setup, step)
      BY DEF RunInv, StateInv
    <3>2. accepted' \in Seq(Stamps) /\ Len(accepted') = step + 1
      BY <2>3, <3>1 DEF Nominal
    <3>3. ASSUME NEW k \in 1 .. (step + 1)
          PROVE  /\ accepted'[k].dt = TimeAt(setup, k) - TimeAt(setup, k - 1)
                 /\ accepted'[k].mesh = mesh
                 /\ accepted'[k].passes = 2
                 /\ TimeAt(setup, k - 1) < setup.end
                 /\ setup.motion # Fixed => accepted'[k].from = Left(setup, accepted', k - 1)
      <4>1. CASE k = step + 1
        <5>1. accepted'[k] = stamp
          BY <2>1, <2>3, <3>1, <4>1 DEF Nominal
        <5>2. k - 1 = step
          BY <2>1, <4>1
        <5>3. Left(setup, accepted', step) = Left(setup, accepted, step)
          BY <2>1, <2>3, <3>1 DEF Left, Nominal
        <5> QED
          BY <1>1, <3>1, <4>1, <5>1, <5>2, <5>3 DEF Moving
      <4>2. CASE k # step + 1
        <5>1. k \in 1 .. step
          BY <2>1, <4>2
        <5>2. accepted'[k] = accepted[k]
          BY <2>1, <2>3, <3>1, <5>1 DEF Nominal
        <5>3. Left(setup, accepted', k - 1) = Left(setup, accepted, k - 1)
          BY <2>1, <2>3, <3>1, <5>1 DEF Left, Nominal
        <5> QED
          BY <3>1, <5>1, <5>2, <5>3 DEF Nominal
      <4> QED
        BY <4>1, <4>2
    <3> QED
      BY <3>2, <3>3 DEF Nominal
  <2>8. StateInv'
    <3>1. history'[Len(history')] = record
      BY <2>4
    <3> QED
      BY <1>1, <1>3, <2>2, <2>7, <3>1 DEF StateInv
  <2>9. MotionInv'
    <3> SUFFICES ASSUME Moving PROVE Stands(setup, motion.time, accepted', step + 1, time')
      BY <1>1, <1>3 DEF MotionInv, Moving
    <3>1. /\ motion.time = motion.revertTime + trial.dt
          /\ Stands(setup, motion.revertTime, accepted, step, time)
          /\ time \in Int
      BY <1>1, Ranges DEF RunInv, MotionInv
    <3>2. Left(setup, accepted', step + 1) = setup.motion[motion.time]
      <4>1. Len(accepted) = step
        BY DEF RunInv, StateInv, Nominal
      <4>2. accepted'[step + 1].to = setup.motion[motion.time]
        BY <2>1, <2>3, <4>1 DEF Position
      <4> QED
        BY <2>1, <4>2 DEF Left
    <3>3. Once(setup) => motion.time = time'
      BY <1>1, <2>2, <3>1 DEF Stands
    <3> QED
      BY <3>2, <3>3 DEF Stands
  <2>10. FileInv'
    BY <1>3 DEF RunInv, FileInv, Moving
  <2> QED
    BY <2>5, <2>6, <2>8, <2>9, <2>10 DEF RunInv
<1> QED
  BY <1>2, <1>3 DEF Judge

\* The end of a leg changes only the outcome.
LEMMA EndKeeps == ASSUME RunInv, EndSolve PROVE RunInv'
<1>1. /\ stage = "loop" /\ stage' = "idle" /\ outcome' \in {"Completed", "MaxTimeSteps"}
      /\ UNCHANGED <<setup, solver, trial, correct, mesh, motion, file>>
  BY DEF EndSolve
<1>2. TransientTypeOK'
  BY <1>1 DEF RunInv, TransientTypeOK, solver, Outcomes
<1>3. TrialInv' /\ StateInv'
  BY <1>1 DEF RunInv, TrialInv, StateInv, InStep, solver
<1>4. MotionInv' /\ FileInv'
  BY <1>1 DEF RunInv, MotionInv, FileInv, solver, Moving
<1> QED
  BY <1>2, <1>3, <1>4 DEF RunInv

--------------------------------------------------------------------------------
(* The driver. *)

\* A leg that starts from a nominal state on this mesh is a run of its own.
LEMMA LegKeeps ==
  ASSUME RunInv, NEW state, NEW fitting \in BOOLEAN, NEW c \in Caps, NEW n \in 0 .. MaxSteps,
         stage = "idle",
         Nominal(setup, state, n, mesh),
         Moving /\ fitting => Stands(setup, motion.time, state, n, TimeAt(setup, n)),
         StartLeg(state, fitting, c, n)
  PROVE  RunInv'
<1>1. /\ stage' = "loop" /\ outcome' = "none" /\ cap' = c /\ step' = n
      /\ time' = TimeAt(setup, n) /\ accepted' = state /\ fits' = fitting /\ history' = <<>>
      /\ UNCHANGED <<setup, trial, correct, mesh, motion, file>>
  BY SameTime DEF StartLeg
<1>2. TransientTypeOK'
  <2>1. state \in Seq(Stamps)
    BY DEF Nominal
  <2>2. time' \in Int
    BY <1>1, TimeIsInt DEF RunInv
  <2> QED
    BY <1>1, <2>1, <2>2 DEF RunInv, TransientTypeOK, Outcomes
<1>3. TrialInv' /\ StateInv'
  BY <1>1 DEF RunInv, TrialInv, StateInv, InStep
<1>4. MotionInv' /\ FileInv'
  BY <1>1 DEF RunInv, MotionInv, FileInv, Moving
<1> QED
  BY <1>2, <1>3, <1>4 DEF RunInv

\* The initial state is a nominal one of no steps, at time zero, on any mesh.
LEMMA NoSteps ==
  ASSUME NEW s, NEW m
  PROVE  Nominal(s, <<>>, 0, m)
<1>1. <<>> \in Seq(Stamps) /\ Len(<<>>) = 0 /\ 1 .. 0 = {}
  OBVIOUS
<1> QED
  BY <1>1 DEF Nominal

\* A fresh leg, one with a state of another size, and a resumed one.
LEMMA StartKeeps ==
  ASSUME RunInv, NEW c \in Caps, StartFresh(c) \/ StartMisfit(c) \/ Resume(c)
  PROVE  RunInv'
<1>1. CASE StartFresh(c)
  <2>1. stage = "idle" /\ outcome = "none" /\ StartLeg(<<>>, TRUE, c, 0)
    BY <1>1 DEF StartFresh
  <2>2. motion.time = 0 /\ TimeAt(setup, 0) = 0 /\ 0 \in 0 .. MaxSteps
    BY <2>1, StartTime, Ranges DEF RunInv, StateInv
  <2>3. Stands(setup, motion.time, <<>>, 0, TimeAt(setup, 0))
    BY <2>2 DEF Stands, Left
  <2> QED
    BY <2>1, <2>2, <2>3, NoSteps, LegKeeps
<1>2. CASE StartMisfit(c)
  <2>1. stage = "idle" /\ StartLeg(accepted, FALSE, c, step)
    BY <1>2 DEF StartMisfit
  <2>2. Nominal(setup, accepted, step, mesh) /\ step \in 0 .. MaxSteps
    BY Ranges DEF RunInv, StateInv
  <2> QED
    BY <2>1, <2>2, LegKeeps
<1>3. CASE Resume(c)
  <2>1. stage = "idle" /\ Acceptable /\ StartLeg(file.state, TRUE, c, file.step)
    BY <1>3 DEF Resume, StartingStep
  <2>2. /\ file.mesh \in Meshes \X Int
        /\ Nominal(setup, file.state, file.step, file.mesh[1])
        /\ file.time = TimeAt(setup, file.step)
        /\ Moving =>
             /\ file.mesh[2] = Left(setup, file.state, file.step)
             /\ Once(setup) =>
                  file.time \in 0 .. Horizon /\ file.mesh[2] = setup.motion[file.time]
    BY <2>1 DEF Acceptable, RunInv, FileInv
  <2>3. /\ file.mesh[1] = mesh
        /\ Moving => file.mesh[2] = setup.motion[motion.time]
    BY <2>1 DEF Acceptable, Fingerprint, Position
  <2>4. file.step \in 0 .. MaxSteps
    BY DEF RunInv, TransientTypeOK, Files
  <2>5. Moving => Stands(setup, motion.time, file.state, file.step, TimeAt(setup, file.step))
    <3>1. motion.time \in 0 .. Horizon
      BY DEF RunInv, TransientTypeOK
    <3> QED
      BY <2>2, <2>3, <3>1 DEF Stands, Once
  <2> QED
    BY <2>1, <2>2, <2>3, <2>4, <2>5, LegKeeps
<1> QED
  BY <1>1, <1>2, <1>3

\* What is written is the last accepted state, on the mesh as it stands.
LEMMA FileKeeps == ASSUME RunInv, OpenFile \/ WriteFile \/ ReadFails PROVE RunInv'
<1>1. CASE OpenFile
  <2>1. /\ stage = "idle" /\ history # <<>> /\ stage' = "writing" /\ file' = NoFile
        /\ outcome # "none"
        /\ UNCHANGED <<setup, outcome, solver, trial, correct, mesh, motion>>
    BY <1>1 DEF OpenFile, RunInv, StateInv
  <2>2. NoFile \in Files
    <3>1. <<>> \in Seq(Stamps) /\ 0 \in 0 .. MaxSteps
      BY Ranges DEF RunInv
    <3> QED
      BY <3>1 DEF NoFile, Files
  <2>3. TransientTypeOK'
    BY <2>1, <2>2 DEF RunInv, TransientTypeOK, solver
  <2>4. TrialInv' /\ StateInv'
    BY <2>1 DEF RunInv, TrialInv, StateInv, InStep, solver
  <2>5. MotionInv' /\ FileInv'
    BY <2>1 DEF RunInv, MotionInv, FileInv, NoFile, solver, Moving
  <2> QED
    BY <2>3, <2>4, <2>5 DEF RunInv
<1>2. CASE WriteFile
  <2>1. /\ stage = "writing" /\ stage' = "idle"
        /\ UNCHANGED <<setup, outcome, solver, trial, correct, mesh, motion>>
    BY <1>2 DEF WriteFile
  <2>2. PICK whole \in BOOLEAN :
          file' = [whole |-> whole, step |-> history[Len(history)].step,
                   time |-> history[Len(history)].time, dt |-> history[Len(history)].dt,
                   state |-> accepted, mesh |-> Fingerprint]
    BY <1>2 DEF WriteFile
  <2>3. /\ history # <<>> /\ fits /\ outcome # "none"
        /\ history[Len(history)].step = step /\ history[Len(history)].time = time
    BY <2>1 DEF RunInv, StateInv
  <2>4. history[Len(history)].dt \in Int
    <3>1. history \in Seq([step : 1 .. MaxSteps, time : Int, dt : Int])
      BY DEF RunInv, TransientTypeOK
    <3>2. history[Len(history)] \in [step : 1 .. MaxSteps, time : Int, dt : Int]
      <4>1. Len(history) \in 1 .. Len(history)
        BY <2>3, <3>1, EmptySeq
      <4> QED
        BY <3>1, <4>1, ElementOfSeq
    <3> QED
      BY <3>2
  <2>5. /\ Fingerprint \in Meshes \X Int
        /\ Fingerprint[1] = mesh
        /\ Moving =>
             /\ Fingerprint[2] = Left(setup, accepted, step)
             /\ Once(setup) => time \in 0 .. Horizon /\ Fingerprint[2] = setup.motion[time]
    <3>1. Position \in Int /\ mesh \in Meshes
      BY PositionIsInt DEF RunInv, TransientTypeOK
    <3>2. Moving => /\ Position = setup.motion[motion.time]
                    /\ Stands(setup, motion.time, accepted, step, time)
                    /\ motion.time \in 0 .. Horizon
      BY <2>1, <2>3 DEF Position, RunInv, TransientTypeOK, MotionInv
    <3> QED
      BY <3>1, <3>2 DEF Fingerprint, Stands
  <2>6. TransientTypeOK'
    <3>1. file' \in Files
      <4>1. accepted \in Seq(Stamps) /\ step \in 0 .. MaxSteps /\ time \in Int
        BY Ranges DEF RunInv, TransientTypeOK
      <4>2. Fingerprint \in Meshes \X Int
        BY <2>5
      <4> QED
        BY <2>2, <2>3, <2>4, <4>1, <4>2 DEF Files
    <3> QED
      BY <2>1, <3>1 DEF RunInv, TransientTypeOK, solver
  <2>7. TrialInv' /\ StateInv'
    BY <2>1, <2>3 DEF RunInv, TrialInv, StateInv, InStep, solver
  <2>8. MotionInv'
    BY <2>1 DEF RunInv, MotionInv, solver, Moving
  <2>9. FileInv'
    <3>1. Nominal(setup, accepted, step, mesh) /\ time = TimeAt(setup, step)
      BY DEF RunInv, StateInv
    <3>2. /\ file'.state = accepted /\ file'.step = step
          /\ file'.time = time /\ file'.mesh = Fingerprint
      BY <2>2, <2>3
    <3> QED
      BY <2>1, <2>5, <3>1, <3>2 DEF FileInv, Moving
  <2> QED
    BY <2>6, <2>7, <2>8, <2>9 DEF RunInv
<1>3. CASE ReadFails
  <2>1. /\ stage = "idle" /\ outcome' = "thrown"
        /\ UNCHANGED <<setup, stage, solver, trial, correct, mesh, motion, file>>
    BY <1>3 DEF ReadFails
  <2>2. TransientTypeOK'
    BY <2>1 DEF RunInv, TransientTypeOK, solver, Outcomes
  <2>3. TrialInv' /\ StateInv'
    BY <2>1 DEF RunInv, TrialInv, StateInv, InStep, solver
  <2>4. MotionInv' /\ FileInv'
    BY <2>1 DEF RunInv, MotionInv, FileInv, solver, Moving
  <2> QED
    BY <2>2, <2>3, <2>4 DEF RunInv
<1> QED
  BY <1>1, <1>2, <1>3

\* A new process starts anew; the file, and the mesh it was written on, stay.
LEMMA RestartKeeps == ASSUME RunInv, NEW m \in Meshes, Restart(m) PROVE RunInv'
<1>1. /\ stage' = "idle" /\ outcome' = "none" /\ cap' = MaxSteps /\ step' = 0
      /\ time' = TimeAt(setup, 0) /\ accepted' = <<>> /\ fits' = TRUE /\ history' = <<>>
      /\ trial' = NoTrial /\ correct' = 0 /\ mesh' = m /\ motion' = AtRest
      /\ UNCHANGED <<setup, file>>
  BY SameTime DEF Restart
<1>2. TimeAt(setup, 0) = 0
  BY StartTime DEF RunInv
<1>3. TransientTypeOK'
  <2>1. /\ <<>> \in Seq(Stamps)
        /\ <<>> \in Seq([step : 1 .. MaxSteps, time : Int, dt : Int])
    OBVIOUS
  <2> QED
    BY <1>1, <1>2, <2>1, Ranges, TransientAssumption DEF RunInv, TransientTypeOK, Outcomes, NoTrial, AtRest
<1>4. TrialInv'
  BY <1>1 DEF TrialInv, InStep
<1>5. StateInv'
  BY <1>1, NoSteps DEF StateInv, AtRest
<1>6. MotionInv' /\ FileInv'
  BY <1>1, <1>2 DEF RunInv, MotionInv, FileInv, AtRest, Moving, Stands, Left
<1> QED
  BY <1>3, <1>4, <1>5, <1>6 DEF RunInv

--------------------------------------------------------------------------------
(* The theorems. *)

\* The initial states satisfy the invariant.
LEMMA RunInit == TransientInit => RunInv
<1> SUFFICES ASSUME TransientInit PROVE RunInv
  OBVIOUS
<1>1. /\ setup \in Setups
      /\ stage = "idle" /\ outcome = "none" /\ cap = MaxSteps /\ step = 0
      /\ time = TimeAt(setup, 0) /\ accepted = <<>> /\ fits = TRUE /\ history = <<>>
      /\ trial = NoTrial /\ correct = 0 /\ mesh \in Meshes /\ motion = AtRest /\ file = NoFile
  BY SameTime DEF TransientInit
<1>2. time = 0 /\ MaxSteps \in Nat /\ MaxSteps \in Caps
  <2>1. setup.end \in Nat /\ Tolerance \in Nat /\ setup.end > Tolerance
    BY <1>1, TransientAssumption DEF Setups
  <2>2. TimeAt(setup, 0) = 0
    BY <2>1 DEF TimeAt, RawAt
  <2> QED
    BY <1>1, <2>2, TransientAssumption
<1>3. TransientTypeOK
  <2>1. /\ <<>> \in Seq(Stamps)
        /\ <<>> \in Seq([step : 1 .. MaxSteps, time : Int, dt : Int])
    OBVIOUS
  <2>2. NoFile \in Files
    BY <1>2, <2>1 DEF NoFile, Files
  <2> QED
    BY <1>1, <1>2, <2>1, <2>2, TransientAssumption DEF TransientTypeOK, Outcomes, NoTrial, AtRest
<1>4. TrialInv /\ MotionInv /\ FileInv
  BY <1>1, <1>2 DEF TrialInv, MotionInv, FileInv, InStep, AtRest, NoFile, Stands, Left
<1>5. StateInv
  BY <1>1, NoSteps DEF StateInv, AtRest
<1> QED
  BY <1>3, <1>4, <1>5 DEF RunInv

\* Every step of the program keeps it.
LEMMA RunNext == RunInv /\ [TransientNext]_vars => RunInv'
<1> SUFFICES ASSUME RunInv, [TransientNext]_vars PROVE RunInv'
  OBVIOUS
<1>1. CASE SolverStep
  BY <1>1, BeginKeeps, MoveKeeps, PredictKeeps, CorrectKeeps, JudgeKeeps, EndKeeps
  DEF SolverStep
<1>2. ASSUME NEW c \in Caps, StartFresh(c) \/ StartMisfit(c) \/ Resume(c)
      PROVE  RunInv'
  BY <1>2, StartKeeps
<1>3. CASE OpenFile \/ WriteFile \/ ReadFails
  BY <1>3, FileKeeps
<1>4. ASSUME NEW m \in Meshes, Restart(m)
      PROVE  RunInv'
  BY <1>4, RestartKeeps
<1>5. CASE UNCHANGED vars
  <2>1. TransientTypeOK' /\ TrialInv' /\ StateInv'
    BY <1>5 DEF vars, RunInv, TransientTypeOK, TrialInv, StateInv
  <2>2. MotionInv' /\ FileInv'
    BY <1>5 DEF vars, RunInv, MotionInv, FileInv, Moving
  <2> QED
    BY <2>1, <2>2 DEF RunInv
<1> QED
  BY <1>1, <1>2, <1>3, <1>4, <1>5 DEF TransientNext

\* The strengthened invariant holds in every reachable state.
THEOREM RunInvariant == TransientSpec => []RunInv
  BY RunInit, RunNext, PTL DEF TransientSpec

\* The variables of a transient run have their types; the step counter stays within
\* the step cap of the original run (TimeController.cpp).
THEOREM TransientTypes == TransientSpec => []TransientTypeOK
<1>1. RunInv => TransientTypeOK
  BY DEF RunInv
<1> QED
  BY <1>1, RunInvariant, PTL

\* However often a run is ended, killed and resumed from its restart file, with any
\* step cap, on any mesh: at a step its state went through the time steps of the
\* uninterrupted run (TransientSolver.cpp, RestartReader.cpp, TimeController.cpp).
THEOREM ResumesExactly == TransientSpec => []ResumeIsExact
<1>1. RunInv => ResumeIsExact
  <2> SUFFICES ASSUME RunInv PROVE ResumeIsExact
    OBVIOUS
  <2>1. time = TimeAtStep(step) /\ Exact(accepted, step)
    BY SameTime DEF RunInv, StateInv, Nominal, Exact
  <2>2. ASSUME Acceptable
        PROVE  Exact(file.state, file.step) /\ file.time = TimeAtStep(file.step)
    <3>1. /\ Nominal(setup, file.state, file.step, file.mesh[1])
          /\ file.time = TimeAt(setup, file.step)
          /\ file.mesh[1] = mesh
      BY <2>2 DEF Acceptable, Fingerprint, RunInv, FileInv
    <3> QED
      BY <3>1, SameTime DEF Nominal, Exact
  <2> QED
    BY <2>1, <2>2 DEF ResumeIsExact
<1> QED
  BY <1>1, RunInvariant, PTL

\* Whatever the rounding of the step times within half the tolerance: no accepted
\* step is a sliver, none overshoots the end, and none is taken that the nominal
\* step would not need (TimeController::timeAtStep, isFinished).
THEOREM NoSlivers == TransientSpec => []NoSliverStep
<1>1. RunInv => NoSliverStep
  <2> SUFFICES ASSUME RunInv PROVE NoSliverStep
    OBVIOUS
  <2>1. /\ TransientTypeOK /\ time = TimeAt(setup, step) /\ Nominal(setup, accepted, step, mesh)
        /\ step \in 0 .. MaxSteps
    BY Ranges DEF RunInv, StateInv
  <2>2. time <= setup.end
    BY <2>1, TimeIsInt
  <2>3. ASSUME NEW k \in DOMAIN accepted
        PROVE  accepted[k].dt > Tolerance /\ accepted[k].dt <= DeltaT + Tolerance + 2
    <3>1. k \in 1 .. step /\ k \in 1 .. MaxSteps
      BY <2>1, Ranges DEF Nominal
    <3> QED
      BY <2>1, <3>1, StepSizes DEF Nominal
  <2>4. accepted # <<>> => (step - 1) * DeltaT < setup.end
    <3> SUFFICES ASSUME accepted # <<>> PROVE (step - 1) * DeltaT < setup.end
      OBVIOUS
    <3>1. step \in 1 .. step /\ step \in 1 .. MaxSteps
      BY <2>1, EmptySeq, Ranges DEF Nominal
    <3> QED
      BY <2>1, <3>1, StepSizes DEF Nominal
  <2> QED
    BY <2>2, <2>3, <2>4 DEF NoSliverStep
<1> QED
  BY <1>1, RunInvariant, PTL

\* With any motion, any failure and any exception: between steps the mesh stands
\* where the last accepted state was computed, each step began where the one before
\* had left it, and the time of a motion that is nowhere twice is the state's
\* (AlePISO.cpp, TransientSolver.cpp, MeshFingerprint.cpp).
THEOREM MeshFollows == TransientSpec => []MeshFollowsState
<1>1. RunInv => MeshFollowsState
  <2> SUFFICES ASSUME RunInv, Moving
               PROVE  /\ \A k \in DOMAIN accepted : accepted[k].from = LeftAt(accepted, k - 1)
                      /\ stage \in {"idle", "loop", "writing"} /\ fits =>
                           /\ Position = LeftAt(accepted, Len(accepted))
                           /\ NeverRecurs => motion.time = time
    BY DEF MeshFollowsState
  <2>1. Nominal(setup, accepted, step, mesh) /\ Len(accepted) = step
    BY DEF RunInv, StateInv, Nominal
  <2>2. \A n : LeftAt(accepted, n) = Left(setup, accepted, n)
    BY DEF LeftAt, Left
  <2>3. ASSUME NEW k \in DOMAIN accepted
        PROVE  accepted[k].from = LeftAt(accepted, k - 1)
    BY <2>1, <2>2 DEF Nominal, Moving
  <2>4. ASSUME stage \in {"idle", "loop", "writing"}, fits
        PROVE  Stands(setup, motion.time, accepted, step, time)
    BY <2>4 DEF RunInv, MotionInv
  <2>5. NeverRecurs = Once(setup)
    BY DEF NeverRecurs, Once
  <2> QED
    BY <2>1, <2>2, <2>3, <2>4, <2>5 DEF Stands, Position
<1> QED
  BY <1>1, RunInvariant, PTL
================================================================================
