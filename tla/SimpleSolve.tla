------------------------------ MODULE SimpleSolve ------------------------------
(***************************************************************************)
(* One SIMPLE::solve() stage by stage: src/src/pressure_velocity/SIMPLE.cpp *)
(* with the device operators it may call,                                  *)
(* src/cuda/kernels/GpuSimpleDiscretizationCuda.cpp.                       *)
(*                                                                         *)
(* With the device discretization four fields have two copies, one on each *)
(* side of the bus, and which copy is current is left to the order of the  *)
(* stages.  A copy is modelled by the outer iteration that computed it,    *)
(* and a product of a stage (a predictor, a matrix, p') by the iteration   *)
(* and the non-orthogonal pass it belongs to.  `misread` collects every    *)
(* read of a copy that is not the one the algorithm asks for.              *)
(***************************************************************************)
EXTENDS Integers, FiniteSets

CONSTANTS
  MaxIterations,  \* SIMPLESettings::maxIterations
  Corrections,    \* the values nonOrthogonalCorrections is tried with
  Terms           \* the optional terms of the momentum equation the case asks for

ASSUME SimpleAssumption ==
  /\ MaxIterations \in Nat
  /\ Corrections \subseteq Nat
  /\ Terms \subseteq {"momentumSource", "buoyancy", "leastSquares"}

Fields == {"velocity", "pressure", "massFlux", "viscosity"}
Solution == Fields \ {"viscosity"}
Products == {"system", "predictor", "response", "predictedFlux", "pressureSystem", "correction"}
Sides == {"host", "device"}

\* No iteration computes an absent field, and no pass an absent product.
Absent == -1
NoStamp == <<Absent, Absent>>

\* What decides the path: the flags of SIMPLESettings, whether prepare()
\* accepts the mesh and the conditions, and the active turbulence model.
Configurations ==
  [discretization : BOOLEAN, prepared : BOOLEAN, mirror : BOOLEAN, fallback : BOOLEAN,
   pressureGpu : BOOLEAN, momentumGpu : BOOLEAN, laminar : BOOLEAN, rhieChow : BOOLEAN,
   corrections : Corrections]

VARIABLES
  config,
  stage,        \* where solve() is
  pass,         \* the pass of the non-orthogonal loop it is in, from 1
  iterations,   \* result.iterations
  finalStatus,
  copy,         \* [Sides -> [Fields -> iteration]]
  authority,    \* FieldAuthority of each field
  previous,     \* previousU, previousV, previousW, or Absent
  product,      \* [Sides -> [Products -> <<iteration, pass>>]]
  assembled,    \* the optional terms in the last momentum system
  counts,       \* [momentum, pressure : Nat]: momentumPredictorPasses, ...
  returned,     \* the three fields of the result
  misread       \* history: <<stage, what>>

simpleVars == <<config, stage, pass, iterations, finalStatus, copy, authority, previous, product,
                assembled, counts, returned, misread>>

--------------------------------------------------------------------------------
(* The paths, decided once before the loop. *)

UseDevice ==
  config.discretization /\ config.corrections <= 1 /\ config.prepared

ResidentPressure ==
  UseDevice /\ ~config.mirror /\ ~config.fallback /\ config.pressureGpu

\* Mutated form: the resident loop is taken under a transport model too.
ResidentLoopForAnyModel == ResidentPressure /\ config.momentumGpu

ResidentLoop ==
  ResidentPressure /\ config.laminar /\ config.momentumGpu

\* The side the operators run on.
Side == IF UseDevice THEN "device" ELSE "host"

LastPass == IF config.corrections > 1 THEN config.corrections ELSE 1

\* Mutated form: the first pass is counted only when it is the only one.
PredictorPassesWithoutFirst == IF config.corrections > 1 THEN config.corrections - 1 ELSE 1

\* Passes 2..N are counted when the last is done, and the first one last.
PredictorPasses == (IF config.corrections > 1 THEN config.corrections - 1 ELSE 0) + 1

\* Mutated form: one iteration too many.
LimitExceeded == iterations > MaxIterations

LimitReached == iterations = MaxIterations

Current == iterations + 1
Stamp(p) == <<Current, p>>

--------------------------------------------------------------------------------
(* What a stage reads.  The fields of the start of the iteration belong to  *)
(* the one before; the viscosity is the model's last one.                   *)

StaleFields(side, fields) ==
  {f \in fields : copy[side][f] # (IF f = "viscosity" THEN copy["host"][f] ELSE iterations)}

StaleProducts(side, products, p) == {x \in products : product[side][x] # Stamp(p)}

Reads(fields, products, p) ==
  misread' = misread \cup
    ({stage} \X (StaleFields(Side, fields) \cup StaleProducts(Side, products, p)))

\* p's stamp for each of the products a stage computes on a side.
Computes(side, products, p) ==
  product' = [product EXCEPT ![side] = [x \in Products |-> IF x \in products THEN Stamp(p) ELSE @[x]]]

\* A product that crosses the bus is on both sides.
ComputesBoth(products, p) ==
  product' = [s \in Sides |-> [x \in Products |->
                 IF x \in products THEN Stamp(p) ELSE product[s][x]]]

Break(s) ==
  /\ finalStatus' = s
  /\ stage' = "return"

--------------------------------------------------------------------------------
SimpleInit ==
  /\ config \in Configurations
  /\ stage = "validate"
  /\ pass = 1
  /\ iterations = 0
  /\ finalStatus = "MaxIterations"
  /\ copy = [s \in Sides |-> [f \in Fields |->
               IF s = "host" /\ f \in Solution THEN 0 ELSE Absent]]
  /\ authority = [f \in Fields |-> "HostOnly"]
  /\ previous = Absent
  /\ product = [s \in Sides |-> [x \in Products |-> NoStamp]]
  /\ assembled = {}
  /\ counts = [momentum |-> 0, pressure |-> 0]
  /\ returned = [f \in Solution |-> 0]
  /\ misread = {}

\* The settings, the sizes and the initial fields; an early return carries
\* the fields it was given.
ValidateSettings ==
  /\ stage = "validate"
  /\ \/ /\ stage' = "top"
        /\ UNCHANGED finalStatus
     \/ /\ finalStatus' \in {"InvalidConfiguration", "NonFiniteState"}
        /\ stage' = "returned"
  /\ UNCHANGED <<config, pass, iterations, copy, authority, previous, product, assembled, counts,
                 returned, misread>>

\* The loop's head: the limit, the cancellation check, previousU and previousV.
BeginIteration ==
  /\ stage = "top"
  /\ \/ /\ LimitReached
        /\ stage' = "return"
        /\ UNCHANGED <<finalStatus, previous>>
     \/ /\ ~LimitReached
        /\ Break("Cancelled")
        /\ UNCHANGED previous
     \/ /\ ~LimitReached
        /\ stage' = "turbulence"
        /\ previous' = IF ResidentLoop THEN Absent ELSE copy["host"].velocity
        /\ UNCHANGED finalStatus
  /\ pass' = 1
  /\ UNCHANGED <<config, iterations, copy, authority, product, assembled, counts, returned,
                 misread>>

\* correct() may fail under a transport model, which reads the host's
\* velocity (no model reads the pressure it is given); the laminar one
\* returns the same viscosity for the whole solve.
CorrectTurbulence ==
  /\ stage = "turbulence"
  /\ misread' = misread \cup
       (IF config.laminar THEN {} ELSE {stage} \X StaleFields("host", {"velocity"}))
  /\ \/ /\ ~config.laminar
        /\ Break("NonFiniteState")
        /\ UNCHANGED copy
     \/ /\ copy' = [copy EXCEPT !["host"].viscosity =
             IF config.laminar /\ iterations > 0 THEN @ ELSE Current]
        /\ stage' = IF UseDevice THEN "upload" ELSE "momentum"
        /\ UNCHANGED finalStatus
  /\ UNCHANGED <<config, pass, iterations, authority, previous, product, assembled, counts,
                 returned>>

\* uploadInitialState() once, then only a viscosity that changed.
UploadState ==
  /\ stage = "upload"
  /\ IF iterations = 0
     THEN /\ copy' = [copy EXCEPT !["device"] = copy["host"]]
          /\ authority' = [f \in Fields |-> "Synchronized"]
     ELSE /\ copy' = [copy EXCEPT !["device"].viscosity = copy["host"].viscosity]
          /\ authority' = [authority EXCEPT !["viscosity"] = "Synchronized"]
  /\ stage' = "momentum"
  /\ UNCHANGED <<config, pass, iterations, finalStatus, previous, product, assembled, counts,
                 returned, misread>>

--------------------------------------------------------------------------------
(* Momentum. *)

\* The relaxation's phiOld: the host's copy, or the resident velocity.
PreviousIsStale == ~ResidentLoop /\ previous # iterations

\* The device assembly is given no source, no buoyancy and no gradient scheme.
AssembledTerms == IF UseDevice THEN {} ELSE Terms

AssembleMomentum ==
  /\ stage = "momentum"
  /\ misread' = misread \cup ({stage} \X
       (StaleFields(Side, Fields) \cup (IF PreviousIsStale THEN {"previous"} ELSE {})))
  /\ \/ /\ ~ResidentLoop
        /\ Break("NonFiniteState")
        /\ UNCHANGED <<product, assembled>>
     \/ /\ IF UseDevice /\ ~ResidentLoop THEN ComputesBoth({"system"}, 1)
           ELSE Computes(Side, {"system"}, 1)
        /\ assembled' = AssembledTerms
        /\ stage' = "solveMomentum"
        /\ UNCHANGED finalStatus
  /\ UNCHANGED <<config, pass, iterations, copy, authority, previous, counts, returned>>

\* The mirror and the host's linear solver need the system on the host.
HostSystemMissing(x) == IF product["host"][x] # Stamp(1) THEN {x} ELSE {}

SolveMomentum ==
  /\ stage = "solveMomentum"
  /\ misread' = misread \cup ({stage} \X
       (StaleProducts(Side, {"system"}, 1)
          \cup (IF config.mirror \/ ~ResidentLoop THEN HostSystemMissing("system") ELSE {})
          \cup (IF PreviousIsStale THEN {"previous"} ELSE {})))
  /\ \/ /\ Break("MomentumFailure")
        /\ UNCHANGED <<product, pass, counts>>
     \/ /\ Break("NonFiniteState")
        /\ UNCHANGED <<product, pass, counts>>
     \/ /\ IF UseDevice /\ ~ResidentLoop THEN ComputesBoth({"predictor"}, 1)
           ELSE Computes(Side, {"predictor"}, 1)
        /\ pass' = 2
        /\ stage' = "momentumPass"
        /\ UNCHANGED <<finalStatus, counts>>
  /\ UNCHANGED <<config, iterations, copy, authority, previous, assembled, returned>>

\* Passes 2..N of runNonOrthogonalCorrectionPasses; the passes are counted
\* when the last one is done.
CorrectMomentum ==
  /\ stage = "momentumPass"
  /\ \/ /\ pass > config.corrections
        /\ counts' = [counts EXCEPT !.momentum = @ + PredictorPasses]
        /\ stage' = "flux"
        /\ UNCHANGED <<pass, finalStatus, product, assembled, misread>>
     \/ /\ pass <= config.corrections
        /\ misread' = misread \cup ({stage} \X
             (StaleFields("host", Fields) \cup StaleProducts("host", {"predictor"}, pass - 1)
                \cup (IF PreviousIsStale THEN {"previous"} ELSE {})))
        /\ \/ /\ \E s \in {"NonFiniteState", "MomentumFailure"} : Break(s)
              /\ UNCHANGED <<pass, product, assembled>>
           \/ /\ Computes("host", {"system", "predictor"}, pass)
              /\ assembled' = Terms
              /\ pass' = pass + 1
              /\ UNCHANGED <<stage, finalStatus>>
        /\ UNCHANGED counts
  /\ UNCHANGED <<config, iterations, copy, authority, previous, returned>>

\* d = V/aP of the last pass's matrices, then the flux of its predictor.
PredictFlux ==
  /\ stage = "flux"
  /\ Reads(IF config.rhieChow THEN {"pressure"} ELSE {}, {"system", "predictor"}, LastPass)
  /\ \/ /\ ~UseDevice
        /\ Break("NonFiniteState")
        /\ UNCHANGED product
     \/ /\ Computes(Side, {"response", "predictedFlux"}, LastPass)
        /\ stage' = "pressure"
        /\ UNCHANGED finalStatus
  /\ pass' = 1
  /\ UNCHANGED <<config, iterations, copy, authority, previous, assembled, counts, returned>>

--------------------------------------------------------------------------------
(* Pressure correction. *)

\* A matrix that is not finite is refused by SparseMatrix's constructor with
\* an exception this stage does not catch; the resident system is not looked at.
AssemblePressure ==
  /\ stage = "pressure"
  /\ Reads({}, {"response", "predictedFlux"}, LastPass)
  /\ \/ /\ ~UseDevice
        /\ Break("NonFiniteState")
        /\ UNCHANGED product
     \/ /\ ~ResidentPressure
        /\ finalStatus' = "Exception"
        /\ stage' = "returned"
        /\ UNCHANGED product
     \/ /\ IF UseDevice /\ ~ResidentPressure THEN ComputesBoth({"pressureSystem"}, 1)
           ELSE Computes(Side, {"pressureSystem"}, 1)
        /\ stage' = "solvePressure"
        /\ UNCHANGED finalStatus
  /\ UNCHANGED <<config, pass, iterations, copy, authority, previous, assembled, counts,
                 returned>>

\* The mirror also copies the host's pressure, stale or not.
SolvePressure ==
  /\ stage = "solvePressure"
  /\ misread' = misread \cup ({stage} \X
       (StaleProducts(Side, {"pressureSystem"}, 1)
          \cup (IF config.mirror \/ ~ResidentPressure
                THEN HostSystemMissing("pressureSystem") ELSE {})))
       \cup (IF config.mirror THEN {"mirror"} \X StaleFields("host", {"pressure"}) ELSE {})
  /\ \/ /\ \E s \in {"PressureCorrectionFailure", "NonFiniteState"} : Break(s)
        /\ UNCHANGED <<product, pass, counts>>
     \/ /\ IF UseDevice /\ ~ResidentPressure THEN ComputesBoth({"correction"}, 1)
           ELSE Computes(Side, {"correction"}, 1)
        /\ counts' = [counts EXCEPT !.pressure = @ + 1]
        /\ pass' = 2
        /\ stage' = "pressurePass"
        /\ UNCHANGED finalStatus
  /\ UNCHANGED <<config, iterations, copy, authority, previous, assembled, returned>>

\* Passes 2..N: the explicit part is that of the pass before.
CorrectPressure ==
  /\ stage = "pressurePass"
  /\ \/ /\ pass > config.corrections
        /\ stage' = "correct"
        /\ UNCHANGED <<pass, finalStatus, product, counts, misread>>
     \/ /\ pass <= config.corrections
        /\ misread' = misread \cup ({stage} \X
             (StaleProducts("host", {"response", "predictedFlux"}, LastPass)
                \cup StaleProducts("host", {"correction"}, pass - 1)))
        /\ \/ /\ \E s \in {"NonFiniteState", "PressureCorrectionFailure"} : Break(s)
              /\ UNCHANGED <<pass, product, counts>>
           \/ /\ finalStatus' = "Exception"
              /\ stage' = "returned"
              /\ UNCHANGED <<pass, product, counts>>
           \/ /\ Computes("host", {"pressureSystem", "correction"}, pass)
              /\ counts' = [counts EXCEPT !.pressure = @ + 1]
              /\ pass' = pass + 1
              /\ UNCHANGED <<stage, finalStatus>>
  /\ UNCHANGED <<config, iterations, copy, authority, previous, assembled, returned>>

--------------------------------------------------------------------------------
(* The corrections, the commit and the verdict. *)

\* The device carries its new fields forward at once: p, then the velocity,
\* which comes back unless the whole loop is resident, then the flux, which
\* always does.  The host's new fields wait for the check.
ApplyCorrections ==
  /\ stage = "correct"
  /\ misread' = misread \cup ({stage} \X
       (StaleFields(Side, {"pressure"})
          \cup StaleProducts(Side, {"predictor", "response", "predictedFlux", "pressureSystem",
                                    "correction"}, LastPass)))
  /\ IF UseDevice
     THEN /\ copy' = [copy EXCEPT !["device"] =
               [f \in Fields |-> IF f \in Solution THEN Current ELSE @[f]]]
          /\ authority' = [authority EXCEPT
               !["pressure"] = "DeviceOwned",
               !["velocity"] = IF ResidentLoop THEN "DeviceOwned" ELSE "Synchronized",
               !["massFlux"] = "Synchronized"]
     ELSE UNCHANGED <<copy, authority>>
  /\ stage' = "check"
  /\ UNCHANGED <<config, pass, iterations, finalStatus, previous, product, assembled, counts,
                 returned>>

\* Mutated form: a resident pressure leaves the velocity on the device too.
CommittedFluxOnly ==
  IF ResidentPressure THEN {"massFlux"}
  ELSE IF UseDevice THEN {"massFlux", "velocity"} ELSE Solution

\* What the host has new when the check passes.
Committed ==
  IF ResidentLoop THEN {"massFlux"}
  ELSE IF UseDevice THEN {"massFlux", "velocity"} ELSE Solution

CommitIteration ==
  /\ stage = "check"
  /\ \/ /\ Break("NonFiniteState")
        /\ UNCHANGED <<copy, iterations>>
     \/ /\ copy' = [copy EXCEPT !["host"] =
             [f \in Fields |-> IF f \in Committed THEN Current ELSE @[f]]]
        /\ iterations' = Current
        /\ stage' = "verdict"
        /\ UNCHANGED finalStatus
  /\ UNCHANGED <<config, pass, authority, previous, product, assembled, counts, returned, misread>>

\* monitor.record(), after the progress callback; OuterIterationMonitor has
\* how it decides.
Judge ==
  /\ stage = "verdict"
  /\ \/ \E s \in {"Converged", "Stagnated", "Diverging"} : Break(s)
     \/ /\ stage' = "top"
        /\ UNCHANGED finalStatus
  /\ UNCHANGED <<config, pass, iterations, copy, authority, previous, product, assembled, counts,
                 returned, misread>>

\* Mutated form: the download is skipped when the monitor ended the solve.
ReturnHostFields ==
  /\ stage = "return"
  /\ returned' = [f \in Solution |-> copy["host"][f]]
  /\ stage' = "returned"
  /\ UNCHANGED <<config, pass, iterations, finalStatus, copy, authority, previous, product,
                 assembled, counts, misread>>

\* The one download after the loop.
ReturnResult ==
  /\ stage = "return"
  /\ IF UseDevice /\ iterations > 0
     THEN /\ returned' = [f \in Solution |->
               copy[IF f = "massFlux" THEN "host" ELSE "device"][f]]
          /\ authority' = [authority EXCEPT !["velocity"] = "Synchronized",
                                            !["pressure"] = "Synchronized"]
     ELSE /\ returned' = [f \in Solution |-> copy["host"][f]]
          /\ UNCHANGED authority
  /\ stage' = "returned"
  /\ UNCHANGED <<config, pass, iterations, finalStatus, copy, previous, product, assembled, counts,
                 misread>>

\* solve() has given its caller the result, or an exception.
Returned == stage = "returned" /\ UNCHANGED simpleVars

SimpleStep ==
  \/ ValidateSettings \/ BeginIteration \/ CorrectTurbulence \/ UploadState
  \/ AssembleMomentum \/ SolveMomentum \/ CorrectMomentum \/ PredictFlux
  \/ AssemblePressure \/ SolvePressure \/ CorrectPressure
  \/ ApplyCorrections \/ CommitIteration \/ Judge \/ ReturnResult

SimpleNext == SimpleStep \/ Returned

\* The solve is one thread that nothing waits for: it keeps taking steps.
SimpleSpec == SimpleInit /\ [][SimpleNext]_simpleVars /\ WF_simpleVars(SimpleStep)

--------------------------------------------------------------------------------
(* Properties. *)

SimpleTypeOK ==
  /\ config \in Configurations
  /\ pass \in 1 .. LastPass + 1
  /\ iterations \in 0 .. MaxIterations
  /\ copy \in [Sides -> [Fields -> Absent .. MaxIterations]]
  /\ authority \in [Fields -> {"HostOnly", "DeviceOwned", "Synchronized"}]
  /\ assembled \subseteq Terms
  /\ returned \in [Solution -> 0 .. MaxIterations]

\* Whatever the path, no stage reads a field of another iteration than the
\* last, the result of another pass than the one its equations hold for, or a
\* system that never left the device.  The mirror, whose copies nothing reads
\* back, is the exception: its pressure is that of the start of the solve.
NoStaleRead == misread \subseteq {<<"mirror", "pressure">>}

\* What authority() tells between two iterations is true: a field is
\* Synchronized exactly when the host and the device hold the same values,
\* and an iteration leaves none of them with the host alone.
AuthorityIsTruthful ==
  stage \in {"top", "verdict"} /\ UseDevice /\ iterations > 0 =>
    \A f \in Fields :
      /\ authority[f] = "Synchronized" <=> copy["host"][f] = copy["device"][f]
      /\ authority[f] # "HostOnly"

\* "iterations * max(1, nonOrthogonalCorrections) each on a completed run"
\* (SIMPLEResult.hpp): the passes the result reports, when no iteration was
\* left unfinished.
PassesPerIteration ==
  stage = "returned" /\ finalStatus \in {"Converged", "Stagnated", "Diverging", "MaxIterations",
                                         "Cancelled"} =>
    counts = [momentum |-> iterations * LastPass, pressure |-> iterations * LastPass]

\* The solve is an OuterLoop: it stops, with a status its history allows, and
\* returns the fields of the last iteration it completed.
ReturnedFields ==
  IF stage # "returned" \/ finalStatus = "Exception" THEN iterations
  ELSE IF Cardinality({returned[f] : f \in Solution}) = 1 THEN returned["velocity"] ELSE -1

Loop == INSTANCE OuterLoop WITH
  completed <- iterations,
  fields <- ReturnedFields,
  status <- IF stage = "returned" THEN finalStatus ELSE "running",
  Torn <- -1

ImplementsOuterLoop == Loop!LoopSpec

\* "any operator that cannot reproduce the configuration makes the whole solve
\* fall back to the CPU discretization path" (SIMPLESettings.hpp): a momentum
\* system has every term the configuration asks for.
ConfigurationIsReproduced ==
  stage \in {"solveMomentum", "momentumPass", "flux"} => assembled = Terms
================================================================================
