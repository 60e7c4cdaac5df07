--------------------------- MODULE SimpleSolveProofs ---------------------------
(***************************************************************************)
(* Proofs about SimpleSolve, for any number of outer iterations, any       *)
(* number of non-orthogonal corrections and every combination of settings. *)
(* SolveInv is the inductive invariant.  StageInv relates the stage to the *)
(* counters and the status, FieldInv says which iteration each copy of a   *)
(* field is from, ProductInv which pass each product of a stage is from,   *)
(* CountInv what has been counted.  From it follow the properties the      *)
(* model checker checks and the safety part of the refinement.             *)
(***************************************************************************)
EXTENDS SimpleSolve, FiniteSetTheorems, TLAPS

AfterUpload == {"momentum", "solveMomentum", "momentumPass", "flux", "pressure",
                "solvePressure", "pressurePass", "correct"}
Inside == {"turbulence", "upload", "check"} \cup AfterUpload
Ending == {"return", "returned"}
Statuses == {"Converged", "Stagnated", "Diverging", "MaxIterations", "Cancelled",
             "MomentumFailure", "PressureCorrectionFailure", "NonFiniteState", "Exception",
             "InvalidConfiguration"}

\* The types, those of the products included.
TypeInv ==
  /\ SimpleTypeOK
  /\ stage \in {"validate", "top", "verdict"} \cup Inside \cup Ending
  /\ finalStatus \in Statuses
  /\ product \in [Sides -> [Products -> Int \X Int]]
  /\ counts \in [momentum : Int, pressure : Int]

\* Where an iteration can be, and what a status says about the solve it ended.
StageInv ==
  /\ stage \in Inside => iterations < MaxIterations
  /\ stage = "upload" => UseDevice
  /\ stage = "verdict" => iterations > 0
  /\ stage = "validate" => iterations = 0
  /\ stage \notin Ending => finalStatus = "MaxIterations"
  /\ stage = "return" => finalStatus \notin {"Exception", "InvalidConfiguration"}
  /\ stage \in Ending =>
       /\ finalStatus \in {"Converged", "Stagnated", "Diverging"} => iterations > 0
       /\ finalStatus = "MaxIterations" => iterations = MaxIterations
       /\ finalStatus \in {"Cancelled", "MomentumFailure", "PressureCorrectionFailure",
                           "Exception"} => iterations < MaxIterations
       /\ finalStatus = "InvalidConfiguration" => iterations = 0
  /\ stage \in {"momentumPass", "pressurePass"} => pass >= 2
  /\ stage \in Inside /\ ~ResidentLoop => previous = iterations

\* The iteration each copy of a field is from.  The host keeps the initial
\* fields of those the device has taken over.
FieldInv ==
  /\ copy["host"]["massFlux"] = iterations
  /\ copy["host"]["velocity"] = IF ResidentLoop THEN 0 ELSE iterations
  /\ copy["host"]["pressure"] = IF UseDevice THEN 0 ELSE iterations
  /\ UseDevice =>
       /\ stage \in AfterUpload \/ (iterations > 0 /\ stage \notin Ending \cup {"check"}) =>
            \A f \in Solution : copy["device"][f] = iterations
       /\ stage = "check" => \A f \in Solution : copy["device"][f] = iterations + 1
       /\ stage = "return" /\ iterations > 0 =>
            \/ \A f \in Solution : copy["device"][f] = iterations
            \/ /\ finalStatus = "NonFiniteState"
               /\ \A f \in Solution : copy["device"][f] = iterations + 1
       /\ \/ stage \in AfterUpload \cup {"check"}
          \/ iterations > 0 /\ stage \in {"top", "verdict"}
          => copy["device"]["viscosity"] = copy["host"]["viscosity"]

\* What authority() tells once a field has moved.
AuthorityInv ==
  UseDevice /\ stage \notin Ending =>
    /\ stage \in AfterUpload \cup {"check"} \/ iterations > 0 =>
         authority["viscosity"] = "Synchronized"
    /\ stage = "check" \/ iterations > 0 =>
         /\ authority["massFlux"] = "Synchronized"
         /\ authority["pressure"] = "DeviceOwned"
         /\ authority["velocity"] = IF ResidentLoop THEN "DeviceOwned" ELSE "Synchronized"

\* The pass, of this iteration, each product of a stage is from.
ProductInv ==
  /\ stage = "solveMomentum" =>
       /\ product[Side]["system"] = <<iterations + 1, 1>>
       /\ ~ResidentLoop => product["host"]["system"] = <<iterations + 1, 1>>
  /\ stage = "momentumPass" =>
       /\ product[Side]["system"] = <<iterations + 1, pass - 1>>
       /\ product[Side]["predictor"] = <<iterations + 1, pass - 1>>
  /\ stage = "flux" =>
       /\ product[Side]["system"] = <<iterations + 1, LastPass>>
       /\ product[Side]["predictor"] = <<iterations + 1, LastPass>>
  /\ stage \in {"pressure", "solvePressure", "pressurePass", "correct"} =>
       /\ product[Side]["predictor"] = <<iterations + 1, LastPass>>
       /\ product[Side]["response"] = <<iterations + 1, LastPass>>
       /\ product[Side]["predictedFlux"] = <<iterations + 1, LastPass>>
  /\ stage = "solvePressure" =>
       /\ product[Side]["pressureSystem"] = <<iterations + 1, 1>>
       /\ ~ResidentPressure => product["host"]["pressureSystem"] = <<iterations + 1, 1>>
  /\ stage = "pressurePass" =>
       /\ product[Side]["pressureSystem"] = <<iterations + 1, pass - 1>>
       /\ product[Side]["correction"] = <<iterations + 1, pass - 1>>
  /\ stage = "correct" =>
       /\ product[Side]["pressureSystem"] = <<iterations + 1, LastPass>>
       /\ product[Side]["correction"] = <<iterations + 1, LastPass>>

\* The passes counted: LastPass of each kind per completed iteration.
CountInv ==
  /\ stage \in {"validate", "top", "turbulence", "upload", "momentum", "solveMomentum",
                "momentumPass", "verdict"} => counts.momentum = iterations * LastPass
  /\ stage \in {"flux", "pressure", "solvePressure", "pressurePass", "correct", "check"} =>
       counts.momentum = iterations * LastPass + LastPass
  /\ stage \in {"validate", "top", "turbulence", "upload", "momentum", "solveMomentum",
                "momentumPass", "flux", "pressure", "solvePressure", "verdict"} =>
       counts.pressure = iterations * LastPass
  /\ stage = "pressurePass" => counts.pressure = iterations * LastPass + (pass - 1)
  /\ stage \in {"correct", "check"} => counts.pressure = iterations * LastPass + LastPass
  /\ stage \in Ending /\ finalStatus \in {"Converged", "Stagnated", "Diverging",
                                          "MaxIterations", "Cancelled"} =>
       /\ counts.momentum = iterations * LastPass
       /\ counts.pressure = iterations * LastPass

SolveInv ==
  /\ TypeInv
  /\ StageInv
  /\ FieldInv
  /\ AuthorityInv
  /\ ProductInv
  /\ CountInv
  /\ misread \subseteq {<<"mirror", "pressure">>}
  /\ stage # "returned" => \A f \in Solution : returned[f] = 0

--------------------------------------------------------------------------------
(* The paths are fixed for a solve. *)

\* The flags the paths are chosen by are those of the configuration.
LEMMA Paths ==
  ASSUME config' = config
  PROVE  /\ UseDevice' = UseDevice
         /\ ResidentPressure' = ResidentPressure
         /\ ResidentLoop' = ResidentLoop
         /\ Side' = Side
         /\ LastPass' = LastPass
  BY DEF UseDevice, ResidentPressure, ResidentLoop, Side, LastPass

\* The resident paths are paths of the device, and only the host has passes 2..N.
LEMMA Orders ==
  ASSUME SimpleTypeOK
  PROVE  /\ UseDevice \in BOOLEAN /\ ResidentLoop \in BOOLEAN /\ ResidentPressure \in BOOLEAN
         /\ ResidentLoop => ResidentPressure /\ config.laminar
         /\ ResidentPressure => UseDevice /\ ~config.mirror
         /\ Side \in Sides
         /\ Side = IF UseDevice THEN "device" ELSE "host"
         /\ LastPass \in Nat \ {0}
         /\ config.corrections \in Nat
         /\ config.corrections > 1 => ~UseDevice /\ LastPass = config.corrections
         /\ config.corrections <= 1 => LastPass = 1
         /\ PredictorPasses = LastPass
         /\ MaxIterations \in Nat /\ iterations \in Nat /\ iterations <= MaxIterations
<1>1. config \in Configurations /\ Corrections \subseteq Nat /\ MaxIterations \in Nat
  BY SimpleAssumption DEF SimpleTypeOK
<1>2. config.corrections \in Nat /\ config.laminar \in BOOLEAN /\ config.mirror \in BOOLEAN
      /\ config.discretization \in BOOLEAN /\ config.prepared \in BOOLEAN
      /\ config.fallback \in BOOLEAN /\ config.pressureGpu \in BOOLEAN
      /\ config.momentumGpu \in BOOLEAN
  BY <1>1 DEF Configurations
<1>3. UseDevice \in BOOLEAN /\ ResidentLoop \in BOOLEAN /\ ResidentPressure \in BOOLEAN
  BY DEF UseDevice, ResidentLoop, ResidentPressure
<1>4. /\ ResidentLoop => ResidentPressure /\ config.laminar
      /\ ResidentPressure => UseDevice /\ ~config.mirror
  BY DEF ResidentLoop, ResidentPressure
<1>5. /\ LastPass \in Nat \ {0}
      /\ config.corrections > 1 => LastPass = config.corrections
      /\ config.corrections <= 1 => LastPass = 1
      /\ PredictorPasses = LastPass
  BY <1>2 DEF LastPass, PredictorPasses
<1>6. config.corrections > 1 => ~UseDevice
  BY <1>2 DEF UseDevice
<1>7. Side \in Sides /\ Side = IF UseDevice THEN "device" ELSE "host"
  BY DEF Side, Sides
<1>8. iterations \in 0 .. MaxIterations
  BY DEF SimpleTypeOK
<1> QED
  BY <1>1, <1>2, <1>3, <1>4, <1>5, <1>6, <1>7, <1>8

\* What a stage computes on one side or on both has the stamp of the pass; the
\* rest stays.
LEMMA Stamps ==
  ASSUME TypeInv, NEW side \in Sides, NEW products \in SUBSET Products, NEW p \in Int,
         \/ Computes(side, products, p)
         \/ ComputesBoth(products, p)
  PROVE  /\ product' \in [Sides -> [Products -> Int \X Int]]
         /\ \A x \in products : product'[side][x] = <<iterations + 1, p>>
         /\ \A x \in Products \ products : product'[side][x] = product[side][x]
         /\ ComputesBoth(products, p) =>
              \A x \in products : product'["host"][x] = <<iterations + 1, p>>
<1>1. product \in [Sides -> [Products -> Int \X Int]] /\ "host" \in Sides
  BY DEF TypeInv, Sides
<1>2. Stamp(p) = <<iterations + 1, p>> /\ Stamp(p) \in Int \X Int
  BY Orders DEF TypeInv, Stamp, Current
<1>3. CASE Computes(side, products, p) /\ ~ComputesBoth(products, p)
  <2>1. product' = [product EXCEPT ![side] =
                      [x \in Products |-> IF x \in products THEN Stamp(p) ELSE @[x]]]
    BY <1>3 DEF Computes
  <2>2. [x \in Products |-> IF x \in products THEN Stamp(p) ELSE product[side][x]]
          \in [Products -> Int \X Int]
    BY <1>1, <1>2
  <2> QED
    BY <1>1, <1>2, <1>3, <2>1, <2>2
<1>4. CASE ComputesBoth(products, p)
  <2>1. product' = [s \in Sides |-> [x \in Products |->
                      IF x \in products THEN Stamp(p) ELSE product[s][x]]]
    BY <1>4 DEF ComputesBoth
  <2> QED
    BY <1>1, <1>2, <2>1
<1> QED
  BY <1>3, <1>4

\* No step changes the configuration.
LEMMA ConfigFixed == ASSUME SimpleStep PROVE config' = config
  BY DEF SimpleStep, ValidateSettings, BeginIteration, CorrectTurbulence, UploadState,
     AssembleMomentum, SolveMomentum, CorrectMomentum, PredictFlux, AssemblePressure,
     SolvePressure, CorrectPressure, ApplyCorrections, CommitIteration, Judge, ReturnResult

--------------------------------------------------------------------------------
(* One lemma per part of the invariant, one step per action. *)

\* Every step keeps the types.
LEMMA TypeStep == ASSUME SolveInv, SimpleStep PROVE TypeInv'
<1>1. TypeInv /\ SimpleTypeOK /\ config' = config
  BY ConfigFixed DEF SolveInv, TypeInv
<1>2. LastPass' = LastPass
  BY <1>1, Paths
<1> USE DEF Inside, Ending, Statuses, AfterUpload, Break
<1>4. CASE ValidateSettings
  BY <1>1, <1>2, <1>4, Orders DEF ValidateSettings, TypeInv, SimpleTypeOK
<1>5. CASE BeginIteration
  BY <1>1, <1>2, <1>5, Orders DEF BeginIteration, TypeInv, SimpleTypeOK
<1>6. CASE CorrectTurbulence
  <2>1. copy' \in [Sides -> [Fields -> Absent .. MaxIterations]]
    <3>1. Current \in Absent .. MaxIterations
      BY <1>1, <1>6, Orders DEF CorrectTurbulence, SolveInv, StageInv, Current, Absent
    <3> QED
      BY <1>1, <1>6, <3>1 DEF CorrectTurbulence, SimpleTypeOK, Sides, Fields
  <2> QED
    BY <1>1, <1>2, <1>6, <2>1 DEF CorrectTurbulence, TypeInv, SimpleTypeOK
<1>7. CASE UploadState
  <2>1. copy' \in [Sides -> [Fields -> Absent .. MaxIterations]]
    BY <1>1, <1>7 DEF UploadState, SimpleTypeOK, Sides, Fields
  <2>2. authority' \in [Fields -> {"HostOnly", "DeviceOwned", "Synchronized"}]
    BY <1>1, <1>7 DEF UploadState, SimpleTypeOK
  <2> QED
    BY <1>1, <1>2, <1>7, <2>1, <2>2 DEF UploadState, TypeInv, SimpleTypeOK
<1>8. CASE AssembleMomentum
  <2>1. product' \in [Sides -> [Products -> Int \X Int]]
    <3>1. {"system"} \in SUBSET Products /\ 1 \in Int /\ Side \in Sides
      BY <1>1, Orders DEF Products
    <3> QED
      BY <1>1, <1>8, <3>1, Stamps DEF AssembleMomentum, TypeInv
  <2>2. assembled' \subseteq Terms
    BY <1>1, <1>8 DEF AssembleMomentum, AssembledTerms, SimpleTypeOK
  <2> QED
    BY <1>1, <1>2, <1>8, <2>1, <2>2 DEF AssembleMomentum, TypeInv, SimpleTypeOK
<1>9. CASE SolveMomentum
  <2>1. product' \in [Sides -> [Products -> Int \X Int]]
    <3>1. {"predictor"} \in SUBSET Products /\ 1 \in Int /\ Side \in Sides
      BY <1>1, Orders DEF Products
    <3> QED
      BY <1>1, <1>9, <3>1, Stamps DEF SolveMomentum, TypeInv
  <2>2. pass' \in 1 .. LastPass + 1
    BY <1>1, <1>9, Orders DEF SolveMomentum, SimpleTypeOK
  <2> QED
    BY <1>1, <1>2, <1>9, <2>1, <2>2 DEF SolveMomentum, TypeInv, SimpleTypeOK
<1>10. CASE CorrectMomentum
  <2>1. product' \in [Sides -> [Products -> Int \X Int]]
    <3>1. {"system", "predictor"} \in SUBSET Products /\ "host" \in Sides /\ pass \in Int
      BY <1>1, Orders DEF Products, Sides, SimpleTypeOK
    <3> QED
      BY <1>1, <1>10, <3>1, Stamps DEF CorrectMomentum, TypeInv
  <2>2. pass' \in 1 .. LastPass + 1 /\ counts' \in [momentum : Int, pressure : Int]
    BY <1>1, <1>10, Orders DEF CorrectMomentum, SimpleTypeOK, TypeInv
  <2>3. assembled' \subseteq Terms
    BY <1>1, <1>10 DEF CorrectMomentum, SimpleTypeOK
  <2> QED
    BY <1>1, <1>2, <1>10, <2>1, <2>2, <2>3 DEF CorrectMomentum, TypeInv, SimpleTypeOK
<1>11. CASE PredictFlux
  <2>1. product' \in [Sides -> [Products -> Int \X Int]]
    <3>1. {"response", "predictedFlux"} \in SUBSET Products /\ LastPass \in Int /\ Side \in Sides
      BY <1>1, Orders DEF Products
    <3> QED
      BY <1>1, <1>11, <3>1, Stamps DEF PredictFlux, TypeInv
  <2> QED
    BY <1>1, <1>2, <1>11, <2>1, Orders DEF PredictFlux, TypeInv, SimpleTypeOK
<1>12. CASE AssemblePressure
  <2>1. product' \in [Sides -> [Products -> Int \X Int]]
    <3>1. {"pressureSystem"} \in SUBSET Products /\ 1 \in Int /\ Side \in Sides
      BY <1>1, Orders DEF Products
    <3> QED
      BY <1>1, <1>12, <3>1, Stamps DEF AssemblePressure, TypeInv
  <2> QED
    BY <1>1, <1>2, <1>12, <2>1 DEF AssemblePressure, TypeInv, SimpleTypeOK
<1>13. CASE SolvePressure
  <2>1. product' \in [Sides -> [Products -> Int \X Int]]
    <3>1. {"correction"} \in SUBSET Products /\ 1 \in Int /\ Side \in Sides
      BY <1>1, Orders DEF Products
    <3> QED
      BY <1>1, <1>13, <3>1, Stamps DEF SolvePressure, TypeInv
  <2>2. pass' \in 1 .. LastPass + 1 /\ counts' \in [momentum : Int, pressure : Int]
    BY <1>1, <1>13, Orders DEF SolvePressure, SimpleTypeOK, TypeInv
  <2> QED
    BY <1>1, <1>2, <1>13, <2>1, <2>2 DEF SolvePressure, TypeInv, SimpleTypeOK
<1>14. CASE CorrectPressure
  <2>1. product' \in [Sides -> [Products -> Int \X Int]]
    <3>1. {"pressureSystem", "correction"} \in SUBSET Products /\ "host" \in Sides /\ pass \in Int
      BY <1>1, Orders DEF Products, Sides, SimpleTypeOK
    <3> QED
      BY <1>1, <1>14, <3>1, Stamps DEF CorrectPressure, TypeInv
  <2>2. pass' \in 1 .. LastPass + 1 /\ counts' \in [momentum : Int, pressure : Int]
    BY <1>1, <1>14, Orders DEF CorrectPressure, SimpleTypeOK, TypeInv
  <2> QED
    BY <1>1, <1>2, <1>14, <2>1, <2>2 DEF CorrectPressure, TypeInv, SimpleTypeOK
<1>15. CASE ApplyCorrections
  <2>1. Current \in Absent .. MaxIterations
    BY <1>1, <1>15, Orders DEF ApplyCorrections, SolveInv, StageInv, Current, Absent
  <2>2. copy' \in [Sides -> [Fields -> Absent .. MaxIterations]]
    BY <1>1, <1>15, <2>1 DEF ApplyCorrections, SimpleTypeOK
  <2>3. authority' \in [Fields -> {"HostOnly", "DeviceOwned", "Synchronized"}]
    BY <1>1, <1>15 DEF ApplyCorrections, SimpleTypeOK
  <2> QED
    BY <1>1, <1>2, <1>15, <2>2, <2>3 DEF ApplyCorrections, TypeInv, SimpleTypeOK
<1>16. CASE CommitIteration
  <2>1. Current \in Absent .. MaxIterations /\ Current \in 0 .. MaxIterations
    BY <1>1, <1>16, Orders DEF CommitIteration, SolveInv, StageInv, Current, Absent
  <2>2. copy' \in [Sides -> [Fields -> Absent .. MaxIterations]]
    BY <1>1, <1>16, <2>1 DEF CommitIteration, SimpleTypeOK
  <2> QED
    BY <1>1, <1>2, <1>16, <2>1, <2>2 DEF CommitIteration, TypeInv, SimpleTypeOK
<1>17. CASE Judge
  BY <1>1, <1>2, <1>17 DEF Judge, TypeInv, SimpleTypeOK
<1>18. CASE ReturnResult
  <2>1. returned' \in [Solution -> 0 .. MaxIterations]
    <3>1. \A f \in Solution : copy["host"][f] \in 0 .. MaxIterations
      BY <1>1, Orders DEF SolveInv, FieldInv, Solution, Fields
    <3>2. UseDevice /\ iterations > 0 =>
            \A f \in Solution \ {"massFlux"} : copy["device"][f] \in 0 .. MaxIterations
      <4>1. copy["device"] \in [Fields -> Absent .. MaxIterations]
        BY <1>1 DEF SimpleTypeOK, Sides
      <4> QED
        BY <1>1, <1>18, <4>1, Orders DEF ReturnResult, SolveInv, FieldInv, Solution, Fields, Absent
    <3> QED
      BY <1>18, <3>1, <3>2 DEF ReturnResult
  <2>2. authority' \in [Fields -> {"HostOnly", "DeviceOwned", "Synchronized"}]
    BY <1>1, <1>18 DEF ReturnResult, SimpleTypeOK
  <2> QED
    BY <1>1, <1>2, <1>18, <2>1, <2>2 DEF ReturnResult, TypeInv, SimpleTypeOK
<1> QED
  BY <1>4, <1>5, <1>6, <1>7, <1>8, <1>9, <1>10, <1>11, <1>12, <1>13, <1>14, <1>15, <1>16,
     <1>17, <1>18 DEF SimpleStep

\* What a break says of the iterations is true when it is made.
LEMMA StageStep == ASSUME SolveInv, SimpleStep PROVE StageInv'
<1>1. TypeInv /\ SimpleTypeOK /\ config' = config
  BY ConfigFixed DEF SolveInv, TypeInv
<1>2. /\ UseDevice' = UseDevice /\ ResidentPressure' = ResidentPressure
      /\ ResidentLoop' = ResidentLoop /\ Side' = Side /\ LastPass' = LastPass
  BY <1>1, Paths
<1>3. StageInv
  BY DEF SolveInv
<1> USE DEF Inside, Ending, AfterUpload, Break
<1>4. CASE ValidateSettings
  BY <1>1, <1>2, <1>3, <1>4, Orders DEF ValidateSettings, StageInv, Current
<1>5. CASE BeginIteration
  <2>1. copy["host"]["velocity"] = IF ResidentLoop THEN 0 ELSE iterations
    BY DEF SolveInv, FieldInv
  <2> QED
    BY <1>1, <1>2, <1>3, <1>5, <2>1, Orders DEF BeginIteration, StageInv, LimitReached
<1>6. CASE CorrectTurbulence
  BY <1>1, <1>2, <1>3, <1>6, Orders DEF CorrectTurbulence, StageInv, Current
<1>7. CASE UploadState
  BY <1>1, <1>2, <1>3, <1>7, Orders DEF UploadState, StageInv, Current
<1>8. CASE AssembleMomentum
  BY <1>1, <1>2, <1>3, <1>8, Orders DEF AssembleMomentum, StageInv, Current
<1>9. CASE SolveMomentum
  BY <1>1, <1>2, <1>3, <1>9, Orders DEF SolveMomentum, StageInv, Current
<1>10. CASE CorrectMomentum
  <2>1. pass \in Int
    BY <1>1, Orders DEF SimpleTypeOK
  <2>2. CASE pass > config.corrections
    BY <1>1, <1>2, <1>3, <1>10, <2>1, <2>2, Orders DEF CorrectMomentum, StageInv
  <2>3. CASE pass <= config.corrections /\ stage' = "return"
    BY <1>1, <1>2, <1>3, <1>10, <2>1, <2>3, Orders DEF CorrectMomentum, StageInv
  <2>4. CASE pass <= config.corrections /\ pass' = pass + 1
    BY <1>1, <1>2, <1>3, <1>10, <2>1, <2>4, Orders DEF CorrectMomentum, StageInv
  <2> QED
    BY <1>1, <1>10, <2>1, <2>2, <2>3, <2>4, Orders DEF CorrectMomentum
<1>11. CASE PredictFlux
  BY <1>1, <1>2, <1>3, <1>11, Orders DEF PredictFlux, StageInv, Current
<1>12. CASE AssemblePressure
  BY <1>1, <1>2, <1>3, <1>12, Orders DEF AssemblePressure, StageInv, Current
<1>13. CASE SolvePressure
  BY <1>1, <1>2, <1>3, <1>13, Orders DEF SolvePressure, StageInv, Current
<1>14. CASE CorrectPressure
  <2>1. pass \in Int
    BY <1>1, Orders DEF SimpleTypeOK
  <2>2. CASE pass > config.corrections
    BY <1>1, <1>2, <1>3, <1>14, <2>1, <2>2, Orders DEF CorrectPressure, StageInv
  <2>3. CASE pass <= config.corrections /\ stage' \in Ending
    BY <1>1, <1>2, <1>3, <1>14, <2>1, <2>3, Orders DEF CorrectPressure, StageInv
  <2>4. CASE pass <= config.corrections /\ pass' = pass + 1
    BY <1>1, <1>2, <1>3, <1>14, <2>1, <2>4, Orders DEF CorrectPressure, StageInv
  <2> QED
    BY <1>1, <1>14, <2>1, <2>2, <2>3, <2>4, Orders DEF CorrectPressure
<1>15. CASE ApplyCorrections
  BY <1>1, <1>2, <1>3, <1>15, Orders DEF ApplyCorrections, StageInv, Current
<1>16. CASE CommitIteration
  BY <1>1, <1>2, <1>3, <1>16, Orders DEF CommitIteration, StageInv, Current
<1>17. CASE Judge
  BY <1>1, <1>2, <1>3, <1>17, Orders DEF Judge, StageInv, Current
<1>18. CASE ReturnResult
  BY <1>1, <1>2, <1>3, <1>18, Orders DEF ReturnResult, StageInv, Current
<1> QED
  BY <1>4, <1>5, <1>6, <1>7, <1>8, <1>9, <1>10, <1>11,
     <1>12, <1>13, <1>14, <1>15, <1>16, <1>17, <1>18 DEF SimpleStep

\* What is counted in an iteration adds up to LastPass of each kind.
LEMMA CountStep == ASSUME SolveInv, SimpleStep PROVE CountInv'
<1>1. TypeInv /\ SimpleTypeOK /\ config' = config
  BY ConfigFixed DEF SolveInv, TypeInv
<1>2. /\ UseDevice' = UseDevice /\ ResidentPressure' = ResidentPressure
      /\ ResidentLoop' = ResidentLoop /\ Side' = Side /\ LastPass' = LastPass
  BY <1>1, Paths
<1>3. CountInv /\ StageInv
  BY DEF SolveInv
<1> USE DEF Inside, Ending, AfterUpload, Break
<1>4. CASE ValidateSettings
  BY <1>1, <1>2, <1>3, <1>4, Orders DEF ValidateSettings, CountInv, StageInv, SimpleTypeOK, TypeInv
<1>5. CASE BeginIteration
  BY <1>1, <1>2, <1>3, <1>5, Orders DEF BeginIteration, CountInv, StageInv, SimpleTypeOK, TypeInv
<1>6. CASE CorrectTurbulence
  BY <1>1, <1>2, <1>3, <1>6, Orders DEF CorrectTurbulence, CountInv, StageInv, SimpleTypeOK, TypeInv
<1>7. CASE UploadState
  BY <1>1, <1>2, <1>3, <1>7, Orders DEF UploadState, CountInv, StageInv, SimpleTypeOK, TypeInv
<1>8. CASE AssembleMomentum
  BY <1>1, <1>2, <1>3, <1>8, Orders DEF AssembleMomentum, CountInv, StageInv, SimpleTypeOK, TypeInv
<1>9. CASE SolveMomentum
  BY <1>1, <1>2, <1>3, <1>9, Orders DEF SolveMomentum, CountInv, StageInv, SimpleTypeOK, TypeInv
<1>10. CASE CorrectMomentum
  BY <1>1, <1>2, <1>3, <1>10, Orders DEF CorrectMomentum, CountInv, StageInv, SimpleTypeOK, TypeInv
<1>11. CASE PredictFlux
  BY <1>1, <1>2, <1>3, <1>11, Orders DEF PredictFlux, CountInv, StageInv, SimpleTypeOK, TypeInv
<1>12. CASE AssemblePressure
  BY <1>1, <1>2, <1>3, <1>12, Orders DEF AssemblePressure, CountInv, StageInv, SimpleTypeOK, TypeInv
<1>13. CASE SolvePressure
  BY <1>1, <1>2, <1>3, <1>13, Orders DEF SolvePressure, CountInv, StageInv, SimpleTypeOK, TypeInv
<1>14. CASE CorrectPressure
  <2>1. /\ stage = "pressurePass" /\ pass \in Int /\ pass >= 2 /\ pass <= LastPass + 1
        /\ counts \in [momentum : Int, pressure : Int]
        /\ counts.momentum = iterations * LastPass + LastPass
        /\ counts.pressure = iterations * LastPass + (pass - 1)
        /\ iterations' = iterations /\ iterations * LastPass \in Int
    BY <1>1, <1>3, <1>14, Orders DEF CorrectPressure, CountInv, StageInv, SimpleTypeOK, TypeInv
  <2> DEFINE done == iterations * LastPass
  <2>2. CASE pass > config.corrections /\ stage' = "correct" /\ UNCHANGED counts
    <3>1. pass - 1 = LastPass
      BY <1>1, <2>1, <2>2, Orders
    <3> QED
      BY <1>2, <2>1, <2>2, <3>1 DEF CountInv
  <2>3. CASE /\ stage' \in Ending
             /\ finalStatus' \in {"NonFiniteState", "PressureCorrectionFailure", "Exception"}
    BY <2>3 DEF CountInv
  <2>4. CASE /\ stage' = "pressurePass" /\ pass' = pass + 1
             /\ counts' = [counts EXCEPT !.pressure = @ + 1]
    <3>1. /\ counts'.momentum = done + LastPass /\ counts'.pressure = done + (pass' - 1)
          /\ iterations' * LastPass' = done
      <4> HIDE DEF done
      <4>1. done \in Int
        BY <2>1 DEF done
      <4>2. counts.momentum = done + LastPass /\ counts.pressure = done + (pass - 1)
        BY <2>1 DEF done
      <4>3. iterations' * LastPass' = done
        BY <1>2, <2>1 DEF done
      <4> QED
        BY <1>1, <2>1, <2>4, <4>1, <4>2, <4>3, Orders
    <3> QED
      BY <1>2, <2>4, <3>1 DEF CountInv
  <2> QED
    BY <1>14, <2>1, <2>2, <2>3, <2>4 DEF CorrectPressure
<1>15. CASE ApplyCorrections
  BY <1>1, <1>2, <1>3, <1>15, Orders DEF ApplyCorrections, CountInv, StageInv, SimpleTypeOK, TypeInv
<1>16. CASE CommitIteration
  <2>1. (iterations + 1) * LastPass = iterations * LastPass + LastPass
    BY <1>1, Orders
  <2> QED
    BY <1>1, <1>2, <1>3, <1>16, <2>1, Orders DEF CommitIteration, CountInv, StageInv, Current
<1>17. CASE Judge
  BY <1>1, <1>2, <1>3, <1>17, Orders DEF Judge, CountInv, StageInv, SimpleTypeOK, TypeInv
<1>18. CASE ReturnResult
  BY <1>1, <1>2, <1>3, <1>18, Orders DEF ReturnResult, CountInv, StageInv, SimpleTypeOK, TypeInv
<1> QED
  BY <1>4, <1>5, <1>6, <1>7, <1>8, <1>9, <1>10, <1>11,
     <1>12, <1>13, <1>14, <1>15, <1>16, <1>17, <1>18 DEF SimpleStep

\* Every copy is the one the invariant names.
LEMMA FieldStep == ASSUME SolveInv, SimpleStep PROVE FieldInv'
<1>1. TypeInv /\ SimpleTypeOK /\ config' = config
  BY ConfigFixed DEF SolveInv, TypeInv
<1>2. /\ UseDevice' = UseDevice /\ ResidentPressure' = ResidentPressure
      /\ ResidentLoop' = ResidentLoop /\ Side' = Side /\ LastPass' = LastPass
  BY <1>1, Paths
<1>3. FieldInv /\ StageInv
  BY DEF SolveInv
<1> USE DEF Inside, Ending, AfterUpload, Break
<1>4. CASE ValidateSettings
  BY <1>1, <1>2, <1>3, <1>4, Orders DEF ValidateSettings, FieldInv, StageInv, SimpleTypeOK
<1>5. CASE BeginIteration
  BY <1>1, <1>2, <1>3, <1>5, Orders DEF BeginIteration, FieldInv, StageInv, SimpleTypeOK
<1>6. CASE CorrectTurbulence
  <2>1. \A s \in Sides : \A f \in Solution : copy'[s][f] = copy[s][f]
    BY <1>1, <1>6 DEF CorrectTurbulence, SimpleTypeOK, Sides, Fields, Solution
  <2>2. /\ copy'["host"]["massFlux"] = copy["host"]["massFlux"]
        /\ copy'["host"]["velocity"] = copy["host"]["velocity"]
        /\ copy'["host"]["pressure"] = copy["host"]["pressure"]
        /\ \A f \in Solution : copy'["device"][f] = copy["device"][f]
    BY <2>1 DEF Sides, Fields, Solution
  <2>3. /\ stage = "turbulence" /\ iterations' = iterations
        /\ \/ stage' = "return"
           \/ stage' = IF UseDevice THEN "upload" ELSE "momentum"
    BY <1>6 DEF CorrectTurbulence
  <2> QED
    BY <1>1, <1>2, <1>3, <2>2, <2>3, Orders DEF FieldInv
<1>7. CASE UploadState
  <2>1. /\ copy'["host"] = copy["host"]
        /\ copy'["device"]["viscosity"] = copy["host"]["viscosity"]
        /\ \A f \in Solution :
             copy'["device"][f] = IF iterations = 0 THEN copy["host"][f] ELSE copy["device"][f]
    BY <1>1, <1>7 DEF UploadState, SimpleTypeOK, Sides, Fields, Solution
  <2>2. stage = "upload" /\ stage' = "momentum" /\ iterations' = iterations /\ UseDevice
    BY <1>3, <1>7 DEF UploadState, StageInv
  <2>3. iterations = 0 => \A f \in Solution : copy["host"][f] = 0
    BY <1>3, <2>2 DEF FieldInv, Solution, Fields
  <2>4. iterations > 0 => \A f \in Solution : copy["device"][f] = iterations
    BY <1>3, <2>2 DEF FieldInv
  <2>5. \A f \in Solution : copy'["device"][f] = iterations
    BY <1>1, <2>1, <2>3, <2>4, Orders
  <2> QED
    BY <1>2, <1>3, <2>1, <2>2, <2>5 DEF FieldInv
<1>8. CASE AssembleMomentum
  BY <1>1, <1>2, <1>3, <1>8, Orders DEF AssembleMomentum, FieldInv, StageInv, SimpleTypeOK
<1>9. CASE SolveMomentum
  BY <1>1, <1>2, <1>3, <1>9, Orders DEF SolveMomentum, FieldInv, StageInv, SimpleTypeOK
<1>10. CASE CorrectMomentum
  BY <1>1, <1>2, <1>3, <1>10, Orders DEF CorrectMomentum, FieldInv, StageInv, SimpleTypeOK
<1>11. CASE PredictFlux
  BY <1>1, <1>2, <1>3, <1>11, Orders DEF PredictFlux, FieldInv, StageInv, SimpleTypeOK
<1>12. CASE AssemblePressure
  BY <1>1, <1>2, <1>3, <1>12, Orders DEF AssemblePressure, FieldInv, StageInv, SimpleTypeOK
<1>13. CASE SolvePressure
  BY <1>1, <1>2, <1>3, <1>13, Orders DEF SolvePressure, FieldInv, StageInv, SimpleTypeOK
<1>14. CASE CorrectPressure
  BY <1>1, <1>2, <1>3, <1>14, Orders DEF CorrectPressure, FieldInv, StageInv, SimpleTypeOK
<1>15. CASE ApplyCorrections
  <2>1. stage = "correct" /\ stage' = "check" /\ iterations' = iterations
    BY <1>15 DEF ApplyCorrections
  <2>2. CASE UseDevice
    <3>1. /\ copy'["host"] = copy["host"]
          /\ copy'["device"]["viscosity"] = copy["device"]["viscosity"]
          /\ \A f \in Solution : copy'["device"][f] = iterations + 1
      BY <1>1, <1>15, <2>2
      DEF ApplyCorrections, SimpleTypeOK, Sides, Fields, Solution, Current
    <3> QED
      BY <1>2, <1>3, <2>1, <3>1 DEF FieldInv
  <2>3. CASE ~UseDevice
    BY <1>2, <1>3, <1>15, <2>1, <2>3 DEF ApplyCorrections, FieldInv
  <2> QED
    BY <2>2, <2>3
<1>16. CASE CommitIteration
  <2>1. CASE stage' = "return" /\ UNCHANGED <<copy, iterations>>
    BY <1>2, <1>3, <1>16, <2>1 DEF CommitIteration, FieldInv
  <2>2. CASE /\ copy' = [copy EXCEPT !["host"] =
                  [f \in Fields |-> IF f \in Committed THEN Current ELSE @[f]]]
             /\ iterations' = Current
             /\ stage' = "verdict"
    <3>1. /\ copy'["device"] = copy["device"]
          /\ \A f \in Fields : copy'["host"][f] =
               IF f \in Committed THEN iterations + 1 ELSE copy["host"][f]
      BY <1>1, <2>2 DEF SimpleTypeOK, Sides, Current
    <3>2. /\ "massFlux" \in Committed /\ "viscosity" \notin Committed
          /\ "velocity" \in Committed <=> ~ResidentLoop
          /\ "pressure" \in Committed <=> ~UseDevice
      BY <1>1, Orders DEF Committed, Solution, Fields
    <3>3. /\ copy'["host"]["massFlux"] = iterations + 1
          /\ copy'["host"]["velocity"] = IF ResidentLoop THEN 0 ELSE iterations + 1
          /\ copy'["host"]["pressure"] = IF UseDevice THEN 0 ELSE iterations + 1
          /\ copy'["host"]["viscosity"] = copy["host"]["viscosity"]
      BY <1>3, <3>1, <3>2 DEF FieldInv, Fields
    <3>4. stage = "check" /\ iterations' = iterations + 1
      BY <1>16, <2>2 DEF CommitIteration, Current
    <3> QED
      BY <1>2, <1>3, <2>2, <3>1, <3>3, <3>4 DEF FieldInv
  <2> QED
    BY <1>16, <2>1, <2>2 DEF CommitIteration
<1>17. CASE Judge
  BY <1>1, <1>2, <1>3, <1>17, Orders DEF Judge, FieldInv, StageInv, SimpleTypeOK
<1>18. CASE ReturnResult
  BY <1>1, <1>2, <1>3, <1>18, Orders DEF ReturnResult, FieldInv, StageInv, SimpleTypeOK
<1> QED
  BY <1>4, <1>5, <1>6, <1>7, <1>8, <1>9, <1>10, <1>11,
     <1>12, <1>13, <1>14, <1>15, <1>16, <1>17, <1>18 DEF SimpleStep

\* The authority of a field changes with its copies.
LEMMA AuthorityStep == ASSUME SolveInv, SimpleStep PROVE AuthorityInv'
<1>1. TypeInv /\ SimpleTypeOK /\ config' = config
  BY ConfigFixed DEF SolveInv, TypeInv
<1>2. /\ UseDevice' = UseDevice /\ ResidentPressure' = ResidentPressure
      /\ ResidentLoop' = ResidentLoop /\ Side' = Side /\ LastPass' = LastPass
  BY <1>1, Paths
<1>3. AuthorityInv /\ StageInv
  BY DEF SolveInv
<1> USE DEF Inside, Ending, AfterUpload, Break
<1>4. CASE ValidateSettings
  BY <1>1, <1>2, <1>3, <1>4, Orders DEF ValidateSettings, AuthorityInv, StageInv, SimpleTypeOK
<1>5. CASE BeginIteration
  BY <1>1, <1>2, <1>3, <1>5, Orders DEF BeginIteration, AuthorityInv, StageInv, SimpleTypeOK
<1>6. CASE CorrectTurbulence
  BY <1>1, <1>2, <1>3, <1>6, Orders DEF CorrectTurbulence, AuthorityInv, StageInv, SimpleTypeOK
<1>7. CASE UploadState
  <2>1. /\ authority'["viscosity"] = "Synchronized"
        /\ iterations > 0 => \A f \in Solution : authority'[f] = authority[f]
    BY <1>1, <1>7, Orders DEF UploadState, SimpleTypeOK, Fields, Solution
  <2>2. stage = "upload" /\ stage' = "momentum" /\ iterations' = iterations
    BY <1>7 DEF UploadState
  <2>3. {"massFlux", "pressure", "velocity"} \subseteq Solution
    BY DEF Fields, Solution
  <2> QED
    BY <1>2, <1>3, <2>1, <2>2, <2>3 DEF AuthorityInv
<1>8. CASE AssembleMomentum
  BY <1>1, <1>2, <1>3, <1>8, Orders DEF AssembleMomentum, AuthorityInv, StageInv, SimpleTypeOK
<1>9. CASE SolveMomentum
  BY <1>1, <1>2, <1>3, <1>9, Orders DEF SolveMomentum, AuthorityInv, StageInv, SimpleTypeOK
<1>10. CASE CorrectMomentum
  BY <1>1, <1>2, <1>3, <1>10, Orders DEF CorrectMomentum, AuthorityInv, StageInv, SimpleTypeOK
<1>11. CASE PredictFlux
  BY <1>1, <1>2, <1>3, <1>11, Orders DEF PredictFlux, AuthorityInv, StageInv, SimpleTypeOK
<1>12. CASE AssemblePressure
  BY <1>1, <1>2, <1>3, <1>12, Orders DEF AssemblePressure, AuthorityInv, StageInv, SimpleTypeOK
<1>13. CASE SolvePressure
  BY <1>1, <1>2, <1>3, <1>13, Orders DEF SolvePressure, AuthorityInv, StageInv, SimpleTypeOK
<1>14. CASE CorrectPressure
  BY <1>1, <1>2, <1>3, <1>14, Orders DEF CorrectPressure, AuthorityInv, StageInv, SimpleTypeOK
<1>15. CASE ApplyCorrections
  <2>1. stage = "correct" /\ stage' = "check" /\ iterations' = iterations
    BY <1>15 DEF ApplyCorrections
  <2>2. UseDevice => /\ authority'["pressure"] = "DeviceOwned"
                     /\ authority'["velocity"] = IF ResidentLoop THEN "DeviceOwned"
                                                 ELSE "Synchronized"
                     /\ authority'["massFlux"] = "Synchronized"
                     /\ authority'["viscosity"] = authority["viscosity"]
    BY <1>1, <1>15 DEF ApplyCorrections, SimpleTypeOK, Fields
  <2> QED
    BY <1>2, <1>3, <2>1, <2>2 DEF AuthorityInv
<1>16. CASE CommitIteration
  BY <1>1, <1>2, <1>3, <1>16, Orders DEF CommitIteration, AuthorityInv, StageInv, SimpleTypeOK
<1>17. CASE Judge
  BY <1>1, <1>2, <1>3, <1>17, Orders DEF Judge, AuthorityInv, StageInv, SimpleTypeOK
<1>18. CASE ReturnResult
  BY <1>1, <1>2, <1>3, <1>18, Orders DEF ReturnResult, AuthorityInv, StageInv, SimpleTypeOK
<1> QED
  BY <1>4, <1>5, <1>6, <1>7, <1>8, <1>9, <1>10, <1>11,
     <1>12, <1>13, <1>14, <1>15, <1>16, <1>17, <1>18 DEF SimpleStep

\* Every product a later stage reads is of this iteration and of the right pass.
LEMMA ProductStep == ASSUME SolveInv, SimpleStep PROVE ProductInv'
<1>1. TypeInv /\ SimpleTypeOK /\ config' = config
  BY ConfigFixed DEF SolveInv, TypeInv
<1>2. /\ UseDevice' = UseDevice /\ ResidentPressure' = ResidentPressure
      /\ ResidentLoop' = ResidentLoop /\ Side' = Side /\ LastPass' = LastPass
  BY <1>1, Paths
<1>3. ProductInv /\ StageInv
  BY DEF SolveInv
<1> USE DEF Inside, Ending, AfterUpload, Break
<1>4. CASE ValidateSettings
  BY <1>1, <1>2, <1>3, <1>4, Orders DEF ValidateSettings, ProductInv
<1>5. CASE BeginIteration
  BY <1>1, <1>2, <1>3, <1>5, Orders DEF BeginIteration, ProductInv
<1>6. CASE CorrectTurbulence
  BY <1>1, <1>2, <1>3, <1>6, Orders DEF CorrectTurbulence, ProductInv
<1>7. CASE UploadState
  BY <1>1, <1>2, <1>3, <1>7, Orders DEF UploadState, ProductInv
<1>8. CASE AssembleMomentum
  <2>1. {"system"} \in SUBSET Products /\ Side \in Sides /\ 1 \in Int
    BY <1>1, Orders DEF Products
  <2>2. CASE stage' = "return"
    BY <2>2 DEF ProductInv
  <2>3. CASE /\ IF UseDevice /\ ~ResidentLoop THEN ComputesBoth({"system"}, 1)
                ELSE Computes(Side, {"system"}, 1)
             /\ stage' = "solveMomentum"
             /\ iterations' = iterations
    <3>1. product'[Side]["system"] = <<iterations + 1, 1>>
      BY <1>1, <2>1, <2>3, Stamps
    <3>2. ~ResidentLoop => product'["host"]["system"] = <<iterations + 1, 1>>
      BY <1>1, <2>1, <2>3, <3>1, Stamps, Orders
    <3> QED
      BY <1>2, <2>3, <3>1, <3>2 DEF ProductInv
  <2> QED
    BY <1>8, <2>2, <2>3 DEF AssembleMomentum
<1>9. CASE SolveMomentum
  <2>1. {"predictor"} \in SUBSET Products /\ Side \in Sides /\ 1 \in Int
        /\ "system" \in Products \ {"predictor"}
    BY <1>1, Orders DEF Products
  <2>2. CASE stage' = "return"
    BY <2>2 DEF ProductInv
  <2>3. CASE /\ IF UseDevice /\ ~ResidentLoop THEN ComputesBoth({"predictor"}, 1)
                ELSE Computes(Side, {"predictor"}, 1)
             /\ pass' = 2
             /\ stage' = "momentumPass"
             /\ iterations' = iterations
    <3>1. /\ product'[Side]["predictor"] = <<iterations + 1, 1>>
          /\ product'[Side]["system"] = product[Side]["system"]
      <4>1. /\ \A x \in {"predictor"} : product'[Side][x] = <<iterations + 1, 1>>
            /\ \A x \in Products \ {"predictor"} : product'[Side][x] = product[Side][x]
        BY <1>1, <2>1, <2>3, Stamps
      <4> QED
        BY <2>1, <4>1
    <3>2. product[Side]["system"] = <<iterations + 1, 1>>
      BY <1>3, <1>9 DEF SolveMomentum, ProductInv
    <3> QED
      BY <1>2, <2>3, <3>1, <3>2 DEF ProductInv
  <2> QED
    BY <1>9, <2>2, <2>3 DEF SolveMomentum
<1>10. CASE CorrectMomentum
  <2>1. {"system", "predictor"} \in SUBSET Products /\ "host" \in Sides /\ pass \in Int
        /\ stage = "momentumPass" /\ iterations' = iterations
        /\ pass >= 2 /\ pass <= LastPass + 1
        /\ product[Side]["system"] = <<iterations + 1, pass - 1>>
        /\ product[Side]["predictor"] = <<iterations + 1, pass - 1>>
    BY <1>1, <1>3, <1>10, Orders
    DEF Products, Sides, SimpleTypeOK, CorrectMomentum, StageInv, ProductInv
  <2>2. CASE stage' = "return"
    BY <2>2 DEF ProductInv
  <2>3. CASE pass > config.corrections /\ stage' = "flux" /\ UNCHANGED product
    <3>1. pass - 1 = LastPass
      BY <1>1, <2>1, <2>3, Orders
    <3> QED
      BY <1>2, <2>1, <2>3, <3>1 DEF ProductInv
  <2>4. CASE /\ pass <= config.corrections
             /\ Computes("host", {"system", "predictor"}, pass)
             /\ pass' = pass + 1
             /\ UNCHANGED stage
    <3>1. Side = "host"
      BY <1>1, <2>1, <2>4, Orders
    <3>2. /\ product'[Side]["system"] = <<iterations + 1, pass>>
          /\ product'[Side]["predictor"] = <<iterations + 1, pass>>
      <4> DEFINE computed == {"system", "predictor"}
      <4>1. /\ TypeInv /\ computed \in SUBSET Products /\ Side \in Sides /\ pass \in Int
            /\ Computes(Side, computed, pass) \/ ComputesBoth(computed, pass)
        BY <1>1, <2>1, <2>4, <3>1
      <4>2. /\ \A x \in computed : product'[Side][x] = <<iterations + 1, pass>>
            /\ \A x \in Products \ computed : product'[Side][x] = product[Side][x]
        <5> HIDE DEF computed
        <5> QED
          BY <4>1, Stamps
      <4> QED
        BY <2>1, <4>2
    <3>3. pass' - 1 = pass
      BY <2>1, <2>4
    <3> QED
      BY <1>2, <2>1, <2>4, <3>2, <3>3 DEF ProductInv
  <2> QED
    BY <1>10, <2>2, <2>3, <2>4 DEF CorrectMomentum
<1>11. CASE PredictFlux
  <2>1. {"response", "predictedFlux"} \in SUBSET Products /\ Side \in Sides /\ LastPass \in Int
        /\ "predictor" \in Products \ {"response", "predictedFlux"}
        /\ product[Side]["predictor"] = <<iterations + 1, LastPass>>
    BY <1>1, <1>3, <1>11, Orders DEF Products, PredictFlux, ProductInv
  <2>2. CASE stage' = "return"
    BY <2>2 DEF ProductInv
  <2>3. CASE /\ Computes(Side, {"response", "predictedFlux"}, LastPass)
             /\ stage' = "pressure"
             /\ iterations' = iterations
    <3>1. /\ product'[Side]["response"] = <<iterations + 1, LastPass>>
          /\ product'[Side]["predictedFlux"] = <<iterations + 1, LastPass>>
          /\ product'[Side]["predictor"] = product[Side]["predictor"]
      <4>1. /\ \A x \in {"response", "predictedFlux"} : product'[Side][x] = <<iterations + 1, LastPass>>
            /\ \A x \in Products \ {"response", "predictedFlux"} : product'[Side][x] = product[Side][x]
        BY <1>1, <2>1, <2>3, Stamps
      <4> QED
        BY <2>1, <4>1
    <3> QED
      BY <1>2, <2>1, <2>3, <3>1 DEF ProductInv
  <2> QED
    BY <1>11, <2>2, <2>3 DEF PredictFlux
<1>12. CASE AssemblePressure
  <2>1. {"pressureSystem"} \in SUBSET Products /\ Side \in Sides /\ 1 \in Int
        /\ {"predictor", "response", "predictedFlux"} \subseteq Products \ {"pressureSystem"}
        /\ product[Side]["predictor"] = <<iterations + 1, LastPass>>
        /\ product[Side]["response"] = <<iterations + 1, LastPass>>
        /\ product[Side]["predictedFlux"] = <<iterations + 1, LastPass>>
    BY <1>1, <1>3, <1>12, Orders DEF Products, AssemblePressure, ProductInv
  <2>2. CASE stage' \in Ending
    BY <2>2 DEF ProductInv
  <2>3. CASE /\ IF UseDevice /\ ~ResidentPressure THEN ComputesBoth({"pressureSystem"}, 1)
                ELSE Computes(Side, {"pressureSystem"}, 1)
             /\ stage' = "solvePressure"
             /\ iterations' = iterations
    <3>1. /\ product'[Side]["pressureSystem"] = <<iterations + 1, 1>>
          /\ \A x \in {"predictor", "response", "predictedFlux"} :
               product'[Side][x] = product[Side][x]
      <4> DEFINE computed == {"pressureSystem"}
      <4>1. /\ TypeInv /\ computed \in SUBSET Products /\ Side \in Sides /\ 1 \in Int
            /\ Computes(Side, computed, 1) \/ ComputesBoth(computed, 1)
        BY <1>1, <2>1, <2>3
      <4>2. /\ \A x \in computed : product'[Side][x] = <<iterations + 1, 1>>
            /\ \A x \in Products \ computed : product'[Side][x] = product[Side][x]
        <5> HIDE DEF computed
        <5> QED
          BY <4>1, Stamps
      <4> QED
        BY <2>1, <4>2
    <3>2. ~ResidentPressure => product'["host"]["pressureSystem"] = <<iterations + 1, 1>>
      BY <1>1, <2>1, <2>3, <3>1, Stamps, Orders
    <3> QED
      BY <1>2, <2>1, <2>3, <3>1, <3>2 DEF ProductInv
  <2> QED
    BY <1>12, <2>2, <2>3 DEF AssemblePressure
<1>13. CASE SolvePressure
  <2>1. {"correction"} \in SUBSET Products /\ Side \in Sides /\ 1 \in Int
        /\ {"predictor", "response", "predictedFlux", "pressureSystem"}
             \subseteq Products \ {"correction"}
        /\ product[Side]["predictor"] = <<iterations + 1, LastPass>>
        /\ product[Side]["response"] = <<iterations + 1, LastPass>>
        /\ product[Side]["predictedFlux"] = <<iterations + 1, LastPass>>
        /\ product[Side]["pressureSystem"] = <<iterations + 1, 1>>
    BY <1>1, <1>3, <1>13, Orders DEF Products, SolvePressure, ProductInv
  <2>2. CASE stage' = "return"
    BY <2>2 DEF ProductInv
  <2>3. CASE /\ IF UseDevice /\ ~ResidentPressure THEN ComputesBoth({"correction"}, 1)
                ELSE Computes(Side, {"correction"}, 1)
             /\ pass' = 2
             /\ stage' = "pressurePass"
             /\ iterations' = iterations
    <3>1. /\ product'[Side]["correction"] = <<iterations + 1, 1>>
          /\ \A x \in {"predictor", "response", "predictedFlux", "pressureSystem"} :
               product'[Side][x] = product[Side][x]
      <4> DEFINE computed == {"correction"}
      <4>1. /\ TypeInv /\ computed \in SUBSET Products /\ Side \in Sides /\ 1 \in Int
            /\ Computes(Side, computed, 1) \/ ComputesBoth(computed, 1)
        BY <1>1, <2>1, <2>3
      <4>2. /\ \A x \in computed : product'[Side][x] = <<iterations + 1, 1>>
            /\ \A x \in Products \ computed : product'[Side][x] = product[Side][x]
        <5> HIDE DEF computed
        <5> QED
          BY <4>1, Stamps
      <4> QED
        BY <2>1, <4>2
    <3> QED
      BY <1>2, <2>1, <2>3, <3>1 DEF ProductInv
  <2> QED
    BY <1>13, <2>2, <2>3 DEF SolvePressure
<1>14. CASE CorrectPressure
  <2>1. {"pressureSystem", "correction"} \in SUBSET Products /\ "host" \in Sides /\ pass \in Int
        /\ {"predictor", "response", "predictedFlux"}
             \subseteq Products \ {"pressureSystem", "correction"}
        /\ stage = "pressurePass" /\ iterations' = iterations
        /\ pass >= 2 /\ pass <= LastPass + 1
        /\ product[Side]["predictor"] = <<iterations + 1, LastPass>>
        /\ product[Side]["response"] = <<iterations + 1, LastPass>>
        /\ product[Side]["predictedFlux"] = <<iterations + 1, LastPass>>
        /\ product[Side]["pressureSystem"] = <<iterations + 1, pass - 1>>
        /\ product[Side]["correction"] = <<iterations + 1, pass - 1>>
    BY <1>1, <1>3, <1>14, Orders
    DEF Products, Sides, SimpleTypeOK, CorrectPressure, StageInv, ProductInv
  <2>2. CASE stage' \in Ending
    BY <2>2 DEF ProductInv
  <2>3. CASE pass > config.corrections /\ stage' = "correct" /\ UNCHANGED product
    <3>1. pass - 1 = LastPass
      BY <1>1, <2>1, <2>3, Orders
    <3> QED
      BY <1>2, <2>1, <2>3, <3>1 DEF ProductInv
  <2>4. CASE /\ pass <= config.corrections
             /\ Computes("host", {"pressureSystem", "correction"}, pass)
             /\ pass' = pass + 1
             /\ UNCHANGED stage
    <3>1. Side = "host"
      BY <1>1, <2>1, <2>4, Orders
    <3>2. /\ product'[Side]["pressureSystem"] = <<iterations + 1, pass>>
          /\ product'[Side]["correction"] = <<iterations + 1, pass>>
          /\ \A x \in {"predictor", "response", "predictedFlux"} :
               product'[Side][x] = product[Side][x]
      <4>1. /\ \A x \in {"pressureSystem", "correction"} : product'[Side][x] = <<iterations + 1, pass>>
            /\ \A x \in Products \ {"pressureSystem", "correction"} : product'[Side][x] = product[Side][x]
        BY <1>1, <2>1, <2>4, <3>1, Stamps
      <4> QED
        BY <2>1, <4>1
    <3>3. pass' - 1 = pass
      BY <2>1, <2>4
    <3> QED
      BY <1>2, <2>1, <2>4, <3>2, <3>3 DEF ProductInv
  <2> QED
    BY <1>14, <2>2, <2>3, <2>4 DEF CorrectPressure
<1>15. CASE ApplyCorrections
  BY <1>1, <1>2, <1>3, <1>15, Orders DEF ApplyCorrections, ProductInv
<1>16. CASE CommitIteration
  BY <1>1, <1>2, <1>3, <1>16, Orders DEF CommitIteration, ProductInv
<1>17. CASE Judge
  BY <1>1, <1>2, <1>3, <1>17, Orders DEF Judge, ProductInv
<1>18. CASE ReturnResult
  BY <1>1, <1>2, <1>3, <1>18, Orders DEF ReturnResult, ProductInv
<1> QED
  BY <1>4, <1>5, <1>6, <1>7, <1>8, <1>9, <1>10, <1>11,
     <1>12, <1>13, <1>14, <1>15, <1>16, <1>17, <1>18 DEF SimpleStep

\* No stage reads anything stale; the mirror may copy an old pressure.
LEMMA MisreadStep == ASSUME SolveInv, SimpleStep PROVE misread' \subseteq {<<"mirror", "pressure">>}
<1>1. TypeInv /\ SimpleTypeOK /\ config' = config
  BY ConfigFixed DEF SolveInv, TypeInv
<1>3. FieldInv /\ ProductInv /\ StageInv /\ misread \subseteq {<<"mirror", "pressure">>}
  BY DEF SolveInv
<1> USE DEF Inside, Ending, AfterUpload
<1>4. CASE ValidateSettings
  BY <1>3, <1>4 DEF ValidateSettings
<1>5. CASE BeginIteration
  BY <1>3, <1>5 DEF BeginIteration
<1>6. CASE CorrectTurbulence
  <2>1. ~config.laminar => StaleFields("host", {"velocity"}) = {}
    BY <1>1, <1>3, Orders DEF StaleFields, FieldInv
  <2> QED
    BY <1>3, <1>6, <2>1 DEF CorrectTurbulence
<1>7. CASE UploadState
  BY <1>3, <1>7 DEF UploadState
<1>8. CASE AssembleMomentum
  <2>1. StaleFields(Side, Fields) = {}
    <3>1. \A f \in Solution : copy[Side][f] = iterations
      BY <1>1, <1>3, <1>8, Orders DEF AssembleMomentum, FieldInv, Solution, Fields
    <3>2. copy[Side]["viscosity"] = copy["host"]["viscosity"]
      BY <1>1, <1>3, <1>8, Orders DEF AssembleMomentum, FieldInv
    <3> QED
      BY <3>1, <3>2 DEF StaleFields, Solution
  <2>2. ~PreviousIsStale
    BY <1>3, <1>8 DEF AssembleMomentum, PreviousIsStale, StageInv
  <2> QED
    BY <1>3, <1>8, <2>1, <2>2 DEF AssembleMomentum
<1>9. CASE SolveMomentum
  <2>1. /\ product[Side]["system"] = <<iterations + 1, 1>>
        /\ ~ResidentLoop => product["host"]["system"] = <<iterations + 1, 1>>
    BY <1>3, <1>9 DEF SolveMomentum, ProductInv
  <2>2. StaleProducts(Side, {"system"}, 1) = {}
    BY <2>1 DEF StaleProducts, Stamp, Current
  <2>3. config.mirror \/ ~ResidentLoop => HostSystemMissing("system") = {}
    BY <1>1, <2>1, Orders DEF HostSystemMissing, Stamp, Current
  <2>4. ~PreviousIsStale
    BY <1>3, <1>9 DEF SolveMomentum, PreviousIsStale, StageInv
  <2> QED
    BY <1>3, <1>9, <2>2, <2>3, <2>4 DEF SolveMomentum
<1>10. CASE CorrectMomentum
  <2>1. CASE pass > config.corrections /\ UNCHANGED misread
    BY <1>3, <2>1
  <2>2. CASE pass <= config.corrections
    <3>1. /\ Side = "host" /\ ~UseDevice
          /\ stage = "momentumPass" /\ pass \in Int
      BY <1>1, <1>3, <1>10, <2>2, Orders DEF CorrectMomentum, StageInv, SimpleTypeOK
    <3>2. StaleFields("host", Fields) = {}
      BY <1>1, <1>3, <3>1, Orders DEF StaleFields, FieldInv, Fields
    <3>3. StaleProducts("host", {"predictor"}, pass - 1) = {}
      BY <1>3, <3>1 DEF StaleProducts, ProductInv, Stamp, Current
    <3>4. ~PreviousIsStale
      BY <1>3, <3>1 DEF PreviousIsStale, StageInv
    <3>5. misread' = misread \cup ({stage} \X
            (StaleFields("host", Fields) \cup StaleProducts("host", {"predictor"}, pass - 1)
               \cup (IF PreviousIsStale THEN {"previous"} ELSE {})))
      BY <1>1, <1>10, <2>2, <3>1, Orders DEF CorrectMomentum
    <3> QED
      BY <1>3, <3>2, <3>3, <3>4, <3>5
  <2> QED
    BY <1>10, <2>1, <2>2 DEF CorrectMomentum
<1>11. CASE PredictFlux
  <2>1. stage = "flux"
    BY <1>11 DEF PredictFlux
  <2>2. StaleProducts(Side, {"system", "predictor"}, LastPass) = {}
    BY <1>3, <2>1 DEF StaleProducts, ProductInv, Stamp, Current
  <2>3. StaleFields(Side, IF config.rhieChow THEN {"pressure"} ELSE {}) = {}
    <3>1. copy[Side]["pressure"] = iterations
      BY <1>1, <1>3, <2>1, Orders DEF FieldInv, Solution, Fields
    <3> QED
      BY <3>1 DEF StaleFields
  <2> QED
    BY <1>3, <1>11, <2>2, <2>3 DEF PredictFlux, Reads
<1>12. CASE AssemblePressure
  <2>1. stage = "pressure"
    BY <1>12 DEF AssemblePressure
  <2>2. StaleProducts(Side, {"response", "predictedFlux"}, LastPass) = {}
    BY <1>3, <2>1 DEF StaleProducts, ProductInv, Stamp, Current
  <2>3. StaleFields(Side, {}) = {}
    BY DEF StaleFields
  <2> QED
    BY <1>3, <1>12, <2>2, <2>3 DEF AssemblePressure, Reads
<1>13. CASE SolvePressure
  <2>1. /\ product[Side]["pressureSystem"] = <<iterations + 1, 1>>
        /\ ~ResidentPressure => product["host"]["pressureSystem"] = <<iterations + 1, 1>>
    BY <1>3, <1>13 DEF SolvePressure, ProductInv
  <2>2. StaleProducts(Side, {"pressureSystem"}, 1) = {}
    BY <2>1 DEF StaleProducts, Stamp, Current
  <2>3. config.mirror \/ ~ResidentPressure => HostSystemMissing("pressureSystem") = {}
    BY <1>1, <2>1, Orders DEF HostSystemMissing, Stamp, Current
  <2>4. StaleFields("host", {"pressure"}) \subseteq {"pressure"}
    BY DEF StaleFields
  <2> QED
    BY <1>3, <1>13, <2>2, <2>3, <2>4 DEF SolvePressure
<1>14. CASE CorrectPressure
  <2>1. CASE pass > config.corrections /\ UNCHANGED misread
    BY <1>3, <2>1
  <2>2. CASE pass <= config.corrections
    <3>1. /\ Side = "host"
          /\ stage = "pressurePass" /\ pass \in Int
      BY <1>1, <1>3, <1>14, <2>2, Orders DEF CorrectPressure, StageInv, SimpleTypeOK
    <3>2. StaleProducts("host", {"response", "predictedFlux"}, LastPass) = {}
      BY <1>3, <3>1 DEF StaleProducts, ProductInv, Stamp, Current
    <3>3. StaleProducts("host", {"correction"}, pass - 1) = {}
      BY <1>3, <3>1 DEF StaleProducts, ProductInv, Stamp, Current
    <3>4. misread' = misread \cup ({stage} \X
            (StaleProducts("host", {"response", "predictedFlux"}, LastPass)
               \cup StaleProducts("host", {"correction"}, pass - 1)))
      BY <1>1, <1>14, <2>2, <3>1, Orders DEF CorrectPressure
    <3> QED
      BY <1>3, <3>2, <3>3, <3>4
  <2> QED
    BY <1>14, <2>1, <2>2 DEF CorrectPressure
<1>15. CASE ApplyCorrections
  <2>1. stage = "correct"
    BY <1>15 DEF ApplyCorrections
  <2>2. StaleProducts(Side, {"predictor", "response", "predictedFlux", "pressureSystem",
                             "correction"}, LastPass) = {}
    BY <1>3, <2>1 DEF StaleProducts, ProductInv, Stamp, Current
  <2>3. StaleFields(Side, {"pressure"}) = {}
    <3>1. copy[Side]["pressure"] = iterations
      BY <1>1, <1>3, <2>1, Orders DEF FieldInv, Solution, Fields
    <3> QED
      BY <3>1 DEF StaleFields
  <2> QED
    BY <1>3, <1>15, <2>2, <2>3 DEF ApplyCorrections
<1>16. CASE CommitIteration
  BY <1>3, <1>16 DEF CommitIteration
<1>17. CASE Judge
  BY <1>3, <1>17 DEF Judge
<1>18. CASE ReturnResult
  BY <1>3, <1>18 DEF ReturnResult
<1> QED
  BY <1>4, <1>5, <1>6, <1>7, <1>8, <1>9, <1>10, <1>11,
     <1>12, <1>13, <1>14, <1>15, <1>16, <1>17, <1>18 DEF SimpleStep

\* Only the two ends of a solve write the result.
LEMMA ReturnedStep ==
  ASSUME SolveInv, SimpleStep
  PROVE  stage' # "returned" => \A f \in Solution : returned'[f] = 0
  BY DEF SolveInv, SimpleStep, ValidateSettings, BeginIteration, CorrectTurbulence, UploadState,
     AssembleMomentum, SolveMomentum, CorrectMomentum, PredictFlux, AssemblePressure,
     SolvePressure, CorrectPressure, ApplyCorrections, CommitIteration, Judge, ReturnResult

--------------------------------------------------------------------------------
(* The invariant. *)

\* The initial states satisfy the invariant.
LEMMA SolveInit == SimpleInit => SolveInv
<1> SUFFICES ASSUME SimpleInit PROVE SolveInv
  OBVIOUS
<1> USE DEF SimpleInit, Inside, Ending, AfterUpload, Statuses
<1>1. MaxIterations \in Nat /\ config.corrections \in Nat
  BY SimpleAssumption DEF Configurations
<1>2. LastPass \in Nat \ {0}
  BY <1>1 DEF LastPass
<1>3. TypeInv
  <2>1. copy \in [Sides -> [Fields -> Absent .. MaxIterations]]
    <3>1. 0 \in Absent .. MaxIterations /\ Absent \in Absent .. MaxIterations
      BY <1>1 DEF Absent
    <3> QED
      BY <3>1
  <2>2. product \in [Sides -> [Products -> Int \X Int]]
    BY DEF NoStamp, Absent
  <2>3. pass \in 1 .. LastPass + 1 /\ iterations \in 0 .. MaxIterations
    BY <1>1, <1>2
  <2>4. returned \in [Solution -> 0 .. MaxIterations]
    BY <1>1
  <2> QED
    BY <2>1, <2>2, <2>3, <2>4 DEF TypeInv, SimpleTypeOK
<1>4. StageInv /\ AuthorityInv /\ ProductInv
  BY DEF StageInv, AuthorityInv, ProductInv
<1>5. FieldInv
  BY DEF FieldInv, Sides, Fields, Solution
<1>6. CountInv
  BY <1>2 DEF CountInv
<1> QED
  BY <1>3, <1>4, <1>5, <1>6 DEF SolveInv

\* Every step of the solve keeps it.
LEMMA SolveNext == SolveInv /\ [SimpleNext]_simpleVars => SolveInv'
<1> SUFFICES ASSUME SolveInv, [SimpleNext]_simpleVars PROVE SolveInv'
  OBVIOUS
<1>1. CASE SimpleStep
  BY <1>1, TypeStep, StageStep, CountStep, FieldStep, AuthorityStep, ProductStep, MisreadStep,
     ReturnedStep DEF SolveInv
<1>2. CASE UNCHANGED simpleVars
  <2>1. config' = config
    BY <1>2 DEF simpleVars
  <2>2. /\ UseDevice' = UseDevice /\ ResidentPressure' = ResidentPressure
        /\ ResidentLoop' = ResidentLoop /\ Side' = Side /\ LastPass' = LastPass
    BY <2>1, Paths
  <2>3. TypeInv'
    BY <1>2, <2>2 DEF simpleVars, SolveInv, TypeInv, SimpleTypeOK
  <2>4. StageInv' /\ CountInv'
    BY <1>2, <2>2 DEF simpleVars, SolveInv, StageInv, CountInv
  <2>5. FieldInv' /\ AuthorityInv'
    BY <1>2, <2>2 DEF simpleVars, SolveInv, FieldInv, AuthorityInv
  <2>6. ProductInv'
    BY <1>2, <2>2 DEF simpleVars, SolveInv, ProductInv
  <2> QED
    BY <1>2, <2>3, <2>4, <2>5, <2>6 DEF simpleVars, SolveInv
<1> QED
  BY <1>1, <1>2 DEF SimpleNext, Returned

\* The strengthened invariant holds in every reachable state.
THEOREM SolveInvariant == SimpleSpec => []SolveInv
  BY SolveInit, SolveNext, PTL DEF SimpleSpec

\* The variables of a solve have their types; no pass counter runs away and no
\* iteration beyond the limit is begun (SIMPLE.cpp).
THEOREM SimpleTypes == SimpleSpec => []SimpleTypeOK
<1>1. SolveInv => SimpleTypeOK
  BY DEF SolveInv, TypeInv
<1> QED
  BY <1>1, SolveInvariant, PTL

\* On every path, for any number of iterations and of non-orthogonal corrections:
\* no stage reads a copy or a product of another iteration or pass than the one its
\* equations are about (SIMPLE.cpp, GpuSimpleDiscretizationCuda.cpp).
THEOREM NothingStaleIsRead == SimpleSpec => []NoStaleRead
<1>1. SolveInv => NoStaleRead
  BY DEF SolveInv, NoStaleRead
<1> QED
  BY <1>1, SolveInvariant, PTL

\* Between two iterations authority() tells the truth about every field
\* (GpuSimpleDiscretizationCuda.cpp).
THEOREM AuthorityTellsTheTruth == SimpleSpec => []AuthorityIsTruthful
<1>1. SolveInv => AuthorityIsTruthful
  <2> SUFFICES ASSUME SolveInv, stage \in {"top", "verdict"}, UseDevice, iterations > 0,
                      NEW f \in Fields
               PROVE  /\ authority[f] = "Synchronized" <=> copy["host"][f] = copy["device"][f]
                      /\ authority[f] # "HostOnly"
    BY DEF AuthorityIsTruthful
  <2>1. /\ authority["viscosity"] = "Synchronized"
        /\ authority["massFlux"] = "Synchronized"
        /\ authority["pressure"] = "DeviceOwned"
        /\ authority["velocity"] = IF ResidentLoop THEN "DeviceOwned" ELSE "Synchronized"
    BY DEF SolveInv, AuthorityInv, Ending
  <2>2. /\ copy["host"]["massFlux"] = iterations
        /\ copy["host"]["velocity"] = IF ResidentLoop THEN 0 ELSE iterations
        /\ copy["host"]["pressure"] = 0
        /\ \A g \in Solution : copy["device"][g] = iterations
        /\ copy["device"]["viscosity"] = copy["host"]["viscosity"]
    BY DEF SolveInv, FieldInv, Ending
  <2>3. iterations \in Nat
    BY Orders DEF SolveInv, TypeInv
  <2> QED
    BY <2>1, <2>2, <2>3 DEF Fields, Solution
<1> QED
  BY <1>1, SolveInvariant, PTL

\* A solve that left no iteration unfinished reports LastPass predictor and LastPass
\* correction passes for each of its iterations (SIMPLEResult.hpp).
THEOREM PassesAreCounted == SimpleSpec => []PassesPerIteration
<1>1. SolveInv => PassesPerIteration
  BY DEF SolveInv, TypeInv, CountInv, PassesPerIteration, Ending
<1> QED
  BY <1>1, SolveInvariant, PTL

--------------------------------------------------------------------------------
(* The refinement, but for its liveness. *)

\* The three fields of a result.
LEMMA SolutionFields == Solution = {"velocity", "pressure", "massFlux"}
  BY DEF Solution, Fields

\* The fields of a result are of one iteration exactly when they agree.
LEMMA OneIteration ==
  ASSUME NEW r
  PROVE
  /\ \A n : (\A f \in Solution : r[f] = n) =>
       Cardinality({r[f] : f \in Solution}) = 1 /\ r["velocity"] = n
  /\ Cardinality({r[f] : f \in Solution}) = 1 => r["velocity"] = r["massFlux"]
<1>1. ASSUME NEW n, \A f \in Solution : r[f] = n
      PROVE  Cardinality({r[f] : f \in Solution}) = 1 /\ r["velocity"] = n
  <2>1. {r[f] : f \in Solution} = {n}
    BY <1>1, SolutionFields
  <2> QED
    BY <1>1, <2>1, SolutionFields, FS_Singleton
<1>2. ASSUME Cardinality({r[f] : f \in Solution}) = 1
      PROVE  r["velocity"] = r["massFlux"]
  <2> DEFINE a == r["velocity"]
             b == r["pressure"]
             c == r["massFlux"]
             S == {r[f] : f \in Solution}
  <2>1. S = (({a} \cup {b}) \cup {c})
    BY SolutionFields
  <2>2. IsFiniteSet(S)
    <3>1. IsFiniteSet({a} \cup {b})
      BY FS_Singleton, FS_AddElement
    <3> QED
      <4> HIDE DEF a, b, c, S
      <4>1. IsFiniteSet(({a} \cup {b}) \cup {c})
        BY <3>1, FS_AddElement
      <4> QED
        BY <2>1, <4>1
  <2>3. PICK x : S = {x}
    BY <1>2, <2>2, FS_Singleton
  <2> QED
    BY <2>1, <2>3
<1> QED
  BY <1>1, <1>2

\* While the solve runs the mapped state is the number of its iterations.
LEMMA Running ==
  ASSUME stage # "returned"
  PROVE  ReturnedFields = iterations
  BY DEF ReturnedFields

\* Before its first step a solve is an OuterLoop that has completed nothing.
LEMMA LoopInitially == SimpleInit => Loop!LoopInit
  BY DEF SimpleInit, Loop!LoopInit, ReturnedFields

\* A solve returns the fields of its last iteration; only a check that found one of
\* them not finite can return fields of two.
LEMMA ReturnStops ==
  ASSUME SolveInv, ReturnResult
  PROVE  Loop!Stop(finalStatus)
<1>1. /\ stage = "return" /\ stage' = "returned" /\ finalStatus' = finalStatus
      /\ iterations' = iterations
  BY DEF ReturnResult
<1>2. /\ finalStatus \in Statuses \ {"Exception", "InvalidConfiguration"}
      /\ finalStatus \in {"Converged", "Stagnated", "Diverging"} => iterations > 0
      /\ finalStatus = "MaxIterations" => iterations = MaxIterations
      /\ finalStatus \in {"Cancelled", "MomentumFailure", "PressureCorrectionFailure"} =>
           iterations < MaxIterations
      /\ iterations \in Nat
  BY <1>1, Orders DEF SolveInv, TypeInv, StageInv, Ending
<1>3. \/ \A f \in Solution : returned'[f] = iterations
      \/ /\ finalStatus = "NonFiniteState"
         /\ returned'["velocity"] = iterations + 1
         /\ returned'["massFlux"] = iterations
  <2>1. FieldInv
    BY DEF SolveInv
  <2>2. CASE UseDevice /\ iterations > 0
    <3>1. /\ returned'["massFlux"] = copy["host"]["massFlux"]
          /\ returned'["velocity"] = copy["device"]["velocity"]
          /\ returned'["pressure"] = copy["device"]["pressure"]
      BY <2>2, SolutionFields DEF ReturnResult
    <3>2. copy["host"]["massFlux"] = iterations
      BY <2>1 DEF FieldInv
    <3>3. \/ \A f \in Solution : copy["device"][f] = iterations
          \/ /\ finalStatus = "NonFiniteState"
             /\ \A f \in Solution : copy["device"][f] = iterations + 1
      BY <1>1, <2>1, <2>2 DEF FieldInv
    <3> QED
      BY <3>1, <3>2, <3>3, SolutionFields
  <2>3. CASE ~(UseDevice /\ iterations > 0)
    <3>1. \A f \in Solution : returned'[f] = copy["host"][f]
      BY <2>3 DEF ReturnResult
    <3>2. \A f \in Solution : copy["host"][f] = iterations
      BY <1>2, <2>1, <2>3, Orders, SolutionFields DEF FieldInv, SolveInv, TypeInv
    <3> QED
      BY <3>1, <3>2
  <2> QED
    BY <2>2, <2>3
<1>4. /\ \A n : (\A f \in Solution : returned'[f] = n) =>
           Cardinality({returned'[f] : f \in Solution}) = 1 /\ returned'["velocity"] = n
      /\ Cardinality({returned'[f] : f \in Solution}) = 1 =>
           returned'["velocity"] = returned'["massFlux"]
  BY OneIteration
<1>5. \/ ReturnedFields' = iterations
      \/ finalStatus = "NonFiniteState" /\ ReturnedFields' = -1
  <2>1. ReturnedFields' = IF Cardinality({returned'[f] : f \in Solution}) = 1
                          THEN returned'["velocity"] ELSE -1
    BY <1>1, <1>2 DEF ReturnedFields, Statuses
  <2> QED
    BY <1>2, <1>3, <1>4, <2>1
<1>6. ReturnedFields = iterations
  BY <1>1, Running
<1> QED
  BY <1>1, <1>2, <1>5 DEF Loop!Stop, Loop!Verdicts, Loop!Failures, Statuses

\* Every step of a solve completes an iteration, stops, or is not seen by the caller.
LEMMA LoopStep ==
  ASSUME SolveInv, [SimpleNext]_simpleVars
  PROVE  [Loop!LoopNext]_(Loop!loopVars)
<1>1. ASSUME NEW s \in Statuses, Loop!Stop(s)
      PROVE  Loop!LoopNext
  BY <1>1 DEF Loop!LoopNext, Loop!Verdicts, Loop!Failures, Statuses
<1>2. ASSUME stage # "returned", stage' # "returned", iterations' = iterations
      PROVE  UNCHANGED Loop!loopVars
  BY <1>2 DEF Loop!loopVars, ReturnedFields
<1>3. ASSUME stage # "returned", stage' = "returned", finalStatus' = "Exception",
             iterations' = iterations, iterations < MaxIterations
      PROVE  Loop!LoopNext
  <2>1. Loop!Stop("Exception")
    BY <1>3 DEF Loop!Stop, Loop!Verdicts, Loop!Failures, ReturnedFields
  <2> QED
    BY <1>1, <2>1 DEF Statuses
<1>4. stage \in Inside => iterations < MaxIterations
  BY DEF SolveInv, StageInv
<1>5. CASE ValidateSettings
  <2>1. CASE stage' = "top"
    BY <1>2, <1>5, <2>1 DEF ValidateSettings
  <2>2. CASE stage' = "returned" /\ finalStatus' \in {"InvalidConfiguration", "NonFiniteState"}
    <3>1. /\ stage = "validate" /\ iterations = 0 /\ iterations' = 0 /\ returned' = returned
          /\ \A f \in Solution : returned[f] = 0
      BY <1>5, <2>2 DEF ValidateSettings, SolveInv, StageInv
    <3>2. ReturnedFields' = 0 /\ ReturnedFields = 0
      <4>1. /\ Cardinality({returned[f] : f \in Solution}) = 1
            /\ returned["velocity"] = 0
        BY <3>1, OneIteration
      <4>2. returned' = returned /\ stage' = "returned" /\ finalStatus' # "Exception"
        BY <2>2, <3>1
      <4> QED
        BY <3>1, <4>1, <4>2 DEF ReturnedFields
    <3>3. Loop!Stop(finalStatus')
      BY <2>2, <3>1, <3>2, Orders
      DEF Loop!Stop, Loop!Verdicts, Loop!Failures, SolveInv, TypeInv
    <3> QED
      BY <1>1, <2>2, <3>3 DEF Statuses
  <2> QED
    BY <1>5, <2>1, <2>2 DEF ValidateSettings
<1>6. CASE BeginIteration \/ CorrectTurbulence \/ UploadState \/ AssembleMomentum
           \/ SolveMomentum \/ CorrectMomentum \/ PredictFlux \/ SolvePressure
           \/ ApplyCorrections \/ Judge
  BY <1>2, <1>6 DEF BeginIteration, CorrectTurbulence, UploadState, AssembleMomentum,
     SolveMomentum, CorrectMomentum, PredictFlux, SolvePressure, ApplyCorrections, Judge, Break
<1>7. CASE AssemblePressure \/ CorrectPressure
  <2>1. /\ stage \in {"pressure", "pressurePass"} /\ iterations' = iterations
        /\ stage' # "returned" \/ (stage' = "returned" /\ finalStatus' = "Exception")
    BY <1>7 DEF AssemblePressure, CorrectPressure, Break
  <2> QED
    BY <1>2, <1>3, <1>4, <2>1 DEF Inside, AfterUpload
<1>8. CASE CommitIteration
  <2>1. CASE iterations' = iterations /\ stage' = "return"
    BY <1>2, <1>8, <2>1 DEF CommitIteration
  <2>2. CASE iterations' = Current /\ stage' = "verdict"
    <3>1. stage = "check" /\ iterations < MaxIterations
      BY <1>4, <1>8 DEF CommitIteration, Inside
    <3>2. Loop!CompleteIteration
      BY <2>2, <3>1 DEF Loop!CompleteIteration, ReturnedFields, Current
    <3> QED
      BY <3>2 DEF Loop!LoopNext
  <2> QED
    BY <1>8, <2>1, <2>2 DEF CommitIteration, Break
<1>9. CASE ReturnResult
  BY <1>1, <1>9, ReturnStops DEF SolveInv, TypeInv
<1>10. CASE UNCHANGED simpleVars
  BY <1>10 DEF simpleVars, Loop!loopVars, ReturnedFields
<1> QED
  BY <1>5, <1>6, <1>7, <1>8, <1>9, <1>10 DEF SimpleNext, SimpleStep, Returned

\* Whatever the path, SIMPLE::solve() is an OuterLoop: it completes iterations one by
\* one up to the limit, stops once with a status its history allows, and the three
\* fields it returns are of its last iteration unless one of them was not finite
\* (SIMPLEResult.hpp; the safety part of ImplementsOuterLoop).
THEOREM RefinesOuterLoop ==
  SimpleSpec => Loop!LoopInit /\ [][Loop!LoopNext]_(Loop!loopVars)
<1>1. SolveInv /\ [SimpleNext]_simpleVars => [Loop!LoopNext]_(Loop!loopVars)
  BY LoopStep
<1> QED
  BY <1>1, LoopInitially, SolveInvariant, PTL DEF SimpleSpec
================================================================================

