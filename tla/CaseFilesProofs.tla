----------------------------- MODULE CaseFilesProofs -----------------------------
(***************************************************************************)
(* Proofs about CaseFiles, for any directories, any cases in them and any  *)
(* number of edits and saves.  CaseInv is the inductive invariant:         *)
(* ShapeInv, the types and that a save and a reading are where they can    *)
(* be; MemoryInv, what no edit can make of the open definition's mesh;     *)
(* SaveInv, what the files hold of the open definition; and ReadInv, what  *)
(* a reading has collected.                                                *)
(***************************************************************************)
EXTENDS CaseFiles, SequenceTheorems, TLAPS

Names == {"case", "geometry", "mesh", "physics", "boundaries", "solver"}

\* What the six files may hold, one by one.
OfSection(s, x) ==
  CASE s = "case"     -> x \in {0, 2, 3}
    [] s = "geometry" -> x \in Geometries
    [] s = "mesh"     -> x \in Meshes
    [] s = "physics"  -> x \in Physics
    [] s = "solver"   -> x \in Numerics
    [] OTHER          -> IsBoundaries(x)

\* A mesh with no key of another type, and of the type its geometry calls for; no
\* edit can give it one.
Clean(d) ==
  /\ CASE d.mesh.type = "multiblock" ->
            /\ ~d.mesh.cells /\ ~d.mesh.graded
            /\ d.mesh.vertices # "none" /\ d.mesh.patches # {}
       [] d.mesh.type = "structured_quad" -> ~d.mesh.graded /\ d.mesh.patches = {}
       [] OTHER -> d.mesh.vertices = "none" /\ d.mesh.patches = {}
  /\ d.mesh.type = "multiblock" <=> d.geometry = "mesh_defined"
  /\ IF d.geometry = "box"
     THEN d.mesh.type = "structured_cartesian" /\ ~d.mesh.graded
     ELSE ~d.mesh.layers

ShapeInv ==
  /\ CaseTypeOK
  /\ DOMAIN files = Dirs /\ \A d \in Dirs : DOMAIN files[d] = Names
  /\ DOMAIN promised = Dirs
  /\ saving # None => saving \in [dir : Dirs, next : 1 .. 7, lost : BOOLEAN]
  /\ reader # None => /\ DOMAIN reader = {"dir", "parsed", "result", "promised"}
                      /\ reader.dir \in Dirs
                      /\ \E S : reader.parsed \in Seq(S)

MemoryInv ==
  /\ memory # None => Clean(memory)
  /\ valid => memory # None /\ Accepted(Written(memory))

\* The files of the directory hold what was promised of it.
Holds(contents, d) ==
  /\ IsDefinition(d) /\ Clean(d) /\ Accepted(Written(d))
  /\ \A s \in Names : contents[s] = Written(d)[s]

SaveInv ==
  /\ \A d \in Dirs : promised[d] # None => Holds(files[d], promised[d])
  /\ saving # None /\ ~saving.lost =>
       \A k \in 1 .. 6 : k < saving.next =>
         files[saving.dir][Sections[k]] = Written(memory)[Sections[k]]

ReadInv ==
  reader # None =>
    /\ reader.result \notin {None, Refused} => Accepted(reader.result)
    /\ Len(reader.parsed) \in 0 .. 5
    /\ \A k \in 1 .. Len(reader.parsed) :
         reader.parsed[k] # Torn /\ OfSection(Sections[k], reader.parsed[k])
    /\ reader.promised # None =>
         /\ ~(saving # None /\ saving.dir = reader.dir)
         /\ Holds(files[reader.dir], reader.promised)
         /\ \A k \in 1 .. Len(reader.parsed) :
              reader.parsed[k] = Written(reader.promised)[Sections[k]]
         /\ reader.result # None => reader.result = Kept(reader.promised)

CaseInv == ShapeInv /\ MemoryInv /\ SaveInv /\ ReadInv

--------------------------------------------------------------------------------
(* The sections and the definitions.                                       *)

\* The files by their position.
LEMMA SectionFacts ==
  /\ Len(Sections) = 6 /\ DOMAIN Sections = 1 .. 6
  /\ Sections[1] = "case" /\ Sections[2] = "geometry" /\ Sections[3] = "mesh"
  /\ Sections[4] = "physics" /\ Sections[5] = "boundaries" /\ Sections[6] = "solver"
  BY DEF Sections

\* Every position has a file and every file a position.
LEMMA SectionNames ==
  /\ \A k \in 1 .. 6 : Sections[k] \in Names
  /\ \A s \in Names : \E k \in 1 .. 6 : Sections[k] = s
  /\ \A j, k \in 1 .. 6 : Sections[j] = Sections[k] => j = k
<1>1. \A k \in 1 .. 6 : k \in {1, 2, 3, 4, 5, 6}
  OBVIOUS
<1>2. {1, 2, 3, 4, 5, 6} \subseteq 1 .. 6
  OBVIOUS
<1> QED
  BY <1>1, <1>2, SectionFacts DEF Names

\* What is assumed of a file cut short and of a new case.
LEMMA TornFacts ==
  /\ \A s \in Names : ~OfSection(s, Torn)
  /\ IsDefinition(Untitled) /\ Clean(Untitled)
<1>1. ~IsBoundaries(Torn)
  BY CaseFilesAssumption DEF IsBoundaries
<1>2. ~OfSection("boundaries", Torn)
  BY <1>1 DEF OfSection
<1>3. \A s \in Names \ {"boundaries"} : ~OfSection(s, Torn)
  BY CaseFilesAssumption DEF OfSection, Names
<1> QED
  BY <1>2, <1>3, CaseFilesAssumption DEF Clean

\* A definition is one whose six sections have their types.
LEMMA DefinitionTypes ==
  ASSUME NEW d
  PROVE  IsDefinition(d) <=> DOMAIN d = Names /\ \A s \in Names : OfSection(s, d[s])
  BY DEF IsDefinition, Names, OfSection

\* The contents of a directory.
LEMMA ContentTypes ==
  ASSUME NEW c, DOMAIN c = Names
  PROVE  FileTypes(c) <=> \A s \in Names : c[s] = Torn \/ OfSection(s, c[s])
  BY DEF FileTypes, Names, OfSection

\* What is written of a clean definition is a definition, with the same patches, and
\* what Kept() says of it.
LEMMA WrittenFacts ==
  ASSUME NEW d, IsDefinition(d), Clean(d)
  PROVE  /\ IsDefinition(Written(d))
         /\ \A s \in Names : OfSection(s, Written(d)[s]) /\ Written(d)[s] # Torn
         /\ Written(d).boundaries = d.boundaries
         /\ Written(d).mesh = d.mesh
         /\ Written(d).physics = WrittenPhysics(d.physics)
         /\ FieldsFor(Written(d).physics) = FieldsFor(d.physics)
         /\ Kept(d) = Written(d)
<1>1. WrittenMesh(d.mesh) = d.mesh
  <2>1. d.mesh \in Meshes
    BY DEF IsDefinition
  <2>2. CASE d.mesh.type = "multiblock"
    <3>1. ~d.mesh.cells /\ ~d.mesh.layers
      BY <2>2 DEF Clean
    <3> QED
      BY <2>1, <2>2, <3>1 DEF Clean, WrittenMesh, Meshes
  <2>3. CASE d.mesh.type = "structured_quad"
    BY <2>1, <2>3 DEF Clean, WrittenMesh, Meshes
  <2>4. CASE d.mesh.type \notin {"multiblock", "structured_quad"}
    BY <2>1, <2>4 DEF Clean, WrittenMesh, Meshes
  <2> QED
    BY <2>2, <2>3, <2>4
<1>2. d.physics \in Physics /\ WrittenPhysics(d.physics) \in Physics
  BY DEF IsDefinition, WrittenPhysics, Physics
<1>3. WrittenPhysics(d.physics).modules = d.physics.modules
  BY <1>2 DEF WrittenPhysics, Physics
<1>4. IsDefinition(Written(d))
  BY <1>1, <1>2 DEF IsDefinition, Written, Dimension
<1>5. \A s \in Names : OfSection(s, Written(d)[s])
  BY <1>4, DefinitionTypes
<1>6. FieldsFor(Written(d).physics) = FieldsFor(d.physics)
  BY <1>3 DEF Written, FieldsFor
<1>7. Kept(d) = Written(d)
  <2>1. DOMAIN d = {"case", "geometry", "mesh", "physics", "boundaries", "solver"}
    BY DEF IsDefinition
  <2>2. [d.physics EXCEPT !.coupled = FALSE] = WrittenPhysics(d.physics)
    BY DEF WrittenPhysics
  <2> QED
    <3>1. Kept(d) = [s \in Names |-> Kept(d)[s]]
      BY <2>1 DEF Kept, Names
    <3>2. Written(d) = [s \in Names |-> Written(d)[s]]
      BY DEF Written, Names
    <3>3. /\ Kept(d)["case"] = Written(d)["case"]
          /\ Kept(d)["geometry"] = Written(d)["geometry"]
          /\ Kept(d)["mesh"] = Written(d)["mesh"]
          /\ Kept(d)["boundaries"] = Written(d)["boundaries"]
          /\ Kept(d)["solver"] = Written(d)["solver"]
      BY <1>1, <2>1 DEF Kept, Written
    <3>4. Kept(d)["physics"] = Written(d)["physics"]
      BY <2>1, <2>2 DEF Kept, Written
    <3> QED
      BY <3>1, <3>2, <3>3, <3>4 DEF Names
<1> QED
  BY <1>1, <1>4, <1>5, <1>6, <1>7, TornFacts DEF Written

\* What has been parsed, as a definition.
LEMMA Collecting ==
  ASSUME NEW parsed
  PROVE  /\ DOMAIN Collected(parsed) = Names
         /\ Collected(parsed) = [s \in Names |-> Collected(parsed)[s]]
         /\ \A k \in 1 .. 6 : Collected(parsed)[Sections[k]] = parsed[k]
<1>1. {Sections[k] : k \in DOMAIN Sections} = Names
  BY SectionFacts, SectionNames
<1>2. ASSUME NEW k \in 1 .. 6
      PROVE  Collected(parsed)[Sections[k]] = parsed[k]
  <2>1. (CHOOSE j \in DOMAIN Sections : Sections[j] = Sections[k]) = k
    BY SectionFacts, SectionNames
  <2> QED
    BY <1>1, <2>1, SectionNames DEF Collected
<1>3. DOMAIN Collected(parsed) = Names
  BY <1>1 DEF Collected
<1>4. Collected(parsed) = [s \in Names |-> Collected(parsed)[s]]
  BY <1>1 DEF Collected
<1> QED
  BY <1>2, <1>3, <1>4

\* Six sections with their types make a definition, and those of what was written
\* make it again.
LEMMA CollectedFacts ==
  ASSUME NEW parsed
  PROVE  /\ (\A k \in 1 .. 6 : OfSection(Sections[k], parsed[k])) => IsDefinition(Collected(parsed))
         /\ \A d : (\A k \in 1 .. 6 : parsed[k] = Written(d)[Sections[k]])
                     => Collected(parsed) = Written(d)
<1>1. ASSUME \A k \in 1 .. 6 : OfSection(Sections[k], parsed[k])
      PROVE  IsDefinition(Collected(parsed))
  BY <1>1, Collecting, SectionNames, DefinitionTypes
<1>2. ASSUME NEW d, \A k \in 1 .. 6 : parsed[k] = Written(d)[Sections[k]]
      PROVE  Collected(parsed) = Written(d)
  <2>1. \A s \in Names : Collected(parsed)[s] = Written(d)[s]
    BY <1>2, Collecting, SectionNames
  <2>2. Collected(parsed) = [s \in Names |-> Collected(parsed)[s]]
    BY Collecting
  <2>3. Written(d) = [s \in Names |-> Written(d)[s]]
    BY DEF Written, Names
  <2> QED
    BY <2>1, <2>2, <2>3
<1> QED
  BY <1>1, <1>2

\* The patches of an accepted definition carry what its modules call for, and the
\* builder finds what it looks up.
LEMMA AcceptedFacts ==
  ASSUME NEW d, Accepted(d)
  PROVE  BuilderFinds(d) /\ (IsDefinition(d) => Clean(d))
<1>1. \A p \in DOMAIN d.boundaries : d.boundaries[p] = FieldsFor(d.physics)
  BY DEF Accepted, BoundariesParse
<1>2. DOMAIN d.boundaries = MeshPatchNames(d.mesh)
  BY DEF Accepted, CrossFile
<1>3. BuiltPatches(d) \subseteq MeshPatchNames(d.mesh)
  BY DEF Accepted, CrossFile, BuiltPatches, MeshPatchNames
<1>4. BuilderFinds(d)
  BY <1>1, <1>2, <1>3 DEF BuilderFinds, FieldsFor, Fields
<1>5. IsDefinition(d) => Clean(d)
  BY DEF Accepted, CrossFile, MeshParses, Clean, IsDefinition, Meshes
<1> QED
  BY <1>4, <1>5

--------------------------------------------------------------------------------
(* The steps of the window.                                                *)

\* The bounds are natural numbers.
LEMMA StepBounds == MaxSteps \in Nat /\ MaxSaves \in Nat /\ Targets \subseteq Dirs
  BY CaseFilesAssumption

\* The keys a commit of the mesh page leaves.
LEMMA MeshPageKeys ==
  ASSUME NEW d, IsDefinition(d), Clean(d), NEW cells \in BOOLEAN, NEW layers \in BOOLEAN,
         NEW geometric \in BOOLEAN, NEW fits \in BOOLEAN
  PROVE  LET m == MeshFrom(d.mesh, d.geometry, cells, layers, geometric, fits)
         IN  /\ m \in Meshes
             /\ m.type = d.mesh.type /\ m.patches = d.mesh.patches
             /\ m.cells <=> d.mesh.type # "multiblock" /\ cells
             /\ m.layers <=> d.geometry = "box" /\ layers
             /\ m.graded <=> /\ d.mesh.type = "structured_cartesian"
                             /\ d.mesh.graded \/ (geometric /\ d.geometry # "box")
             /\ m.vertices = IF d.mesh.type # "structured_quad" THEN d.mesh.vertices
                             ELSE IF fits THEN "fit" ELSE "misfit"
<1> DEFINE C == d.mesh.type # "multiblock" /\ cells
           L == IF d.geometry = "box" THEN layers ELSE d.mesh.layers
           G == /\ d.mesh.type = "structured_cartesian"
                /\ d.mesh.graded \/ (geometric /\ d.geometry # "box")
           V == IF d.mesh.type # "structured_quad" THEN d.mesh.vertices
                ELSE IF fits THEN "fit" ELSE "misfit"
           m == [d.mesh EXCEPT !.cells = C, !.layers = L, !.graded = G, !.vertices = V]
<1>1. d.mesh \in Meshes
  BY DEF IsDefinition
<1>2. m = MeshFrom(d.mesh, d.geometry, cells, layers, geometric, fits)
  BY DEF MeshFrom
<1>3. L <=> d.geometry = "box" /\ layers
  BY DEF Clean
<1>4. C \in BOOLEAN /\ L \in BOOLEAN /\ G \in BOOLEAN /\ V \in {"none", "fit", "misfit"}
  BY <1>1 DEF Meshes
<1> HIDE DEF C, L, G, V
<1>5. /\ m \in Meshes /\ m.type = d.mesh.type /\ m.patches = d.mesh.patches
      /\ m.cells = C /\ m.layers = L /\ m.graded = G /\ m.vertices = V
  BY <1>1, <1>4 DEF Meshes
<1> HIDE DEF m
<1> QED
  BY <1>2, <1>3, <1>5 DEF C, G, V

\* A commit of the mesh page makes of a clean definition a clean one.
LEMMA MeshPage ==
  ASSUME NEW d, IsDefinition(d), Clean(d), NEW cells \in BOOLEAN, NEW layers \in BOOLEAN,
         NEW geometric \in BOOLEAN, NEW fits \in BOOLEAN
  PROVE  LET m == MeshFrom(d.mesh, d.geometry, cells, layers, geometric, fits)
         IN  IsDefinition([d EXCEPT !.mesh = m]) /\ Clean([d EXCEPT !.mesh = m])
<1> DEFINE m == MeshFrom(d.mesh, d.geometry, cells, layers, geometric, fits)
           e == [d EXCEPT !.mesh = m]
<1>1. /\ m \in Meshes
      /\ m.type = d.mesh.type /\ m.patches = d.mesh.patches
      /\ m.cells <=> d.mesh.type # "multiblock" /\ cells
      /\ m.layers <=> d.geometry = "box" /\ layers
      /\ m.graded <=> /\ d.mesh.type = "structured_cartesian"
                      /\ d.mesh.graded \/ (geometric /\ d.geometry # "box")
      /\ m.vertices = IF d.mesh.type # "structured_quad" THEN d.mesh.vertices
                      ELSE IF fits THEN "fit" ELSE "misfit"
  BY MeshPageKeys
<1> HIDE DEF m
<1>2. DOMAIN d = Names
  BY DEF IsDefinition, Names
<1>3. /\ e.mesh = m /\ DOMAIN e = Names
      /\ e.case = d.case /\ e.geometry = d.geometry /\ e.physics = d.physics
      /\ e.boundaries = d.boundaries /\ e.solver = d.solver
  BY <1>2 DEF Names
<1>4. IsDefinition(e)
  BY <1>1, <1>3 DEF IsDefinition
<1>5. Clean(e)
  BY <1>1, <1>3 DEF Clean
<1> QED
  BY <1>4, <1>5 DEF m

\* An edit makes of a clean definition a clean one.
LEMMA EditFacts ==
  ASSUME ShapeInv, MemoryInv,
         SetMeshAndGeometry \/ SetPhysicsConfig \/ SetBoundaryConfig \/ SetSolverConfig
  PROVE  \E e : Edited(e) /\ IsDefinition(e) /\ Clean(e)
<1>1. memory # None
  BY DEF SetMeshAndGeometry, SetPhysicsConfig, SetBoundaryConfig, SetSolverConfig, Edited
<1>2. IsDefinition(memory) /\ Clean(memory)
  BY <1>1 DEF ShapeInv, CaseTypeOK, MemoryInv
<1>3. DOMAIN memory = Names
  BY <1>2, DefinitionTypes
<1>4. CASE SetMeshAndGeometry
  <2>1. PICK cells, layers, geometric, fits \in BOOLEAN :
          Edited([memory EXCEPT
                    !.mesh = MeshFrom(@, memory.geometry, cells, layers, geometric, fits)])
    BY <1>4 DEF SetMeshAndGeometry
  <2> DEFINE m == MeshFrom(memory.mesh, memory.geometry, cells, layers, geometric, fits)
             e == [memory EXCEPT !.mesh = m]
  <2>2. IsDefinition(e) /\ Clean(e)
    BY <1>2, MeshPage
  <2> HIDE DEF m
  <2> QED
    BY <2>1, <2>2 DEF m
<1>5. CASE SetPhysicsConfig
  <2>1. PICK p \in Physics : Edited([memory EXCEPT !.physics = p])
    <3>1. memory.physics \in Physics
      BY <1>2 DEF IsDefinition
    <3>2. ASSUME NEW m \in Toggles,
                 Edited([memory EXCEPT !.physics.modules = Toggled(@, m), !.physics.coupled = FALSE])
          PROVE  \E p \in Physics : Edited([memory EXCEPT !.physics = p])
      <4> DEFINE p == [memory.physics EXCEPT !.modules = Toggled(memory.physics.modules, m), !.coupled = FALSE]
      <4>1. Toggled(memory.physics.modules, m) \in SUBSET Modules
        BY <3>1, CaseFilesAssumption DEF Toggled, Physics
      <4>2. p \in Physics
        BY <3>1, <4>1 DEF Physics
      <4>3. [memory EXCEPT !.physics.modules = Toggled(@, m), !.physics.coupled = FALSE]
              = [memory EXCEPT !.physics = p]
        BY <1>3, <3>1 DEF Names, Physics
      <4> QED
        BY <3>2, <4>2, <4>3
    <3>3. ASSUME NEW g \in Gases,
                 Edited([memory EXCEPT !.physics.gas = g, !.physics.coupled = FALSE])
          PROVE  \E p \in Physics : Edited([memory EXCEPT !.physics = p])
      <4> DEFINE p == [memory.physics EXCEPT !.gas = g, !.coupled = FALSE]
      <4>1. p \in Physics
        BY <3>1 DEF Physics
      <4>2. [memory EXCEPT !.physics.gas = g, !.physics.coupled = FALSE]
              = [memory EXCEPT !.physics = p]
        BY <1>3, <3>1 DEF Names, Physics
      <4> QED
        BY <3>3, <4>1, <4>2
    <3>4. ASSUME NEW t \in Turbulences,
                 Edited([memory EXCEPT !.physics.turbulence = t, !.physics.coupled = FALSE])
          PROVE  \E p \in Physics : Edited([memory EXCEPT !.physics = p])
      <4> DEFINE p == [memory.physics EXCEPT !.turbulence = t, !.coupled = FALSE]
      <4>1. p \in Physics
        BY <3>1 DEF Physics
      <4>2. [memory EXCEPT !.physics.turbulence = t, !.physics.coupled = FALSE]
              = [memory EXCEPT !.physics = p]
        BY <1>3, <3>1 DEF Names, Physics
      <4> QED
        BY <3>4, <4>1, <4>2
    <3> QED
      BY <1>5, <3>2, <3>3, <3>4 DEF SetPhysicsConfig
  <2> DEFINE e == [memory EXCEPT !.physics = p]
  <2>2. /\ e.physics = p /\ DOMAIN e = Names
        /\ e.case = memory.case /\ e.geometry = memory.geometry /\ e.mesh = memory.mesh
        /\ e.boundaries = memory.boundaries /\ e.solver = memory.solver
    BY <1>3 DEF Names
  <2>3. IsDefinition(e) /\ Clean(e)
    BY <1>2, <2>2 DEF IsDefinition, Clean
  <2> QED
    BY <2>1, <2>2, <2>3
<1>6. CASE SetBoundaryConfig
  <2>1. PICK b : IsBoundaries(b) /\ Edited([memory EXCEPT !.boundaries = b])
    <3>1. ASSUME NEW f \in FieldsFor(memory.physics), NEW patches \in PatchChoices,
                 Edited([memory EXCEPT !.boundaries =
                    [q \in DOMAIN @ |-> IF q \in patches THEN @[q] \cup {f} ELSE @[q]]])
          PROVE  \E b : IsBoundaries(b) /\ Edited([memory EXCEPT !.boundaries = b])
      <4> DEFINE b == [q \in DOMAIN memory.boundaries |->
                         IF q \in patches THEN memory.boundaries[q] \cup {f}
                         ELSE memory.boundaries[q]]
      <4>1. IsBoundaries(b)
        BY <1>2 DEF IsDefinition, IsBoundaries, FieldsFor
      <4>2. Edited([memory EXCEPT !.boundaries = b])
        BY <3>1
      <4> QED
        BY <4>1, <4>2
    <3>2. ASSUME NEW b \in BoundaryMaps, Edited([memory EXCEPT !.boundaries = b])
          PROVE  \E c : IsBoundaries(c) /\ Edited([memory EXCEPT !.boundaries = c])
      BY <3>2, CaseFilesAssumption
    <3> QED
      BY <1>6, <3>1, <3>2 DEF SetBoundaryConfig
  <2> DEFINE e == [memory EXCEPT !.boundaries = b]
  <2>2. /\ e.boundaries = b /\ DOMAIN e = Names
        /\ e.case = memory.case /\ e.geometry = memory.geometry /\ e.mesh = memory.mesh
        /\ e.physics = memory.physics /\ e.solver = memory.solver
    BY <1>3 DEF Names
  <2>3. IsDefinition(e) /\ Clean(e)
    BY <1>2, <2>1, <2>2 DEF IsDefinition, Clean
  <2> QED
    BY <2>1, <2>3
<1>7. CASE SetSolverConfig
  <2> DEFINE e == [memory EXCEPT !.solver = "default"]
  <2>1. Edited(e)
    BY <1>7 DEF SetSolverConfig
  <2>2. /\ e.solver = "default" /\ DOMAIN e = Names
        /\ e.case = memory.case /\ e.geometry = memory.geometry /\ e.mesh = memory.mesh
        /\ e.boundaries = memory.boundaries /\ e.physics = memory.physics
    BY <1>3 DEF Names
  <2>3. IsDefinition(e) /\ Clean(e)
    BY <1>2, <2>2 DEF IsDefinition, Clean, Numerics
  <2> QED
    BY <2>1, <2>2, <2>3
<1> QED
  BY <1>4, <1>5, <1>6, <1>7

\* A step of the window that leaves the disk, the save and the reading alone has only
\* to keep what is known of the memory.
LEMMA MemoryStep ==
  ASSUME CaseInv, UiFree, steps' \in 0 .. MaxSteps, UNCHANGED <<files, saving, reader, saves, promised>>,
         memory' = None \/ IsDefinition(memory'), directory' \in Dirs \cup {None},
         origin' = None \/ IsDefinition(origin'), valid' \in BOOLEAN, MemoryInv'
  PROVE  CaseInv'
<1>1. ShapeInv'
  BY StepBounds DEF CaseInv, ShapeInv, CaseTypeOK, UiFree
<1>2. SaveInv'
  BY DEF CaseInv, SaveInv, UiFree
<1>3. ReadInv'
  BY DEF CaseInv, ReadInv
<1> QED
  BY <1>1, <1>2, <1>3 DEF CaseInv

\* The pages, New, Open and Validate.
LEMMA WindowKeeps ==
  ASSUME CaseInv,
         \/ SetMeshAndGeometry \/ SetPhysicsConfig \/ SetBoundaryConfig \/ SetSolverConfig
         \/ NewCase \/ ValidateDraft \/ \E d \in Dirs : OpenCase(d)
  PROVE  CaseInv'
<1>1. ShapeInv /\ MemoryInv
  BY DEF CaseInv
<1>2. UiStep => UiFree /\ steps' \in 0 .. MaxSteps
  BY <1>1, StepBounds DEF UiStep, ShapeInv, CaseTypeOK
<1>3. CASE SetMeshAndGeometry \/ SetPhysicsConfig \/ SetBoundaryConfig \/ SetSolverConfig
  <2>1. PICK e : Edited(e) /\ IsDefinition(e) /\ Clean(e)
    BY <1>1, <1>3, EditFacts
  <2>2. /\ UiStep /\ memory # None /\ memory' = e /\ valid' = FALSE
        /\ UNCHANGED <<directory, files, saving, reader, saves, origin, promised>>
    BY <2>1 DEF Edited
  <2>3. MemoryInv'
    BY <2>1, <2>2 DEF MemoryInv
  <2> QED
    BY <1>1, <1>2, <2>1, <2>2, <2>3, MemoryStep DEF ShapeInv, CaseTypeOK
<1>4. CASE NewCase
  <2>1. MemoryInv'
    BY <1>4, TornFacts DEF NewCase, MemoryInv
  <2>2. steps' \in 0 .. MaxSteps
    BY <1>1, <1>4 DEF NewCase, ShapeInv, CaseTypeOK
  <2> QED
    BY <1>4, <2>1, <2>2, TornFacts, MemoryStep DEF NewCase
<1>5. CASE ValidateDraft
  <2>1. valid' \in BOOLEAN
    BY <1>5 DEF ValidateDraft, Accepted
  <2>2. MemoryInv'
    BY <1>1, <1>5 DEF ValidateDraft, MemoryInv
  <2> QED
    BY <1>1, <1>2, <1>5, <2>1, <2>2, MemoryStep DEF ValidateDraft, ShapeInv, CaseTypeOK
<1>6. ASSUME NEW d \in Dirs, OpenCase(d) PROVE CaseInv'
  <2>1. IsDefinition(files[d])
    BY <1>1, <1>6, ContentTypes, DefinitionTypes DEF ShapeInv, CaseTypeOK, OpenCase, Whole
  <2>2. Clean(files[d])
    BY <1>6, <2>1, AcceptedFacts DEF OpenCase
  <2>3. MemoryInv'
    BY <1>6, <2>2 DEF OpenCase, MemoryInv
  <2> QED
    BY <1>2, <1>6, <2>1, <2>3, MemoryStep DEF OpenCase
<1> QED
  BY <1>3, <1>4, <1>5, <1>6

--------------------------------------------------------------------------------
(* The steps of a save.                                                    *)

\* One file is overwritten, by a section of its type or by something cut short.
LEMMA PutFacts ==
  ASSUME ShapeInv, saving # None, NEW k \in 1 .. 6, saving.next = k, NEW x, Put(x),
         x = Torn \/ OfSection(Sections[k], x)
  PROVE  /\ DOMAIN files' = Dirs
         /\ \A d \in Dirs : DOMAIN files'[d] = Names /\ FileTypes(files'[d])
         /\ \A d \in Dirs : d # saving.dir => files'[d] = files[d]
         /\ files'[saving.dir][Sections[k]] = x
         /\ \A j \in 1 .. 6 : j # k =>
              files'[saving.dir][Sections[j]] = files[saving.dir][Sections[j]]
<1> DEFINE t == saving.dir
<1>1. /\ t \in Dirs /\ DOMAIN files = Dirs
      /\ \A d \in Dirs : DOMAIN files[d] = Names /\ FileTypes(files[d])
  BY DEF ShapeInv, CaseTypeOK
<1>2. Sections[k] \in Names
  BY SectionNames
<1>3. files' = [files EXCEPT ![t] = [files[t] EXCEPT ![Sections[k]] = x]]
  BY DEF Put
<1>4. /\ DOMAIN files' = Dirs
      /\ \A d \in Dirs : d # t => files'[d] = files[d]
      /\ files'[t] = [files[t] EXCEPT ![Sections[k]] = x]
  BY <1>1, <1>3
<1>5. /\ DOMAIN files'[t] = Names /\ files'[t][Sections[k]] = x
      /\ \A s \in Names : s # Sections[k] => files'[t][s] = files[t][s]
  BY <1>1, <1>2, <1>4
<1>6. FileTypes(files'[t])
  BY <1>1, <1>5, ContentTypes
<1>7. \A j \in 1 .. 6 : j # k => files'[t][Sections[j]] = files[t][Sections[j]]
  BY <1>5, SectionNames
<1> QED
  BY <1>1, <1>4, <1>5, <1>6, <1>7

\* Overwriting a file of the directory of a save breaks no promise: there is none.
LEMMA PutKeeps ==
  ASSUME CaseInv, saving # None,
         \A d \in Dirs : d # saving.dir => files'[d] = files[d],
         UNCHANGED <<reader, promised>>,
         saving' = None \/ (saving' # None /\ saving'.dir = saving.dir)
  PROVE  /\ \A d \in Dirs : promised'[d] # None => Holds(files'[d], promised'[d])
         /\ ReadInv'
<1>1. saving.dir \in Dirs /\ promised[saving.dir] = None
  BY DEF CaseInv, ShapeInv, CaseTypeOK
<1>2. \A d \in Dirs : promised'[d] # None => Holds(files'[d], promised'[d])
  BY <1>1 DEF CaseInv, SaveInv
<1>3. ReadInv'
  <2> SUFFICES ASSUME reader # None PROVE ReadInv'
    BY DEF ReadInv
  <2>1. reader.dir \in Dirs
    BY DEF CaseInv, ShapeInv
  <2>2. reader.promised # None => reader.dir # saving.dir /\ files'[reader.dir] = files[reader.dir]
    BY <2>1 DEF CaseInv, ReadInv
  <2> QED
    BY <2>2 DEF CaseInv, ReadInv, Holds
<1> QED
  BY <1>2, <1>3

\* Beginning a save withdraws what was promised of its directory, to a reading in
\* progress too.
LEMMA SaveAsKeeps == ASSUME CaseInv, NEW d \in Dirs, SaveAs(d) PROVE CaseInv'
<1>1. /\ saving = None /\ memory # None /\ saves < MaxSaves
      /\ saving' = [dir |-> d, next |-> 1, lost |-> FALSE] /\ saves' = saves + 1
      /\ reader' = Overlapped(d) /\ promised' = [promised EXCEPT ![d] = None]
      /\ UNCHANGED <<memory, directory, files, steps, valid, origin>>
  BY DEF SaveAs
<1>2. ShapeInv /\ MemoryInv /\ SaveInv /\ ReadInv
  BY DEF CaseInv
<1>3. /\ DOMAIN promised' = Dirs /\ promised'[d] = None
      /\ \A e \in Dirs : e # d => promised'[e] = promised[e]
  BY <1>1, <1>2 DEF ShapeInv
<1>4. ASSUME reader' # None
      PROVE  /\ reader # None /\ DOMAIN reader' = DOMAIN reader
             /\ reader'.dir = reader.dir /\ reader'.parsed = reader.parsed
             /\ reader'.result = reader.result
             /\ \/ reader'.promised = None
                \/ reader'.promised = reader.promised /\ reader.dir # d
  <2>1. CASE reader # None /\ reader.dir = d
    <3>1. reader' = [reader EXCEPT !.promised = None]
      BY <1>1, <2>1 DEF Overlapped
    <3>2. DOMAIN reader = {"dir", "parsed", "result", "promised"}
      BY <1>2, <2>1 DEF ShapeInv
    <3> QED
      BY <2>1, <3>1, <3>2
  <2>2. CASE ~(reader # None /\ reader.dir = d)
    <3>1. reader' = reader
      BY <1>1, <2>2 DEF Overlapped
    <3> QED
      BY <1>4, <2>2, <3>1
  <2> QED
    BY <2>1, <2>2
<1>5. ShapeInv'
  <2>1. saves' \in 0 .. MaxSaves
    BY <1>1, <1>2, StepBounds DEF ShapeInv, CaseTypeOK
  <2>2. saving' \in [dir : Dirs, next : 1 .. 7, lost : BOOLEAN] /\ saving'.dir = d
        /\ saving'.next \in 1 .. Len(Sections) + 1
    BY <1>1, SectionFacts
  <2>3. reader' # None => /\ DOMAIN reader' = {"dir", "parsed", "result", "promised"}
                          /\ reader'.dir \in Dirs
                          /\ \E S : reader'.parsed \in Seq(S)
                          /\ reader'.result \in {None, Refused} \/ IsDefinition(reader'.result)
    BY <1>2, <1>4 DEF ShapeInv, CaseTypeOK
  <2>4. \A e \in Dirs : promised'[e] = None \/ IsDefinition(promised'[e])
    BY <1>2, <1>3 DEF ShapeInv, CaseTypeOK
  <2> QED
    BY <1>1, <1>2, <1>3, <2>1, <2>2, <2>3, <2>4 DEF ShapeInv, CaseTypeOK
<1>6. MemoryInv'
  BY <1>1, <1>2 DEF MemoryInv
<1>7. SaveInv'
  BY <1>1, <1>2, <1>3 DEF SaveInv
<1>8. ReadInv'
  <2> SUFFICES ASSUME reader' # None PROVE ReadInv'
    BY DEF ReadInv
  <2>1. reader'.promised # None => reader'.promised = reader.promised /\ reader'.dir # d
    BY <1>4
  <2>2. saving'.dir = d
    BY <1>1
  <2> QED
    BY <1>1, <1>2, <1>4, <2>1, <2>2 DEF ReadInv, Holds
<1> QED
  BY <1>5, <1>6, <1>7, <1>8 DEF CaseInv

\* A file is written as it should be, or lost unnoticed.
LEMMA WritingKeeps == ASSUME CaseInv, WriteFile \/ LoseFile PROVE CaseInv'
<1>1. /\ saving # None /\ saving.next <= 6
      /\ UNCHANGED <<memory, directory, reader, steps, saves, valid, origin, promised>>
  BY SectionFacts DEF WriteFile, LoseFile, Writing
<1>2. ShapeInv /\ MemoryInv /\ SaveInv /\ ReadInv
  BY DEF CaseInv
<1>3. /\ saving \in [dir : Dirs, next : 1 .. 7, lost : BOOLEAN] /\ saving.next \in 1 .. 6
      /\ memory # None /\ promised[saving.dir] = None
  BY <1>1, <1>2 DEF ShapeInv, CaseTypeOK
<1> DEFINE k == saving.next
<1>4. IsDefinition(memory) /\ Clean(memory)
  BY <1>2, <1>3 DEF ShapeInv, CaseTypeOK, MemoryInv
<1>5. PICK x : /\ Put(x)
               /\ \/ x = Written(memory)[Sections[k]] /\ saving' = [saving EXCEPT !.next = @ + 1]
                  \/ x = Torn /\ saving' = [saving EXCEPT !.next = @ + 1, !.lost = TRUE]
  BY DEF WriteFile, LoseFile
<1>6. x = Torn \/ OfSection(Sections[k], x)
  BY <1>3, <1>4, <1>5, SectionNames, WrittenFacts
<1>7. /\ DOMAIN files' = Dirs
      /\ \A d \in Dirs : DOMAIN files'[d] = Names /\ FileTypes(files'[d])
      /\ \A d \in Dirs : d # saving.dir => files'[d] = files[d]
      /\ files'[saving.dir][Sections[k]] = x
      /\ \A j \in 1 .. 6 : j # k =>
           files'[saving.dir][Sections[j]] = files[saving.dir][Sections[j]]
  BY <1>1, <1>2, <1>3, <1>5, <1>6, PutFacts
<1>8. /\ saving' \in [dir : Dirs, next : 1 .. 7, lost : BOOLEAN]
      /\ saving'.dir = saving.dir /\ saving'.next = k + 1
      /\ ~saving'.lost => ~saving.lost /\ x = Written(memory)[Sections[k]]
  <2>1. CASE x = Written(memory)[Sections[k]] /\ saving' = [saving EXCEPT !.next = @ + 1]
    BY <1>3, <2>1
  <2>2. CASE x = Torn /\ saving' = [saving EXCEPT !.next = @ + 1, !.lost = TRUE]
    <3>1. /\ DOMAIN saving' = {"dir", "next", "lost"}
          /\ saving'.dir = saving.dir /\ saving'.next = k + 1
      BY <1>3, <2>2
    <3>2. saving'.lost = TRUE
      BY <1>3, <2>2
    <3>3. saving' = [dir |-> saving.dir, next |-> k + 1, lost |-> TRUE]
      BY <1>3, <2>2
    <3>4. saving.dir \in Dirs /\ k + 1 \in 1 .. 7
      BY <1>3
    <3>5. saving' \in [dir : Dirs, next : 1 .. 7, lost : BOOLEAN]
      BY <3>3, <3>4
    <3>6. ~saving'.lost => ~saving.lost /\ x = Written(memory)[Sections[k]]
      BY <3>2
    <3> QED
      BY <3>1, <3>5, <3>6
  <2> QED
    BY <1>5, <2>1, <2>2
<1>9. ShapeInv'
  BY <1>1, <1>2, <1>3, <1>7, <1>8, SectionFacts DEF ShapeInv, CaseTypeOK
<1>10. MemoryInv'
  BY <1>1, <1>2 DEF MemoryInv
<1>11. saving' # None \/ saving' = None
  OBVIOUS
<1>12. /\ \A d \in Dirs : promised'[d] # None => Holds(files'[d], promised'[d])
       /\ ReadInv'
  BY <1>1, <1>7, <1>8, <1>11, PutKeeps
<1>13. ASSUME ~saving'.lost, NEW j \in 1 .. 6, j < saving'.next
       PROVE  files'[saving'.dir][Sections[j]] = Written(memory)[Sections[j]]
  <2>1. CASE j = k
    BY <1>7, <1>8, <1>13, <2>1
  <2>2. CASE j # k
    <3>1. j < k
      BY <1>3, <1>8, <1>13, <2>2
    <3> QED
      BY <1>1, <1>2, <1>7, <1>8, <1>13, <3>1 DEF SaveInv
  <2> QED
    BY <2>1, <2>2
<1>14. SaveInv'
  BY <1>1, <1>12, <1>13 DEF SaveInv
<1> QED
  BY <1>9, <1>10, <1>12, <1>14 DEF CaseInv

\* A save ends by an error or with the process, with the current file as it was or
\* cut short.
LEMMA BreakingOffKeeps == ASSUME CaseInv, SaveFails \/ Crash PROVE CaseInv'
<1>1. /\ saving # None /\ saving' = None /\ UNCHANGED <<reader, steps, saves, promised>>
      /\ \/ UNCHANGED <<memory, directory, valid, origin>>
         \/ memory' = None /\ directory' = None /\ valid' = FALSE /\ origin' = None
      /\ UNCHANGED files \/ (saving.next <= 6 /\ Put(Torn))
  BY SectionFacts DEF SaveFails, Crash, Writing
<1>2. ShapeInv /\ MemoryInv /\ SaveInv /\ ReadInv
  BY DEF CaseInv
<1>3. saving \in [dir : Dirs, next : 1 .. 7, lost : BOOLEAN]
  BY <1>1, <1>2 DEF ShapeInv
<1>4. /\ DOMAIN files' = Dirs
      /\ \A d \in Dirs : DOMAIN files'[d] = Names /\ FileTypes(files'[d])
      /\ \A d \in Dirs : d # saving.dir => files'[d] = files[d]
  <2>1. CASE UNCHANGED files
    BY <1>2, <2>1 DEF ShapeInv, CaseTypeOK
  <2>2. CASE saving.next <= 6 /\ Put(Torn)
    <3>1. saving.next \in 1 .. 6
      BY <1>3, <2>2
    <3> QED
      BY <1>1, <1>2, <2>2, <3>1, PutFacts
  <2> QED
    BY <1>1, <2>1, <2>2
<1>5. ShapeInv'
  BY <1>1, <1>2, <1>4 DEF ShapeInv, CaseTypeOK
<1>6. MemoryInv'
  BY <1>1, <1>2 DEF MemoryInv
<1>7. /\ \A d \in Dirs : promised'[d] # None => Holds(files'[d], promised'[d])
      /\ ReadInv'
  BY <1>1, <1>4, PutKeeps
<1>8. SaveInv'
  BY <1>1, <1>7 DEF SaveInv
<1> QED
  BY <1>5, <1>6, <1>7, <1>8 DEF CaseInv

\* A save that ends well has written all six files of the open definition.
LEMMA SaveEndsKeeps == ASSUME CaseInv, SaveEnds PROVE CaseInv'
<1>1. /\ saving # None /\ ~(saving.next <= 6) /\ saving' = None /\ directory' = saving.dir
      /\ promised' = [promised EXCEPT ![saving.dir] =
                        IF valid /\ ~saving.lost THEN memory ELSE None]
      /\ UNCHANGED <<memory, files, reader, steps, saves, valid, origin>>
  BY SectionFacts DEF SaveEnds, Writing
<1>2. ShapeInv /\ MemoryInv /\ SaveInv /\ ReadInv
  BY DEF CaseInv
<1>3. /\ saving \in [dir : Dirs, next : 1 .. 7, lost : BOOLEAN]
      /\ memory # None /\ IsDefinition(memory) /\ Clean(memory)
  BY <1>1, <1>2 DEF ShapeInv, CaseTypeOK, MemoryInv
<1>4. /\ DOMAIN promised' = Dirs
      /\ promised'[saving.dir] = IF valid /\ ~saving.lost THEN memory ELSE None
      /\ \A d \in Dirs : d # saving.dir => promised'[d] = promised[d]
  BY <1>1, <1>2, <1>3 DEF ShapeInv
<1>5. ASSUME valid, ~saving.lost
      PROVE  Holds(files[saving.dir], memory)
  <2>1. saving.next = 7
    BY <1>1, <1>3
  <2>2. \A k \in 1 .. 6 : files[saving.dir][Sections[k]] = Written(memory)[Sections[k]]
    BY <1>1, <1>2, <1>5, <2>1 DEF SaveInv
  <2>3. \A s \in Names : files[saving.dir][s] = Written(memory)[s]
    BY <2>2, SectionNames
  <2> QED
    BY <1>2, <1>3, <1>5, <2>3 DEF Holds, MemoryInv
<1>6. ShapeInv'
  BY <1>1, <1>2, <1>3, <1>4 DEF ShapeInv, CaseTypeOK
<1>7. MemoryInv'
  BY <1>1, <1>2 DEF MemoryInv
<1>8. SaveInv'
  BY <1>1, <1>2, <1>3, <1>4, <1>5 DEF SaveInv
<1>9. ReadInv'
  BY <1>1, <1>2 DEF ReadInv, Holds
<1> QED
  BY <1>6, <1>7, <1>8, <1>9 DEF CaseInv

--------------------------------------------------------------------------------
(* The steps of a reading.                                                 *)

\* A reading takes over what its directory promises, unless a save is under way there.
LEMMA ReadBeginsKeeps == ASSUME CaseInv, NEW d \in Dirs, ReadBegins(d) PROVE CaseInv'
<1> DEFINE promise == IF saving # None /\ saving.dir = d THEN None ELSE promised[d]
<1>1. /\ reader' = [dir |-> d, parsed |-> <<>>, result |-> None, promised |-> promise]
      /\ UNCHANGED <<memory, directory, files, saving, steps, saves, valid, origin, promised>>
  BY DEF ReadBegins
<1>2. ShapeInv /\ MemoryInv /\ SaveInv
  BY DEF CaseInv
<1>3. /\ DOMAIN reader' = {"dir", "parsed", "result", "promised"}
      /\ reader'.dir = d /\ reader'.parsed = <<>> /\ reader'.result = None
      /\ reader'.promised = promise
  BY <1>1
<1>4. <<>> \in Seq({}) /\ Len(<<>>) = 0
  OBVIOUS
<1>5. ShapeInv'
  BY <1>1, <1>2, <1>3, <1>4 DEF ShapeInv, CaseTypeOK
<1>6. MemoryInv' /\ SaveInv'
  BY <1>1, <1>2 DEF MemoryInv, SaveInv
<1>7. ReadInv'
  <2>1. promise # None => ~(saving # None /\ saving.dir = d) /\ Holds(files[d], promise)
    BY <1>2 DEF SaveInv
  <2> HIDE DEF promise
  <2> QED
    BY <1>1, <1>3, <1>4, <2>1 DEF ReadInv, Holds
<1> QED
  BY <1>5, <1>6, <1>7 DEF CaseInv

\* A file is parsed; the last one is followed by the rules across files.
LEMMA ReadFileKeeps == ASSUME CaseInv, ReadFile PROVE CaseInv'
<1> DEFINE n == Len(reader.parsed) + 1
           contents == files[reader.dir][Sections[n]]
           parsed == Append(reader.parsed, contents)
<1>1. /\ reader # None /\ reader.result = None
      /\ reader' = IF contents = Torn THEN [reader EXCEPT !.result = Refused]
                   ELSE IF Len(parsed) < 6 THEN [reader EXCEPT !.parsed = parsed]
                   ELSE [reader EXCEPT !.parsed = <<>>,
                                       !.result = IF Accepted(Collected(parsed))
                                                  THEN Collected(parsed) ELSE Refused]
      /\ UNCHANGED <<memory, directory, files, saving, steps, saves, valid, origin, promised>>
  BY SectionFacts DEF ReadFile
<1>2. ShapeInv /\ MemoryInv /\ SaveInv /\ ReadInv
  BY DEF CaseInv
<1>3. /\ DOMAIN reader = {"dir", "parsed", "result", "promised"} /\ reader.dir \in Dirs
      /\ Len(reader.parsed) \in 0 .. 5 /\ n \in 1 .. 6
  BY <1>1, <1>2 DEF ShapeInv, ReadInv
<1>4. PICK S : reader.parsed \in Seq(S)
  BY <1>1, <1>2 DEF ShapeInv
<1>5. /\ parsed \in Seq(S \cup {contents}) /\ Len(parsed) = n /\ parsed[n] = contents
      /\ \A k \in 1 .. n - 1 : parsed[k] = reader.parsed[k]
  <2>1. reader.parsed \in Seq(S \cup {contents}) /\ contents \in S \cup {contents}
    BY <1>4
  <2> HIDE DEF contents
  <2> QED
    BY <2>1, AppendProperties
<1>6. contents = Torn \/ OfSection(Sections[n], contents)
  <2>1. Sections[n] \in Names
    BY <1>3, SectionNames
  <2>2. DOMAIN files[reader.dir] = Names /\ FileTypes(files[reader.dir])
    BY <1>2, <1>3 DEF ShapeInv, CaseTypeOK
  <2> QED
    BY <2>1, <2>2, ContentTypes
<1>7. reader.promised # None => contents = Written(reader.promised)[Sections[n]] /\ contents # Torn
  <2> SUFFICES ASSUME reader.promised # None
               PROVE  contents = Written(reader.promised)[Sections[n]] /\ contents # Torn
    OBVIOUS
  <2>1. Holds(files[reader.dir], reader.promised)
    BY <1>1, <1>2 DEF ReadInv
  <2>2. Sections[n] \in Names
    BY <1>3, SectionNames
  <2>3. contents = Written(reader.promised)[Sections[n]]
    BY <2>1, <2>2 DEF Holds
  <2> QED
    BY <2>1, <2>2, <2>3, WrittenFacts DEF Holds
<1>8. MemoryInv' /\ SaveInv'
  BY <1>1, <1>2 DEF MemoryInv, SaveInv
<1>9. contents # Torn =>
        \A k \in 1 .. n : parsed[k] # Torn /\ OfSection(Sections[k], parsed[k])
  <2> SUFFICES ASSUME contents # Torn, NEW k \in 1 .. n
               PROVE  parsed[k] # Torn /\ OfSection(Sections[k], parsed[k])
    OBVIOUS
  <2>1. CASE k = n
    BY <1>5, <1>6, <2>1
  <2>2. CASE k # n
    <3>1. k \in 1 .. Len(reader.parsed) /\ k \in 1 .. n - 1
      BY <1>3, <2>2
    <3> QED
      BY <1>1, <1>2, <1>5, <3>1 DEF ReadInv
  <2> QED
    BY <2>1, <2>2
<1>10. reader.promised # None =>
         \A k \in 1 .. n : parsed[k] = Written(reader.promised)[Sections[k]]
  <2> SUFFICES ASSUME reader.promised # None, NEW k \in 1 .. n
               PROVE  parsed[k] = Written(reader.promised)[Sections[k]]
    OBVIOUS
  <2>1. CASE k = n
    BY <1>5, <1>7, <2>1
  <2>2. CASE k # n
    <3>1. k \in 1 .. Len(reader.parsed) /\ k \in 1 .. n - 1
      BY <1>3, <2>2
    <3> QED
      BY <1>1, <1>2, <1>5, <3>1 DEF ReadInv
  <2> QED
    BY <2>1, <2>2
<1> HIDE DEF contents, parsed
<1>11. CASE contents = Torn
  <2>1. /\ DOMAIN reader' = DOMAIN reader /\ reader'.result = Refused
        /\ reader'.dir = reader.dir /\ reader'.parsed = reader.parsed
        /\ reader'.promised = reader.promised /\ reader.promised = None
    BY <1>1, <1>3, <1>7, <1>11
  <2>2. ShapeInv'
    BY <1>1, <1>2, <1>3, <1>4, <2>1 DEF ShapeInv, CaseTypeOK
  <2>3. ReadInv'
    BY <1>1, <1>2, <2>1 DEF ReadInv
  <2> QED
    BY <1>8, <2>2, <2>3 DEF CaseInv
<1>12. CASE contents # Torn /\ n < 6
  <2>1. /\ DOMAIN reader' = DOMAIN reader /\ reader'.result = None
        /\ reader'.dir = reader.dir /\ reader'.parsed = parsed
        /\ reader'.promised = reader.promised
    BY <1>1, <1>3, <1>5, <1>12
  <2>2. ShapeInv'
    BY <1>1, <1>2, <1>3, <1>5, <2>1 DEF ShapeInv, CaseTypeOK
  <2>3. Len(parsed) \in 0 .. 5
    BY <1>3, <1>5, <1>12
  <2>4. ReadInv'
    BY <1>1, <1>2, <1>5, <1>9, <1>10, <1>12, <2>1, <2>3 DEF ReadInv, Holds
  <2> QED
    BY <1>8, <2>2, <2>4 DEF CaseInv
<1>13. CASE contents # Torn /\ n = 6
  <2> DEFINE result == IF Accepted(Collected(parsed)) THEN Collected(parsed) ELSE Refused
  <2>1. /\ DOMAIN reader' = DOMAIN reader /\ reader'.result = result
        /\ reader'.dir = reader.dir /\ reader'.parsed = <<>>
        /\ reader'.promised = reader.promised
    BY <1>1, <1>3, <1>5, <1>13
  <2>2. IsDefinition(Collected(parsed))
    BY <1>9, <1>13, CollectedFacts
  <2>3. reader.promised # None => result = Kept(reader.promised)
    <3> SUFFICES ASSUME reader.promised # None PROVE result = Kept(reader.promised)
      OBVIOUS
    <3>1. Holds(files[reader.dir], reader.promised)
      BY <1>1, <1>2 DEF ReadInv
    <3>2. Collected(parsed) = Written(reader.promised)
      BY <1>10, <1>13, CollectedFacts
    <3> QED
      BY <3>1, <3>2, WrittenFacts DEF Holds
  <2>4. <<>> \in Seq({}) /\ Len(<<>>) = 0
    OBVIOUS
  <2>5. ShapeInv'
    BY <1>1, <1>2, <1>3, <2>1, <2>2, <2>4 DEF ShapeInv, CaseTypeOK
  <2>6. result \notin {None, Refused} => Accepted(result)
    OBVIOUS
  <2> HIDE DEF result
  <2>7. ReadInv'
    BY <1>1, <1>2, <2>1, <2>3, <2>4, <2>6 DEF ReadInv, Holds
  <2> QED
    BY <1>8, <2>5, <2>7 DEF CaseInv
<1> QED
  BY <1>3, <1>11, <1>12, <1>13

--------------------------------------------------------------------------------

\* The directories as they are found satisfy the invariant.
LEMMA CaseInvInit == CaseInit => CaseInv
<1> SUFFICES ASSUME CaseInit PROVE CaseInv
  OBVIOUS
<1>1. DOMAIN files = Dirs /\ \A d \in Dirs : IsDefinition(files[d])
  BY CaseFilesAssumption DEF CaseInit
<1>2. \A d \in Dirs : DOMAIN files[d] = Names /\ FileTypes(files[d])
  BY <1>1, DefinitionTypes, ContentTypes
<1>3. ShapeInv
  <2>1. DOMAIN promised = Dirs /\ \A d \in Dirs : promised[d] = None
    BY DEF CaseInit
  <2>2. steps \in 0 .. MaxSteps /\ saves \in 0 .. MaxSaves
    BY StepBounds DEF CaseInit
  <2>3. /\ memory = None /\ directory = None /\ saving = None /\ reader = None
        /\ valid = FALSE /\ origin = None
    BY DEF CaseInit
  <2>4. CaseTypeOK
    BY <1>2, <2>1, <2>2, <2>3 DEF CaseTypeOK
  <2> QED
    BY <1>1, <1>2, <2>1, <2>3, <2>4 DEF ShapeInv
<1>4. MemoryInv /\ SaveInv /\ ReadInv
  BY DEF CaseInit, MemoryInv, SaveInv, ReadInv
<1> QED
  BY <1>3, <1>4 DEF CaseInv

\* Every step keeps the invariant.
LEMMA CaseInvStep == CaseInv /\ [CaseNext]_caseVars => CaseInv'
<1> SUFFICES ASSUME CaseInv, [CaseNext]_caseVars PROVE CaseInv'
  OBVIOUS
<1>1. CASE Save
  BY <1>1, StepBounds, SaveAsKeeps DEF Save
<1>2. CASE ReadEnds
  <2>1. reader' = None
        /\ UNCHANGED <<memory, directory, files, saving, steps, saves, valid, origin, promised>>
    BY <1>2 DEF ReadEnds
  <2> QED
    BY <2>1 DEF CaseInv, ShapeInv, CaseTypeOK, MemoryInv, SaveInv, ReadInv
<1>3. CASE UNCHANGED caseVars
  BY <1>3 DEF caseVars, CaseInv, ShapeInv, CaseTypeOK, MemoryInv, SaveInv, ReadInv
<1> QED
  BY <1>1, <1>2, <1>3, StepBounds, WindowKeeps, SaveAsKeeps, WritingKeeps, BreakingOffKeeps,
     SaveEndsKeeps, ReadBeginsKeeps, ReadFileKeeps
  DEF CaseNext

\* For any directories, any cases in them and any bounds, the invariant holds in every
\* state of every behaviour.
THEOREM CaseInvariant == CaseSpec => []CaseInv
  BY CaseInvInit, CaseInvStep, PTL DEF CaseSpec

\* The type invariant of the case files.
THEOREM CaseTypes == CaseSpec => []CaseTypeOK
<1>1. CaseInv => CaseTypeOK
  BY DEF CaseInv, ShapeInv
<1> QED
  BY <1>1, CaseInvariant, PTL

\* A definition that CaseReader::read returns has every entry CaseBuilder::build takes
\* out of it unchecked, whatever mixture of files it was read from.
THEOREM WhatIsReadCanBeBuilt == CaseSpec => []AcceptedCaseBuilds
<1>1. CaseInv => AcceptedCaseBuilds
  BY AcceptedFacts DEF CaseInv, ReadInv, AcceptedCaseBuilds
<1> QED
  BY <1>1, CaseInvariant, PTL

\* A draft that validated and was saved without an error or a loss is the case the next
\* run reads, until that directory is saved to again (SimulationController::validateDraft
\* and CaseSession::saveAs against CaseReader::read).
THEOREM WhatIsValidatedIsRun == CaseSpec => []ValidatedCaseIsRun
<1>1. CaseInv => ValidatedCaseIsRun
  BY DEF CaseInv, ReadInv, ValidatedCaseIsRun
<1> QED
  BY <1>1, CaseInvariant, PTL

\* A definition one commit of the mesh page and one of the boundaries away from a
\* clean one with physics it may have is accepted.
LEMMA Completion ==
  ASSUME NEW d, IsDefinition(d), Clean(d), PhysicsCompatible(WrittenPhysics(d.physics)),
         d.geometry = "box" => FitsBox(d.physics)
  PROVE  \E cells, layers, geometric, fits \in BOOLEAN :
           Accepted(Written(Completed(d, cells, layers, geometric, fits)))
<1>1. PICK cells, layers, geometric, fits \in BOOLEAN : cells /\ layers /\ ~geometric /\ fits
  OBVIOUS
<1> DEFINE m == MeshFrom(d.mesh, d.geometry, cells, layers, geometric, fits)
           F == FieldsFor(d.physics)
           b == [p \in MeshPatchNames(m) |-> F]
           e == [d EXCEPT !.mesh = m, !.boundaries = b]
<1>2. /\ m \in Meshes /\ m.type = d.mesh.type /\ m.patches = d.mesh.patches
      /\ m.cells <=> d.mesh.type # "multiblock"
      /\ m.layers <=> d.geometry = "box"
      /\ m.graded <=> d.mesh.type = "structured_cartesian" /\ d.mesh.graded
      /\ m.vertices = IF d.mesh.type # "structured_quad" THEN d.mesh.vertices ELSE "fit"
  <2>1. /\ m \in Meshes /\ m.type = d.mesh.type /\ m.patches = d.mesh.patches
        /\ m.cells <=> d.mesh.type # "multiblock" /\ cells
        /\ m.layers <=> d.geometry = "box" /\ layers
        /\ m.graded <=> /\ d.mesh.type = "structured_cartesian"
                        /\ d.mesh.graded \/ (geometric /\ d.geometry # "box")
        /\ m.vertices = IF d.mesh.type # "structured_quad" THEN d.mesh.vertices
                        ELSE IF fits THEN "fit" ELSE "misfit"
    BY MeshPageKeys
  <2> HIDE DEF m
  <2> QED
    BY <1>1, <2>1
<1> HIDE DEF m
<1>3. DOMAIN d = Names
  BY DEF IsDefinition, Names
<1>4. IsBoundaries(b)
  <2>1. MeshPatchNames(m) \in PatchSets
    BY <1>2 DEF MeshPatchNames, PatchSets, Meshes
  <2>2. F \in SUBSET Fields
    BY DEF FieldsFor
  <2> HIDE DEF F
  <2> QED
    BY <2>1, <2>2 DEF IsBoundaries
<1> HIDE DEF F, b
<1>5. /\ e.mesh = m /\ e.boundaries = b /\ DOMAIN e = Names
      /\ e.case = d.case /\ e.geometry = d.geometry /\ e.physics = d.physics
      /\ e.solver = d.solver
  BY <1>3 DEF Names
<1>6. IsDefinition(e)
  BY <1>2, <1>4, <1>5 DEF IsDefinition
<1>7. Clean(e)
  BY <1>2, <1>5 DEF Clean
<1>8. /\ Written(e).mesh = m /\ Written(e).boundaries = b
      /\ Written(e).physics = WrittenPhysics(d.physics)
      /\ Written(e).geometry = d.geometry /\ Written(e).case = Dimension(d.geometry)
      /\ FieldsFor(Written(e).physics) = F
  BY <1>5, <1>6, <1>7, WrittenFacts DEF Written, F
<1>9. d.mesh \in Meshes /\ Clean(d)
  BY DEF IsDefinition
<1>10. MeshParses(m)
  <2>1. CASE m.type = "structured_cartesian"
    BY <1>2, <1>9, <2>1 DEF MeshParses, Clean
  <2>2. CASE m.type = "structured_quad"
    BY <1>2, <1>9, <2>2 DEF MeshParses, Clean
  <2>3. CASE m.type = "multiblock"
    BY <1>2, <1>9, <2>3 DEF MeshParses, Clean
  <2> QED
    BY <1>2, <2>1, <2>2, <2>3 DEF Meshes
<1>11. BoundariesParse(Written(e).boundaries, Written(e).physics)
  BY <1>8 DEF BoundariesParse, b
<1>12. d.geometry = "box" => FitsBox(Written(e).physics)
  <2>1. d.physics \in Physics
    BY DEF IsDefinition
  <2>2. /\ WrittenPhysics(d.physics).modules = d.physics.modules
        /\ WrittenPhysics(d.physics).gas = d.physics.gas
        /\ WrittenPhysics(d.physics).turbulence = d.physics.turbulence
    BY <2>1 DEF WrittenPhysics, Physics
  <2> QED
    BY <1>8, <2>2 DEF FitsBox
<1>13. CrossFile(Written(e))
  <2>1. d.geometry = "box" => d.mesh.type = "structured_cartesian"
    BY DEF Clean
  <2>2. d.mesh.type = "multiblock" <=> d.geometry = "mesh_defined"
    BY DEF Clean
  <2>3. DOMAIN b = MeshPatchNames(m)
    BY DEF b
  <2> QED
    BY <1>2, <1>8, <1>12, <2>1, <2>2, <2>3 DEF CrossFile
<1>14. Accepted(Written(e))
  BY <1>8, <1>10, <1>11, <1>13 DEF Accepted
<1>15. e = Completed(d, cells, layers, geometric, fits)
  BY DEF Completed, m, b, F
<1> QED
  BY <1>14, <1>15

\* Whatever the pages and setBoundaryConfig() have made of a case, the mesh page and one
\* more boundary section make it valid again, its physics permitting.
THEOREM NothingIsADeadEnd == CaseSpec => []NoDeadEnd
<1>1. CaseInv => NoDeadEnd
  BY Completion DEF CaseInv, ShapeInv, CaseTypeOK, MemoryInv, NoDeadEnd
<1> QED
  BY <1>1, CaseInvariant, PTL
================================================================================
