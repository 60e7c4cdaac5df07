------------------------------- MODULE CaseFiles -------------------------------
(***************************************************************************)
(* A case on disk: the six files of a case directory, the editor pages     *)
(* that change the open definition, CaseWriter, which writes the files one *)
(* after the other and in place, and CaseReader, which parses them in the  *)
(* same order and checks them against each other (src/src/io/CaseWriter    *)
(* .cpp, CaseReader.cpp, case/*Parser.cpp, src/apps/gui/CaseModelAdapter   *)
(* .cpp).  The reader is the worker of a run, or the command line, and may *)
(* read while the GUI saves; a save may fail, lose data without noticing   *)
(* it, or be cut short with the process.                                   *)
(*                                                                         *)
(* A definition keeps of each file what another file, the parser or the    *)
(* builder looks at; numbers are left out, except that a mesh may have no  *)
(* cells and that a vertex grid may not fit them.                          *)
(***************************************************************************)
EXTENDS Naturals, FiniteSets, Sequences

CONSTANTS
  Dirs,           \* case directories
  Targets,        \* those a save may write and a run may read
  Disks,          \* what the directories may hold at the start
  Untitled,       \* the definition newCase() starts from
  Toggles,        \* the modules the physics page turns on and off
  BoundaryMaps,   \* the boundary sections setBoundaryConfig() is handed as a whole
  MaxSteps,       \* bound on the cases opened, the edits and the validations
  MaxSaves,       \* bound on the saves of a behaviour
  Torn,           \* what a file cut short holds: no JSON document
  Refused,        \* the result of a reading that threw
  None            \* no definition, no save, no reading

Sections == <<"case", "geometry", "mesh", "physics", "boundaries", "solver">>

Modules     == {"thermal", "buoyancy", "species", "multiphase"}
Turbulences == {"absent", "laminar", "modelled"}
Gases       == {"none", "isothermal", "thermal"}
Fields      == {"temperature", "species", "alpha"}

Geometries == {"rectangle", "box", "mesh_defined"}
Numerics   == {"default", "chosen"}

FourSides == {"left", "right", "bottom", "top"}
SixSides  == {"xmin", "xmax", "ymin", "ymax", "zmin", "zmax"}

\* cells: nx, ny > 0; layers: nz > 0; vertices: the grid of a structured_quad or
\* the blocks of a multiblock mesh, whose patches are named here; "misfit" is a quad
\* grid of another size than the cells, or one whose edges are not the rectangle's.
Meshes ==
  [type     : {"structured_cartesian", "structured_quad", "multiblock"},
   cells    : BOOLEAN,
   layers   : BOOLEAN,
   graded   : BOOLEAN,
   vertices : {"none", "fit", "misfit"},
   patches  : SUBSET {"wall", "inlet"}]

\* turbulence: the block, whose model may be laminar; gas: the "compressible" block,
\* isothermal or with thermal_coupled.
Physics ==
  [modules    : SUBSET Modules,
   turbulence : Turbulences,
   gas        : Gases,
   coupled    : BOOLEAN]

\* The patches configured and the optional fields each carries.
PatchSets == SUBSET (FourSides \cup SixSides \cup {"wall", "inlet"})

IsBoundaries(b) == DOMAIN b \in PatchSets /\ b \in [DOMAIN b -> SUBSET Fields]

\* case: the components of the initial velocity, 0 when the block is absent;
\* numerics: the schemes, corrections and robustness settings of solver.json.
IsDefinition(d) ==
  /\ DOMAIN d = {"case", "geometry", "mesh", "physics", "boundaries", "solver"}
  /\ d.case \in {0, 2, 3}
  /\ d.geometry \in Geometries
  /\ d.mesh \in Meshes
  /\ d.physics \in Physics
  /\ IsBoundaries(d.boundaries)
  /\ d.solver \in Numerics

ASSUME CaseFilesAssumption ==
  /\ IsDefinition(Untitled)
  /\ Untitled.geometry = "rectangle" /\ DOMAIN Untitled.boundaries = {}
  /\ Untitled.mesh.type = "structured_cartesian"
  /\ Untitled.mesh.vertices = "none" /\ Untitled.mesh.patches = {}
  /\ ~Untitled.mesh.layers
  /\ Torn \notin {0, 2, 3} /\ Torn \notin Geometries \cup Numerics
  /\ Torn \notin Meshes /\ Torn \notin Physics
  /\ \A patches \in PatchSets : Torn \notin [patches -> SUBSET Fields]
  /\ \A disk \in Disks : DOMAIN disk = Dirs /\ \A d \in Dirs : IsDefinition(disk[d])
  /\ Targets \subseteq Dirs
  /\ Toggles \subseteq Modules
  /\ \A b \in BoundaryMaps : IsBoundaries(b)
  /\ MaxSteps \in Nat /\ MaxSaves \in Nat

VARIABLES
  memory,     \* the session's definition, or None
  directory,  \* the session's directory, or None
  files,      \* what each file of each directory holds: a section or Torn
  saving,     \* the save in progress: its directory, the file it writes next and
              \* whether one has been lost; None between saves
  reader,     \* the reading in progress: its directory, the files parsed so far
              \* and the result; None between readings
  steps,      \* cases opened, edits and validations
  saves,      \* saves begun
  valid,      \* history: validateDraft() accepted memory as it is
  origin,     \* history: the definition the open case was opened with, or None
  promised    \* history: the validated definition a directory holds since it was
              \* saved without an error, or None

caseVars == <<memory, directory, files, saving, reader, steps, saves, valid,
              origin, promised>>

--------------------------------------------------------------------------------
(* CaseWriter: what each file holds for a definition.                      *)

Dimension(geometry) == IF geometry = "box" THEN 3 ELSE 2

\* A multiblock mesh replaces the whole document, the cell counts with it; only
\* a structured_quad gets its vertices.
WrittenMesh(m) ==
  CASE m.type = "multiblock"      -> [m EXCEPT !.cells = FALSE, !.layers = FALSE]
    [] m.type = "structured_quad" -> [m EXCEPT !.patches = {}]
    [] OTHER                      -> [m EXCEPT !.vertices = "none", !.patches = {}]

\* compressible.coupled is not among the keys written.
WrittenPhysics(p) == [p EXCEPT !.coupled = FALSE]

Written(d) ==
  [case       |-> Dimension(d.geometry),
   geometry   |-> d.geometry,
   mesh       |-> WrittenMesh(d.mesh),
   physics    |-> WrittenPhysics(d.physics),
   boundaries |-> d.boundaries,
   solver     |-> d.solver]

--------------------------------------------------------------------------------
(* CaseReader: the parsers' rules, then the rules across files.            *)

MeshParses(m) ==
  CASE m.type = "structured_cartesian" -> /\ m.cells /\ ~(m.layers /\ m.graded)
                                          /\ m.vertices = "none" /\ m.patches = {}
    [] m.type = "structured_quad"      -> /\ m.cells /\ ~m.layers /\ ~m.graded
                                          /\ m.vertices = "fit" /\ m.patches = {}
    [] OTHER                           -> /\ ~m.cells /\ ~m.layers /\ ~m.graded
                                          /\ m.vertices # "none" /\ m.patches # {}

\* validatePhysicsCompatibility
PhysicsCompatible(p) ==
  /\ "buoyancy" \in p.modules => "thermal" \in p.modules
  /\ p.gas = "thermal" => "thermal" \in p.modules
  /\ "multiphase" \in p.modules => p.turbulence = "absent" /\ p.gas = "none"
  /\ p.coupled => /\ p.gas # "none" /\ p.turbulence = "absent"
                  /\ "buoyancy" \notin p.modules

FieldsFor(p) ==
  {f \in Fields : \/ f = "temperature" /\ "thermal" \in p.modules
                  \/ f = "species" /\ "species" \in p.modules
                  \/ f = "alpha" /\ "multiphase" \in p.modules}

\* Every patch carries exactly the fields of the modules that are on.
BoundariesParse(b, p) == \A q \in DOMAIN b : b[q] = FieldsFor(p)

MeshPatchNames(m) ==
  IF m.layers THEN SixSides
  ELSE IF m.type = "multiblock" THEN m.patches ELSE FourSides

\* What a three-dimensional case may have of the physics: a laminar flow.
FitsBox(p) == p.modules = {} /\ p.gas = "none" /\ p.turbulence # "modelled"

\* Mutated form: nz is not compared with the geometry.
CrossFileIgnoringLayers(d) ==
  /\ d.geometry = "box" => d.mesh.type = "structured_cartesian"
  /\ (d.mesh.type = "multiblock") <=> (d.geometry = "mesh_defined")
  /\ DOMAIN d.boundaries = MeshPatchNames(d.mesh)

CrossFile(d) ==
  /\ d.case # 0 => d.case = Dimension(d.geometry)
  /\ IF d.geometry = "box"
     THEN /\ d.mesh.type = "structured_cartesian" /\ d.mesh.layers
          /\ FitsBox(d.physics)
     ELSE ~d.mesh.layers
  /\ (d.mesh.type = "multiblock") <=> (d.geometry = "mesh_defined")
  /\ DOMAIN d.boundaries = MeshPatchNames(d.mesh)

Accepted(d) ==
  /\ MeshParses(d.mesh)
  /\ PhysicsCompatible(d.physics)
  /\ BoundariesParse(d.boundaries, d.physics)
  /\ CrossFile(d)

--------------------------------------------------------------------------------
(* The editor pages.  A page hands back the map it was given with the one   *)
(* value changed, and the adapter rebuilds the section from it.            *)

\* The UI thread is busy while it saves. Its other steps touch neither the files
\* nor the reading, so they need not be taken in the middle of one.
UiFree == saving = None /\ reader = None

UiStep ==
  /\ UiFree
  /\ steps < MaxSteps
  /\ steps' = steps + 1

Edited(d) ==
  /\ UiStep
  /\ memory # None
  /\ memory' = d
  /\ valid' = FALSE
  /\ UNCHANGED <<directory, files, saving, reader, saves, origin, promised>>

\* Mutated form: the grading is offered for a box as well.
MeshFromGradingAny(m, geometry, cells, layers, geometric, fits) ==
  [m EXCEPT
     !.cells    = m.type # "multiblock" /\ cells,
     !.layers   = IF geometry = "box" THEN layers ELSE @,
     !.graded   = m.type = "structured_cartesian" /\ (@ \/ geometric),
     !.vertices = IF m.type # "structured_quad" THEN @
                  ELSE IF fits THEN "fit" ELSE "misfit"]

\* The page keeps the types it was given. Its map has nz for a box only, and grading
\* for a cartesian mesh that is not one; vertices and blocks are never in it and are
\* kept as they are: a vertex grid fits or does not as the new counts and lengths say.
MeshFrom(m, geometry, cells, layers, geometric, fits) ==
  [m EXCEPT
     !.cells    = m.type # "multiblock" /\ cells,
     !.layers   = IF geometry = "box" THEN layers ELSE @,
     !.graded   = /\ m.type = "structured_cartesian"
                  /\ @ \/ (geometric /\ geometry # "box"),
     !.vertices = IF m.type # "structured_quad" THEN @
                  ELSE IF fits THEN "fit" ELSE "misfit"]

SetMeshAndGeometry ==
  /\ memory # None
  /\ \E cells, layers, geometric, fits \in BOOLEAN :
       Edited([memory EXCEPT
                    !.mesh = MeshFrom(@, memory.geometry, cells, layers, geometric, fits)])

Toggled(set, m) == IF m \in set THEN set \ {m} ELSE set \cup {m}

\* Every commit of the page builds the section afresh, without a coupled key.
SetPhysicsConfig ==
  /\ memory # None
  /\ \/ \E m \in Toggles :
          Edited([memory EXCEPT !.physics.modules = Toggled(@, m),
                                !.physics.coupled = FALSE])
     \/ \E t \in Turbulences :
          Edited([memory EXCEPT !.physics.turbulence = t, !.physics.coupled = FALSE])
     \/ \E g \in Gases :
          Edited([memory EXCEPT !.physics.gas = g, !.physics.coupled = FALSE])

\* One patch, or all of them one after the other.
PatchChoices ==
  {{p} : p \in DOMAIN memory.boundaries} \cup ({DOMAIN memory.boundaries} \ {{}})

\* The page shows the patches the case has, with the fields of the modules that
\* are on; it can give a patch a field but neither take one away nor add a patch.
\* setBoundaryConfig() itself takes any map: it is how a new case gets its patches.
SetBoundaryConfig ==
  /\ memory # None
  /\ \/ \E f \in FieldsFor(memory.physics), patches \in PatchChoices :
          Edited([memory EXCEPT !.boundaries =
                    [p \in DOMAIN @ |-> IF p \in patches THEN @[p] \cup {f} ELSE @[p]]])
     \/ \E b \in BoundaryMaps : Edited([memory EXCEPT !.boundaries = b])

\* The map carries none of the schemes and robustness settings, and the section
\* is built from a fresh default.
SetSolverConfig == Edited([memory EXCEPT !.solver = "default"])

--------------------------------------------------------------------------------
(* The session: new, open, validate, save.                                 *)

\* Not counted among the steps: it always leads to the same definition.
NewCase ==
  /\ UiFree
  /\ memory' = Untitled
  /\ directory' = None
  /\ valid' = FALSE
  /\ origin' = None
  /\ UNCHANGED <<files, saving, reader, steps, saves, promised>>

Whole(contents) == \A s \in DOMAIN contents : contents[s] # Torn

OpenCase(d) ==
  /\ UiStep
  /\ Whole(files[d]) /\ Accepted(files[d])
  /\ memory' = files[d]
  /\ directory' = d
  /\ valid' = FALSE
  /\ origin' = files[d]
  /\ UNCHANGED <<files, saving, reader, saves, promised>>

\* The draft is written to a scratch directory, read back and built.
ValidateDraft ==
  /\ UiStep
  /\ memory # None
  /\ valid' = Accepted(Written(memory))
  /\ UNCHANGED <<memory, directory, files, saving, reader, saves, origin,
                 promised>>

\* A reading that overlaps a save of its directory promises nothing.
Overlapped(d) ==
  IF reader # None /\ reader.dir = d THEN [reader EXCEPT !.promised = None] ELSE reader

\* Mutated form: a save without a case is not refused.
SavesNoCase(d) ==
  /\ saving = None
  /\ saves < MaxSaves
  /\ saving' = [dir |-> d, next |-> 1, lost |-> FALSE]
  /\ saves' = saves + 1
  /\ reader' = Overlapped(d)
  /\ promised' = [promised EXCEPT ![d] = None]
  /\ UNCHANGED <<memory, directory, files, steps, valid, origin>>

SaveAs(d) ==
  /\ saving = None
  /\ memory # None
  /\ saves < MaxSaves
  /\ saving' = [dir |-> d, next |-> 1, lost |-> FALSE]
  /\ saves' = saves + 1
  /\ reader' = Overlapped(d)
  /\ promised' = [promised EXCEPT ![d] = None]
  /\ UNCHANGED <<memory, directory, files, steps, valid, origin>>

Save == directory \in Targets /\ SaveAs(directory)

Writing == saving # None /\ saving.next <= Len(Sections)

Put(contents) ==
  files' = [files EXCEPT ![saving.dir][Sections[saving.next]] = contents]

\* Mutated form: a section that is all defaults is not written.
WritesWhatIsChosen ==
  /\ Writing
  /\ IF Sections[saving.next] = "solver" /\ memory.solver = "default"
     THEN UNCHANGED files
     ELSE Put(Written(memory)[Sections[saving.next]])
  /\ saving' = [saving EXCEPT !.next = @ + 1]
  /\ UNCHANGED <<memory, directory, reader, steps, saves, valid, origin, promised>>

WriteFile ==
  /\ Writing
  /\ Put(Written(memory)[Sections[saving.next]])
  /\ saving' = [saving EXCEPT !.next = @ + 1]
  /\ UNCHANGED <<memory, directory, reader, steps, saves, valid, origin, promised>>

\* The stream is looked at before the file is closed: what a full disk loses in
\* the last flush is not noticed, and the save goes on. One loss per save is enough:
\* a file that does not parse ends the reading.
LoseFile ==
  /\ Writing
  /\ ~saving.lost
  /\ Put(Torn)
  /\ saving' = [saving EXCEPT !.next = @ + 1, !.lost = TRUE]
  /\ UNCHANGED <<memory, directory, reader, steps, saves, valid, origin, promised>>

\* IOError, before the file was truncated or after: the session keeps what it
\* has, directory_ included.
SaveFails ==
  /\ Writing
  /\ UNCHANGED files \/ Put(Torn)
  /\ saving' = None
  /\ UNCHANGED <<memory, directory, reader, steps, saves, valid, origin, promised>>

SaveEnds ==
  /\ saving # None /\ ~Writing
  /\ saving' = None
  /\ directory' = saving.dir
  /\ promised' = [promised EXCEPT ![saving.dir] =
                    IF valid /\ ~saving.lost THEN memory ELSE None]
  /\ UNCHANGED <<memory, files, reader, steps, saves, valid, origin>>

\* The GUI's process ends, in the middle of a file or between two.
Crash ==
  /\ saving # None
  /\ UNCHANGED files \/ (Writing /\ Put(Torn))
  /\ memory' = None
  /\ directory' = None
  /\ saving' = None
  /\ valid' = FALSE
  /\ origin' = None
  /\ UNCHANGED <<reader, steps, saves, promised>>

--------------------------------------------------------------------------------
(* CaseReader::read, as a run's worker or the command line calls it.       *)

ReadBegins(d) ==
  /\ reader = None
  /\ reader' = [dir |-> d, parsed |-> <<>>, result |-> None,
                promised |-> IF saving # None /\ saving.dir = d
                             THEN None ELSE promised[d]]
  /\ UNCHANGED <<memory, directory, files, saving, steps, saves, valid, origin,
                 promised>>

Collected(parsed) ==
  [s \in {Sections[k] : k \in DOMAIN Sections} |->
     parsed[CHOOSE k \in DOMAIN Sections : Sections[k] = s]]

\* A rule about one file, or about it and those before it, is applied with the
\* rules across files at the end: where it refuses makes no difference.
ReadFile ==
  /\ reader # None /\ reader.result = None
  /\ LET contents == files[reader.dir][Sections[Len(reader.parsed) + 1]]
         parsed   == Append(reader.parsed, contents)
     IN reader' =
          IF contents = Torn THEN [reader EXCEPT !.result = Refused]
          ELSE IF Len(parsed) < Len(Sections) THEN [reader EXCEPT !.parsed = parsed]
          ELSE [reader EXCEPT !.parsed = <<>>,
                              !.result = IF Accepted(Collected(parsed))
                                         THEN Collected(parsed) ELSE Refused]
  /\ UNCHANGED <<memory, directory, files, saving, steps, saves, valid, origin,
                 promised>>

ReadEnds ==
  /\ reader # None /\ reader.result # None
  /\ reader' = None
  /\ UNCHANGED <<memory, directory, files, saving, steps, saves, valid, origin,
                 promised>>

CaseInit ==
  /\ memory = None
  /\ directory = None
  /\ files \in Disks
  /\ saving = None
  /\ reader = None
  /\ steps = 0
  /\ saves = 0
  /\ valid = FALSE
  /\ origin = None
  /\ promised = [d \in Dirs |-> None]

CaseNext ==
  \/ NewCase
  \/ SetMeshAndGeometry
  \/ SetPhysicsConfig
  \/ SetBoundaryConfig
  \/ SetSolverConfig
  \/ ValidateDraft
  \/ Save
  \/ WriteFile
  \/ LoseFile
  \/ SaveFails
  \/ SaveEnds
  \/ Crash
  \/ ReadFile
  \/ ReadEnds
  \/ \E d \in Dirs : OpenCase(d)
  \/ \E d \in Targets : SaveAs(d) \/ ReadBegins(d)

CaseSpec == CaseInit /\ [][CaseNext]_caseVars

--------------------------------------------------------------------------------
(* Properties.                                                             *)

FileTypes(contents) ==
  \A s \in DOMAIN contents :
    \/ contents[s] = Torn
    \/ CASE s = "case"     -> contents[s] \in {0, 2, 3}
         [] s = "geometry" -> contents[s] \in Geometries
         [] s = "mesh"     -> contents[s] \in Meshes
         [] s = "physics"  -> contents[s] \in Physics
         [] s = "solver"   -> contents[s] \in Numerics
         [] OTHER          -> IsBoundaries(contents[s])

\* Types, and that a save is of the open definition and a file index in range.
CaseTypeOK ==
  /\ memory = None \/ IsDefinition(memory)
  /\ directory \in Dirs \cup {None}
  /\ \A d \in Dirs : /\ FileTypes(files[d])
                     /\ promised[d] = None \/ IsDefinition(promised[d])
  /\ saving # None => /\ memory # None
                      /\ saving.dir \in Dirs
                      /\ saving.next \in 1 .. Len(Sections) + 1
                      /\ promised[saving.dir] = None
  /\ reader # None => \/ reader.result \in {None, Refused}
                      \/ IsDefinition(reader.result)
  /\ steps \in 0 .. MaxSteps /\ saves \in 0 .. MaxSaves
  /\ valid \in BOOLEAN
  /\ origin = None \/ IsDefinition(origin)

\* The patches of the mesh CaseBuilder generates.
BuiltPatches(d) ==
  CASE d.geometry = "box"          -> SixSides
    [] d.mesh.type = "multiblock"  -> d.mesh.patches
    [] OTHER                       -> FourSides

\* What CaseBuilder::build takes out of a definition with .at() and .value().
BuilderFinds(d) ==
  /\ BuiltPatches(d) \subseteq DOMAIN d.boundaries
  /\ \A p \in BuiltPatches(d) :
       /\ "thermal" \in d.physics.modules => "temperature" \in d.boundaries[p]
       /\ "species" \in d.physics.modules => "species" \in d.boundaries[p]
       /\ "multiphase" \in d.physics.modules => "alpha" \in d.boundaries[p]

\* Whatever a reading meets - a save half way, its remains after a failure or a
\* crash, two cases mixed in one directory - a definition it returns has every
\* entry CaseBuilder looks up without checking.
AcceptedCaseBuilds ==
  reader # None /\ reader.result \notin {None, Refused}
    => BuilderFinds(reader.result)

\* What a save keeps of a valid draft: all but compressible.coupled, with the
\* initial velocity's components those of the geometry.
Kept(d) == [d EXCEPT !.case = Dimension(d.geometry), !.physics.coupled = FALSE]

\* A draft that validated and was saved without an error or a loss is the case
\* the next run reads, until another save of that directory begins.
ValidatedCaseIsRun ==
  reader # None /\ reader.result # None /\ reader.promised # None
    => reader.result = Kept(reader.promised)

\* One commit of the mesh page, and one of the boundaries its mesh calls for.
Completed(d, cells, layers, geometric, fits) ==
  LET m == MeshFrom(d.mesh, d.geometry, cells, layers, geometric, fits)
  IN [d EXCEPT !.mesh = m,
               !.boundaries = [p \in MeshPatchNames(m) |-> FieldsFor(d.physics)]]

\* No sequence of edits is a dead end: whatever has become of the sections, if the
\* physics is one the case may have then a commit of the mesh page and one of
\* setBoundaryConfig() make a definition that validates, with nothing else given up.
NoDeadEnd ==
  (/\ memory # None /\ PhysicsCompatible(WrittenPhysics(memory.physics))
   /\ memory.geometry = "box" => FitsBox(memory.physics))
    => \E cells, layers, geometric, fits \in BOOLEAN :
         Accepted(Written(Completed(memory, cells, layers, geometric, fits)))

\* CaseWriter.hpp:12-15: a definition CaseReader produced, written and read
\* again, is the same field for field; here for the physics of a case opened,
\* validated and saved without an edit.
RoundTripKeepsPhysics ==
  (/\ reader # None /\ reader.result # None
   /\ reader.promised = origin /\ origin # None)
    => reader.result.physics = origin.physics
================================================================================
