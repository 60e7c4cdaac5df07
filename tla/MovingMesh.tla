------------------------------ MODULE MovingMesh ------------------------------
(***************************************************************************)
(* The life of one mesh: built from mesh.json and judged by the gate       *)
(* (CaseBuilder::build), then moved step by step by an object of class     *)
(* MeshMotion, whose last step can be undone. Transient solvers advance    *)
(* it once per step and revert it when the step is rejected.               *)
(***************************************************************************)
EXTENDS BlockMesh

CONSTANTS
    Specs,          \* the mesh.json files: type, box (the rectangle), blocks, interfaces, patches
    Moving,         \* those of them whose mesh a prescribed motion moves
    Displacements,  \* by how much a motion displaces vertices
    MaxTime         \* bound on the number of steps a motion is ahead of its start

\* What reading mesh.json gives.
MeshFiles ==
    [ type : {"multiblock", "structured_quad"}, box : Int \X Int, blocks : Seq(Blocks),
      interfaces : Seq(Interfaces), patches : Seq(Seq(SideRefs)) ]

\* One block alone has its four sides as patches, and vertices stay on the
\* lattice.
ASSUME MovingMeshAssumption ==
    /\ Specs \subseteq MeshFiles
    /\ \A s \in Specs : s.type = "structured_quad" =>
          Len(s.blocks) = 1 /\ s.interfaces = << >> /\ s.patches = FourPatches
    /\ Moving \subseteq Specs
    /\ <<0, 0>> \in Displacements /\ Displacements \subseteq Int \X Int
    /\ MaxTime \in Nat

VARIABLES
    spec,       \* the mesh.json read
    state,      \* "read", "rejected" (the builder threw), "invalid" (the gate), "ready", "moving"
    mesh,       \* cells, faces, patches and grids, or NoMesh
    topology,   \* MeshMotion::topology_
    reference,  \* reference_: the welded vertices at the start
    current,    \* current_: where they are
    time,       \* time_, in steps since startTime_
    undo,       \* canRevert_ and the revert members
    step        \* lastStep_

vars == <<spec, state, mesh, topology, reference, current, time, undo, step>>
motionVars == <<topology, reference, current, time, undo, step>>

NoMesh == << >>
NoStep == [moved |-> FALSE, swept4 |-> << >>, previous |-> << >>]
NothingToUndo == [can |-> FALSE, time |-> 0, vertices |-> << >>, geometry |-> << >>]

-----------------------------------------------------------------------------
(* What a mesh is made of, in vertices. *)

\* Vertices with equal coordinates are one: in the order they first appear.
WeldedVertices(grids) ==
    LET all == FlattenSeq([ b \in DOMAIN grids |-> grids[b].vertices ])
        weld[n \in 0..Len(all)] ==
            IF n = 0 THEN << >>
            ELSE LET welded == weld[n - 1]
                 IN  IF Contains(welded, all[n]) THEN welded ELSE Append(welded, all[n])
    IN  weld[Len(all)]

VertexId(welded, v) == CHOOSE n \in DOMAIN welded : welded[n] = v

\* The four sides of a cell as vertex pairs: left, right, bottom, top.
CellSides(c) ==
    << [a |-> c[1], b |-> c[4], vertical |-> TRUE,  negate |-> TRUE],
       [a |-> c[2], b |-> c[3], vertical |-> TRUE,  negate |-> FALSE],
       [a |-> c[1], b |-> c[2], vertical |-> FALSE, negate |-> TRUE],
       [a |-> c[4], b |-> c[3], vertical |-> FALSE, negate |-> FALSE] >>

\* The side whose midpoint is nearest to a face's centroid, the first of
\* equally near ones.
NearestSide(sides, welded, face) ==
    LET off(k) == Minus(Plus(welded[sides[k].a], welded[sides[k].b]), face.mid2)
        distance(k) == Dot(off(k), off(k))
    IN  sides[CHOOSE k \in 1..4 :
                \A m \in 1..4 : \/ distance(k) < distance(m)
                                \/ distance(k) = distance(m) /\ k <= m]

StructuredTopology(m) ==
    LET welded == WeldedVertices(m.grids)
        points == CellCorners([blocks |-> m.grids])
        cells == [ c \in DOMAIN points |-> [ k \in 1..4 |-> VertexId(welded, points[c][k]) ] ]
    IN  [ vertices |-> welded,
          blockVertexIds |-> [ b \in DOMAIN m.grids |->
                                 [ n \in DOMAIN m.grids[b].vertices |->
                                     VertexId(welded, m.grids[b].vertices[n]) ] ],
          cells |-> cells,
          faces |-> [ f \in DOMAIN m.faces |->
                        NearestSide(CellSides(cells[m.faces[f].owner]), welded, m.faces[f]) ] ]

\* An edge's face by the builder's formula for it.
EdgeFace(side, a, b) == IF side.vertical THEN VerticalEdgeFace(a, b, side.negate)
                                         ELSE HorizontalEdgeFace(a, b, side.negate)

CellAt(t, vertices, c) == [ k \in 1..4 |-> vertices[t.cells[c][k]] ]

\* computeGeometry throws when a cell would not be strictly convex.
CanCompute(t, vertices) == \A c \in DOMAIN t.cells : StrictlyConvex(CellAt(t, vertices, c))

\* The geometry of the vertices: cells, faces, and the grids' vertices.
ComputeGeometry(t, vertices) ==
    [ cells |-> [ c \in DOMAIN t.cells |-> CellGeometry(CellAt(t, vertices, c)) ],
      faces |-> [ f \in DOMAIN t.faces |->
                    EdgeFace(t.faces[f], vertices[t.faces[f].a], vertices[t.faces[f].b]) ],
      grids |-> [ b \in DOMAIN t.blockVertexIds |->
                    [ n \in DOMAIN t.blockVertexIds[b] |-> vertices[t.blockVertexIds[b][n]] ] ] ]

\* Mesh::geometry, and Mesh::setGeometry: owners, neighbours and patches stay.
GeometryOf(m) ==
    [ cells |-> m.cells,
      faces |-> [ f \in DOMAIN m.faces |-> [mid2 |-> m.faces[f].mid2, area |-> m.faces[f].area] ],
      grids |-> [ b \in DOMAIN m.grids |-> m.grids[b].vertices ] ]

SetGeometry(m, g) ==
    [ m EXCEPT !.cells = g.cells,
               !.faces = [ f \in DOMAIN m.faces |-> [ m.faces[f] EXCEPT !.mid2 = g.faces[f].mid2,
                                                                        !.area = g.faces[f].area ] ],
               !.grids = [ b \in DOMAIN m.grids |-> [ m.grids[b] EXCEPT !.vertices = g.grids[b] ] ] ]

\* Four times the volume a face sweeps: its mean area vector by the mean of
\* its two ends' displacements.
SweptVolume4(side, from, to) ==
    LET mean == EdgeFace(side, Plus(from[side.a], to[side.a]), Plus(from[side.b], to[side.b]))
    IN  Dot(mean.area, Plus(Minus(to[side.a], from[side.a]), Minus(to[side.b], from[side.b])))

SweptVolumes(t, from, to) == [ f \in DOMAIN t.faces |-> SweptVolume4(t.faces[f], from, to) ]

-----------------------------------------------------------------------------

Init ==
    /\ spec \in Specs
    /\ state = "read"
    /\ mesh = NoMesh
    /\ topology = << >> /\ reference = << >> /\ current = << >>
    /\ time = 0 /\ undo = NothingToUndo /\ step = NoStep

\* The mesh is created, and the gate is asked.
Judge(m) ==
    /\ mesh' = m
    /\ state' = IF PassesGate(m) THEN "ready" ELSE "invalid"

Reject ==
    /\ mesh' = NoMesh
    /\ state' = "rejected"

\* CaseBuilder::build of a multiblock mesh.
BuildBlocks ==
    /\ state = "read"
    /\ spec.type = "multiblock"
    /\ IF Builds(spec) THEN Judge(MeshOf(spec)) ELSE Reject
    /\ UNCHANGED <<spec, motionVars>>

\* CaseReader's checks and CaseBuilder::build of a structured_quad mesh.
BuildQuad ==
    /\ state = "read"
    /\ spec.type = "structured_quad"
    /\ LET block == spec.blocks[1]
       IN  IF /\ FitsRectangle(block, spec.box)
              /\ StructuredBuilds(block)
              /\ HasAreaOf(StructuredMesh(block), spec.box)
           THEN Judge(StructuredMesh(block)) ELSE Reject
    /\ UNCHANGED <<spec, motionVars>>

\* The vertex map gives back the mesh's own geometry; structuredTopology
\* throws if it does not.
Reproduces(t, m) == ComputeGeometry(t, t.vertices) = GeometryOf(m)

\* The MeshMotion constructor.
StartMotion ==
    /\ state = "ready"
    /\ spec \in Moving
    /\ LET t == StructuredTopology(mesh)
       IN  /\ Reproduces(t, mesh)
           /\ topology' = t
           /\ reference' = t.vertices
           /\ current' = t.vertices
    /\ state' = "moving"
    /\ time' = 0 /\ undo' = NothingToUndo /\ step' = NoStep
    /\ UNCHANGED <<spec, mesh>>

\* Where a prescribed motion may put the vertices: one of them, or all,
\* displaced from the reference.
Positions ==
    { [ v \in DOMAIN reference |-> IF v \in w THEN Plus(reference[v], d) ELSE reference[v] ] :
        w \in {DOMAIN reference} \cup { {v} : v \in DOMAIN reference }, d \in Displacements }

\* Mutated form: a step that moves nothing keeps the geometry to go back to.
RevertKeepingGeometry(next) ==
    [ can |-> TRUE, time |-> time, vertices |-> current,
      geometry |-> IF next # current THEN GeometryOf(mesh) ELSE undo.geometry ]

\* What a step to next leaves for revert(): no geometry if nothing moved.
RevertMembers(next) ==
    [ can |-> TRUE, time |-> time, vertices |-> current,
      geometry |-> IF next # current THEN GeometryOf(mesh) ELSE << >> ]

\* MeshMotion::advance. An invalid cell throws before anything is changed.
Advance(next) ==
    /\ state = "moving"
    /\ time < MaxTime
    /\ next # current => CanCompute(topology, next)
    /\ step' = [ moved    |-> next # current,
                 swept4   |-> IF next # current THEN SweptVolumes(topology, current, next)
                              ELSE [ f \in DOMAIN mesh.faces |-> 0 ],
                 previous |-> mesh.cells ]
    /\ mesh' = IF next # current THEN SetGeometry(mesh, ComputeGeometry(topology, next)) ELSE mesh
    /\ undo' = RevertMembers(next)
    /\ current' = next
    /\ time' = time + 1
    /\ UNCHANGED <<spec, state, topology, reference>>

\* MeshMotion::revert. A second one, or one before any step, does nothing.
Revert ==
    /\ state = "moving"
    /\ undo.can
    /\ mesh' = IF undo.geometry # << >> THEN SetGeometry(mesh, undo.geometry) ELSE mesh
    /\ current' = undo.vertices
    /\ time' = undo.time
    /\ undo' = [undo EXCEPT !.can = FALSE, !.geometry = << >>]
    /\ step' = NoStep
    /\ UNCHANGED <<spec, state, topology, reference>>

Next == BuildBlocks \/ BuildQuad \/ StartMotion \/ (\E next \in Positions : Advance(next)) \/ Revert

Spec == Init /\ [][Next]_vars

-----------------------------------------------------------------------------
(* The reference the checks are compared with: the cells as polygons.      *)

SpecCorners == CellCorners(spec)
CellIds == DOMAIN SpecCorners

\* The sum of f over a finite set.
SumOver(S, f) ==
    LET sum[T \in SUBSET S] ==
            IF T = {} THEN 0
            ELSE LET x == CHOOSE x \in T : TRUE IN f[x] + sum[T \ {x}]
    IN  sum[S]

\* The area vector of the edge a -> b of a counter-clockwise polygon, to the
\* outside.
Outward(a, b) == <<b[2] - a[2], a[1] - b[1]>>

\* Two convex polygons have no interior point in common when an edge of one
\* of them has the other one on its outside.
InteriorsAreDisjoint(p, q) ==
    \/ \E k \in 1..4 : \A m \in 1..4 : Orient(p[k], p[NextCorner(k)], q[m]) <= 0
    \/ \E k \in 1..4 : \A m \in 1..4 : Orient(q[k], q[NextCorner(k)], p[m]) <= 0

ShareEdge(p, q) ==
    \E k, m \in 1..4 : p[k] = q[NextCorner(m)] /\ p[NextCorner(k)] = q[m]

DeclaredJoined(c, d) ==
    \E f \in ToSet(Faces(spec)) : {f.owner, f.neighbor} = {c, d}

\* Two cells meet in nothing, in a common corner, or in a common edge that
\* is a face between them.
MeetProperly(c, d) ==
    LET p == SpecCorners[c]
        q == SpecCorners[d]
    IN  /\ InteriorsAreDisjoint(p, q)
        /\ \A m \in 1..4 : (\A k \in 1..4 : Orient(p[k], p[NextCorner(k)], q[m]) >= 0)
                              => q[m] \in ToSet(p)
        /\ ShareEdge(p, q) => DeclaredJoined(c, d)

CellsTile == \A c, d \in CellIds : c # d => MeetProperly(c, d)

\* No way of splitting the cells in two parts has no common edge.
CellsAreConnected ==
    \A part \in SUBSET CellIds \ {{}, CellIds} :
        \E c \in part, d \in CellIds \ part : ShareEdge(SpecCorners[c], SpecCorners[d])

\* The blocks, sides, interfaces and cells are each in order by themselves,
\* and so is the outline of a structured_quad mesh.
PartsAreInOrder ==
    /\ spec.type = "structured_quad" => FitsRectangle(spec.blocks[1], spec.box)
    /\ BlocksAreWellFormed(spec)
    /\ SidesAreUsedOnce(spec)
    /\ InterfacesAreConformal(spec)
    /\ CellsAreConvex(spec)

\* The centroid of one cell is inside another.
CentroidInside(c, q) ==
    LET g == CellGeometry(SpecCorners[c])
        d == 3 * g.area2
    IN  \A k \in 1..4 :
           Cross(Minus(q[NextCorner(k)], q[k]), Minus(g.moment, Times(d, q[k]))) > 0

NoCentroidInside == \A c, d \in CellIds : c # d => ~CentroidInside(c, SpecCorners[d])

-----------------------------------------------------------------------------
(* Properties. *)

\* The faces of an accepted mesh are the edges of its cells, each edge one
\* face: for every edge of every cell there is exactly one face there with
\* that cell on its inner side, and every face is such an edge of its owner
\* and of its neighbour, whichever sides of whichever blocks are joined,
\* aligned or reversed (that it also points into its neighbour is said of
\* interfaces whose sides face each other); a patch has the faces of its sides
\* and no others; and one block with the four usual patches gives the same
\* mesh, id for id, from createMultiBlock2D and from buildStructuredMesh.
FacesAreTheEdges ==
    state = "ready" =>
        LET isEdge(f, c, k) ==
                LET a == SpecCorners[c][k]
                    b == SpecCorners[c][NextCorner(k)]
                IN  /\ mesh.faces[f].mid2 = Plus(a, b)
                    /\ \/ mesh.faces[f].owner = c /\ mesh.faces[f].area = Outward(a, b)
                       \/ /\ mesh.faces[f].neighbor = c
                          /\ InterfacesFace(spec) => mesh.faces[f].area = Outward(b, a)
            sideMids(ref) ==
                { Plus(SideVertex(spec.blocks[ref[1]], ref[2], k - 1),
                       SideVertex(spec.blocks[ref[1]], ref[2], k)) :
                    k \in 1..SideFaceCount(spec.blocks[ref[1]], ref[2]) }
        IN  /\ \A c \in CellIds, k \in 1..4 :
                  \E f \in DOMAIN mesh.faces : { g \in DOMAIN mesh.faces : isEdge(g, c, k) } = {f}
            /\ \A f \in DOMAIN mesh.faces :
                  /\ mesh.faces[f].owner # mesh.faces[f].neighbor
                  /\ mesh.faces[f].owner # NoCell
                  /\ \A c \in {mesh.faces[f].owner, mesh.faces[f].neighbor} \ {NoCell} :
                        c \in CellIds /\ \E k \in 1..4 : isEdge(f, c, k)
                  /\ PatchCount(mesh, f) = IF mesh.faces[f].neighbor = NoCell THEN 1 ELSE 0
            /\ \A p \in DOMAIN spec.patches :
                  { mesh.faces[f].mid2 : f \in ToSet(mesh.patches[p]) }
                    = UNION { sideMids(ref) : ref \in ToSet(spec.patches[p]) }
            /\ Len(spec.blocks) = 1 /\ spec.patches = FourPatches
                 => mesh = StructuredMesh(spec.blocks[1]) /\ mesh = MeshOf(spec)

\* Builder and gate together turn away no proper mesh: cells that tile a
\* connected region, meeting only in corners and in edges that are faces, are
\* accepted whatever holes the region has and however its blocks are turned
\* (no false alarm of the boundary curve, the winding number, or the closure
\* and orientation tests). What they accept is connected and has no cell's
\* centroid in another cell if the sides of interfaces face each other, and one
\* block on a rectangle tiles it exactly.
\* (Several blocks that overlap where no centroid is are accepted: the
\* winding number is only asked for centroids.)
GateIsExact ==
    /\ (state \in {"rejected", "invalid"} /\ PartsAreInOrder /\ CellsAreConnected) => ~CellsTile
    /\ state = "ready" =>
          /\ InterfacesFace(spec) => CellsAreConnected /\ NoCentroidInside
          /\ spec.type = "structured_quad" => CellsTile

\* A mesh in motion is the mesh its vertices would be built into, after any
\* steps, refused steps and reverts: the same faces of the same cells and
\* patches, with the geometry the builder gives them.
MeshIsThatOfItsVertices ==
    state = "moving" =>
        /\ \A b \in DOMAIN mesh.grids :
              mesh.grids[b].vertices
                = [ n \in DOMAIN mesh.grids[b].vertices |-> current[topology.blockVertexIds[b][n]] ]
        /\ CellsAreConvex([spec EXCEPT !.blocks = mesh.grids])
        /\ mesh = MeshOf([spec EXCEPT !.blocks = mesh.grids])

\* The geometric conservation law, exactly: in every step each cell grows by
\* what its faces sweep (outward from the owner, into the neighbour), if the
\* sides of the interfaces face each other.
SweptVolumesConserve ==
    step # NoStep /\ InterfacesFace(spec) =>
        \A c \in DOMAIN mesh.cells :
            2 * (mesh.cells[c].area2 - step.previous[c].area2)
              = SumOver(FacesOf(mesh, c),
                        [ f \in DOMAIN mesh.faces |-> OutwardSign(mesh.faces[f], c) * step.swept4[f] ])

\* Every accepted mesh can be set in motion: structuredTopology finds the
\* vertices of each of its faces, wherever blocks are joined.
AcceptedMeshCanMove == state = "ready" => Reproduces(StructuredTopology(mesh), mesh)

\* The three of them: an accepted mesh can be moved, its geometry stays that
\* of its vertices, and volumes and swept volumes are of one motion.
MotionIsConsistent == AcceptedMeshCanMove /\ MeshIsThatOfItsVertices /\ SweptVolumesConserve
=============================================================================
