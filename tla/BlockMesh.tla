------------------------------- MODULE BlockMesh -------------------------------
(***************************************************************************)
(* How a two-dimensional mesh is made from the vertices of mesh.json: one  *)
(* block that fills the rectangle of geometry.json (structured_quad) or    *)
(* several that are joined (multiblock), and the validity gate every mesh  *)
(* passes before a solver sees it (MeshQuality::evaluate).                 *)
(*                                                                         *)
(* Points are on an integer lattice and every quantity is kept as an       *)
(* integer multiple of itself (twice an area, twice a face centroid, a     *)
(* first moment in place of a cell centroid), so that each comparison the  *)
(* code makes on doubles is made here without rounding. The code's         *)
(* tolerances (1e-9 of the domain, 1e-10 of the perimeter) are far below   *)
(* one lattice step and do not appear.                                     *)
(***************************************************************************)
EXTENDS Integers, Sequences, FiniteSets, SequencesExt

G == INSTANCE Graphs

BlockSides == <<"left", "right", "bottom", "top">>

NoCell == 0     \* the absent neighbour of a boundary face

-----------------------------------------------------------------------------
(* Plane geometry: a point or a vector is a pair of integers. *)

Plus(p, q) == <<p[1] + q[1], p[2] + q[2]>>
Minus(p, q) == <<p[1] - q[1], p[2] - q[2]>>
Times(n, p) == <<n * p[1], n * p[2]>>
Dot(p, q) == p[1] * q[1] + p[2] * q[2]
Cross(p, q) == p[1] * q[2] - p[2] * q[1]

\* Which side of the line a -> b the point c lies on: positive on its left.
Orient(a, b, c) == Cross(Minus(b, a), Minus(c, a))

\* The point p lies on the closed segment a, b.
OnSegment(p, a, b) == Orient(a, b, p) = 0 /\ Dot(Minus(a, p), Minus(b, p)) <= 0

\* The next of the four corners of a cell, counter-clockwise.
NextCorner(k) == (k % 4) + 1

-----------------------------------------------------------------------------
(* A block: nx, ny and its vertices, row by row. *)

Blocks == [nx : Nat, ny : Nat, vertices : Seq(Int \X Int)]

\* A reference to a block side, and an interface of two.
SideRefs == Nat \X ToSet(BlockSides)
Interfaces == [first : SideRefs, second : SideRefs, reversed : BOOLEAN]

\* The patches of a block by itself: its four sides.
FourPatches == [ k \in DOMAIN BlockSides |-> << <<1, BlockSides[k]>> >> ]

Vertex(block, i, j) == block.vertices[j * (block.nx + 1) + i + 1]

\* Number of faces of a side, and its k-th vertex (k from 0) in increasing
\* local index.
SideFaceCount(block, side) ==
    IF side \in {"bottom", "top"} THEN block.nx ELSE block.ny

SideVertex(block, side, k) ==
    CASE side = "bottom" -> Vertex(block, k, 0)
      [] side = "top"    -> Vertex(block, k, block.ny)
      [] side = "left"   -> Vertex(block, 0, k)
      [] side = "right"  -> Vertex(block, block.nx, k)

\* The local cell <<i, j>> behind face k (from 0) of a side.
SideCell(block, side, k) ==
    CASE side = "bottom" -> <<k, 0>>
      [] side = "top"    -> <<k, block.ny - 1>>
      [] side = "left"   -> <<0, k>>
      [] side = "right"  -> <<block.nx - 1, k>>

Corners(block, i, j) ==
    << Vertex(block, i, j), Vertex(block, i + 1, j),
       Vertex(block, i + 1, j + 1), Vertex(block, i, j + 1) >>

\* All four turns of the quadrilateral are strictly to the left: it is
\* convex, counter-clockwise and has no zero edge.
StrictlyConvex(q) ==
    \A k \in 1..4 : Orient(q[k], q[NextCorner(k)], q[NextCorner(NextCorner(k))]) > 0

\* Twice the shoelace area of the quadrilateral, and its first moment: its
\* centroid is moment / (3 * area2).
CellGeometry(q) ==
    LET cross(k) == Cross(q[k], q[NextCorner(k)])
        moment(k) == Times(cross(k), Plus(q[k], q[NextCorner(k)]))
    IN  [ area2  |-> cross(1) + cross(2) + cross(3) + cross(4),
          moment |-> Plus(Plus(moment(1), moment(2)), Plus(moment(3), moment(4))) ]

\* The face of an edge a -> b: twice its centroid, and its area vector toward
\* +i (vertical) or +j (horizontal), or the opposite on a left or bottom side.
VerticalEdgeFace(a, b, negate) ==
    [ mid2 |-> Plus(a, b),
      area |-> Times(IF negate THEN -1 ELSE 1, <<b[2] - a[2], a[1] - b[1]>>) ]

HorizontalEdgeFace(a, b, negate) ==
    [ mid2 |-> Plus(a, b),
      area |-> Times(IF negate THEN -1 ELSE 1, <<a[2] - b[2], b[1] - a[1]>>) ]

-----------------------------------------------------------------------------
(* The checks of createMultiBlock2D that precede any face, in its order.   *)

BlocksAreWellFormed(s) ==
    /\ s.blocks # << >>
    /\ \A b \in DOMAIN s.blocks :
          LET block == s.blocks[b]
          IN  /\ block.nx > 0 /\ block.ny > 0
              /\ Len(block.vertices) = (block.nx + 1) * (block.ny + 1)

\* Where a side is named: as the first or the second side of an interface, or
\* as a member of a patch.
SideUses(s, ref) ==
    { <<"first", n, 0>> : n \in { m \in DOMAIN s.interfaces : s.interfaces[m].first = ref } }
    \cup { <<"second", n, 0>> : n \in { m \in DOMAIN s.interfaces : s.interfaces[m].second = ref } }
    \cup UNION { { <<"patch", p, n>> : n \in { m \in DOMAIN s.patches[p] : s.patches[p][m] = ref } } :
                    p \in DOMAIN s.patches }

\* References name blocks that exist, no patch is empty, and every side of
\* every block is one side of one interface or belongs to one patch.
SidesAreUsedOnce(s) ==
    /\ \A n \in DOMAIN s.interfaces :
          {s.interfaces[n].first[1], s.interfaces[n].second[1]} \subseteq DOMAIN s.blocks
    /\ \A p \in DOMAIN s.patches :
          /\ s.patches[p] # << >>
          /\ \A n \in DOMAIN s.patches[p] : s.patches[p][n][1] \in DOMAIN s.blocks
    /\ \A b \in DOMAIN s.blocks, k \in DOMAIN BlockSides :
          LET uses == SideUses(s, <<b, BlockSides[k]>>)
          IN  \E use \in uses : uses = {use}

\* Mutated form: the orientation of the interface is not looked at.
PartnerFaceAligned(s, interface, k) == k

\* The face of the second side that the k-th face of the first is joined to.
PartnerFace(s, interface, k) ==
    LET faces == SideFaceCount(s.blocks[interface.second[1]], interface.second[2])
    IN  IF interface.reversed THEN faces - 1 - k ELSE k

\* The two sides of every interface have as many faces and the same vertices.
InterfacesAreConformal(s) ==
    \A n \in DOMAIN s.interfaces :
        LET i == s.interfaces[n]
            a == s.blocks[i.first[1]]
            b == s.blocks[i.second[1]]
            faces == SideFaceCount(a, i.first[2])
        IN  /\ SideFaceCount(b, i.second[2]) = faces
            /\ \A k \in 0..faces :
                  SideVertex(a, i.first[2], k)
                    = SideVertex(b, i.second[2], IF i.reversed THEN faces - k ELSE k)

\* Counter-clockwise round its block, a side runs along its increasing index.
RunsForward(side) == side \in {"bottom", "right"}

\* The two sides of every interface face each other: they run in opposite
\* directions. createMultiBlock2D does not check this.
InterfacesFace(s) ==
    \A n \in DOMAIN s.interfaces :
        LET i == s.interfaces[n]
        IN  i.reversed <=> (RunsForward(i.first[2]) = RunsForward(i.second[2]))

CellsAreConvex(s) ==
    \A b \in DOMAIN s.blocks :
        LET block == s.blocks[b]
        IN  \A i \in 0..(block.nx - 1), j \in 0..(block.ny - 1) :
               StrictlyConvex(Corners(block, i, j))

-----------------------------------------------------------------------------
(* Cells and faces. Their ids are their places in the sequences. *)

\* cellOffset: how many cells the blocks before block b have.
CellOffset(s) ==
    LET offset[b \in 1..(Len(s.blocks) + 1)] ==
            IF b = 1 THEN 0 ELSE offset[b - 1] + s.blocks[b - 1].nx * s.blocks[b - 1].ny
    IN  offset

GlobalCell(s, b, i, j) == CellOffset(s)[b] + j * s.blocks[b].nx + i + 1

\* The cells <<block, i, j>>, block by block, row by row.
CellPlaces(s) ==
    FlattenSeq([ b \in DOMAIN s.blocks |->
        [ c \in 1..(s.blocks[b].nx * s.blocks[b].ny) |->
             <<b, (c - 1) % s.blocks[b].nx, (c - 1) \div s.blocks[b].nx>> ] ])

\* The corner points of every cell.
CellCorners(s) ==
    LET places == CellPlaces(s)
    IN  [ c \in DOMAIN places |-> Corners(s.blocks[places[c][1]], places[c][2], places[c][3]) ]

Cells(s) == LET corners == CellCorners(s)
            IN  [ c \in DOMAIN corners |-> CellGeometry(corners[c]) ]

\* The edges of a block in the order of their faces: the vertical ones, from
\* vertex <<i, j>> to <<i, j + 1>>, row by row, then the horizontal ones.
BlockEdges(s, b) ==
    LET nx == s.blocks[b].nx
        ny == s.blocks[b].ny
    IN  [ n \in 1..(ny * (nx + 1)) |->
             [block |-> b, kind |-> "vertical", i |-> (n - 1) % (nx + 1), j |-> (n - 1) \div (nx + 1)] ]
        \o [ n \in 1..((ny + 1) * nx) |->
                [block |-> b, kind |-> "horizontal", i |-> (n - 1) % nx, j |-> (n - 1) \div nx] ]

IsFirst(s, ref) == \E n \in DOMAIN s.interfaces : s.interfaces[n].first = ref
IsSecond(s, ref) == \E n \in DOMAIN s.interfaces : s.interfaces[n].second = ref

NoSide == << >>     \* of an edge inside a block

\* The block side an edge is on.
SideOf(s, e) ==
    CASE e.kind = "vertical" /\ e.i = 0 -> <<e.block, "left">>
      [] e.kind = "vertical" /\ e.i = s.blocks[e.block].nx -> <<e.block, "right">>
      [] e.kind = "horizontal" /\ e.j = 0 -> <<e.block, "bottom">>
      [] e.kind = "horizontal" /\ e.j = s.blocks[e.block].ny -> <<e.block, "top">>
      [] OTHER -> NoSide

\* The edges that get a face: the faces of an interface are created from its
\* first side only.
FaceEdges(s) ==
    LET all == FlattenSeq([ b \in DOMAIN s.blocks |-> BlockEdges(s, b) ])
    IN  FlattenSeq([ n \in DOMAIN all |->
            IF IsSecond(s, SideOf(s, all[n])) THEN << >> ELSE << all[n] >> ])

\* The place of an edge along its side.
AlongSide(e) == IF e.kind = "vertical" THEN e.j ELSE e.i

EdgeGeometry(s, e) ==
    LET at(i, j) == Vertex(s.blocks[e.block], i, j)
    IN  IF e.kind = "vertical" THEN VerticalEdgeFace(at(e.i, e.j), at(e.i, e.j + 1), e.i = 0)
                               ELSE HorizontalEdgeFace(at(e.i, e.j), at(e.i + 1, e.j), e.j = 0)

\* The cell behind an edge: before it, or the one on its side.
OwnerOf(s, e) ==
    LET side == SideOf(s, e)
        cell == IF side # NoSide THEN SideCell(s.blocks[e.block], side[2], AlongSide(e))
                ELSE IF e.kind = "vertical" THEN <<e.i - 1, e.j>> ELSE <<e.i, e.j - 1>>
    IN  GlobalCell(s, e.block, cell[1], cell[2])

\* The cell in front of it: the next one, the one across the interface, or none.
NeighborOf(s, e) ==
    LET side == SideOf(s, e)
    IN  IF side = NoSide THEN GlobalCell(s, e.block, e.i, e.j)
        ELSE IF IsFirst(s, side)
        THEN LET i == CHOOSE x \in ToSet(s.interfaces) : x.first = side
                 b == i.second[1]
                 cell == SideCell(s.blocks[b], i.second[2], PartnerFace(s, i, AlongSide(e)))
             IN  GlobalCell(s, b, cell[1], cell[2])
        ELSE NoCell

Faces(s) ==
    LET edges == FaceEdges(s)
        face(e) == [ owner |-> OwnerOf(s, e), neighbor |-> NeighborOf(s, e),
                     mid2 |-> EdgeGeometry(s, e).mid2, area |-> EdgeGeometry(s, e).area ]
    IN  [ f \in DOMAIN edges |-> face(edges[f]) ]

\* The ids of the faces of each patch, side by side as the patch lists them.
Patches(s) ==
    LET edges == FaceEdges(s)
    IN  [ p \in DOMAIN s.patches |->
            FlattenSeq([ n \in DOMAIN s.patches[p] |->
                FlattenSeq([ f \in DOMAIN edges |->
                    IF SideOf(s, edges[f]) = s.patches[p][n] THEN << f >> ELSE << >> ]) ]) ]

\* The mesh createMultiBlock2D returns when every check holds.
MeshOf(s) == [cells |-> Cells(s), faces |-> Faces(s), patches |-> Patches(s), grids |-> s.blocks]

-----------------------------------------------------------------------------
(* The boundary curve. *)

\* The Face constructor refuses a face between a cell and itself.
FacesJoinTwoCells(mesh) == \A f \in DOMAIN mesh.faces : mesh.faces[f].owner # mesh.faces[f].neighbor

\* The faces of the sides in no interface as segments with the domain on
\* their left.
BoundarySegments(s) ==
    FlattenSeq([ b \in DOMAIN s.blocks |->
        FlattenSeq([ k \in 1..4 |->
            LET side == BlockSides[k]
                at(n) == SideVertex(s.blocks[b], side, n)
            IN  IF IsFirst(s, <<b, side>>) \/ IsSecond(s, <<b, side>>) THEN << >>
                ELSE [ n \in 1..SideFaceCount(s.blocks[b], side) |->
                         IF RunsForward(side) THEN <<at(n - 1), at(n)>>
                                              ELSE <<at(n), at(n - 1)>> ] ]) ])

\* Mutated form: in the same or in the opposite direction.
StraightOn(p, q) ==
    \E e \in ToSet(p) \cap ToSet(q), a \in ToSet(p), b \in ToSet(q) :
        a # e /\ b # e /\ Orient(e, a, b) = 0

\* Two segments that meet at an end leave it in the same direction.
FoldBack(p, q) ==
    \E e \in ToSet(p) \cap ToSet(q), a \in ToSet(p), b \in ToSet(q) :
        /\ a # e /\ b # e
        /\ Orient(e, a, b) = 0
        /\ Dot(Minus(a, e), Minus(b, e)) > 0

CrossOrTouch(p, q) ==
    \/ /\ Orient(p[1], p[2], q[1]) * Orient(p[1], p[2], q[2]) < 0
       /\ Orient(q[1], q[2], p[1]) * Orient(q[1], q[2], p[2]) < 0
    \/ \E k \in 1..2 : OnSegment(p[k], q[1], q[2]) \/ OnSegment(q[k], p[1], p[2])

\* Two boundary faces may share one end, without folding back, and nothing
\* else.
MayMeet(p, q) ==
    /\ ToSet(p) # ToSet(q)
    /\ IF ToSet(p) \cap ToSet(q) # {} THEN ~FoldBack(p, q) ELSE ~CrossOrTouch(p, q)

\* Without any boundary face there is nothing to compare, and the winding numbers
\* refuse the mesh; the code reads the first of no segments before it gets there
\* (MeshGeometry.cpp:908), which is undefined behaviour.
BoundaryIsSimple(segments) ==
    \A m, n \in DOMAIN segments : m < n => MayMeet(segments[m], segments[n])

\* How often the segments go round the centroid of a cell, by counting the
\* upward and downward crossings of the ray to its right.
WindingNumber(cell, segments) ==
    LET d == 3 * cell.area2
        left(p) == Cross(Minus(p[2], p[1]), Minus(cell.moment, Times(d, p[1])))
        below(v) == d * v[2] <= cell.moment[2]
        up   == { n \in DOMAIN segments :
                    /\ below(segments[n][1]) /\ ~below(segments[n][2])
                    /\ left(segments[n]) > 0 }
        down == { n \in DOMAIN segments :
                    /\ ~below(segments[n][1]) /\ below(segments[n][2])
                    /\ left(segments[n]) < 0 }
    IN  Cardinality(up) - Cardinality(down)

EveryCellIsInside(mesh, segments) ==
    \A c \in DOMAIN mesh.cells : WindingNumber(mesh.cells[c], segments) = 1

\* createMultiBlock2D returns a mesh (otherwise it throws).
Builds(s) ==
    /\ BlocksAreWellFormed(s)
    /\ SidesAreUsedOnce(s)
    /\ InterfacesAreConformal(s)
    /\ CellsAreConvex(s)
    /\ FacesJoinTwoCells(MeshOf(s))
    /\ BoundaryIsSimple(BoundarySegments(s))
    /\ EveryCellIsInside(MeshOf(s), BoundarySegments(s))

-----------------------------------------------------------------------------
(* The single-block builder behind structured_quad and the Cartesian        *)
(* meshes (buildStructuredMesh), with its four fixed patches.               *)

StructuredMesh(block) ==
    LET nx == block.nx
        ny == block.ny
        cell(i, j) == j * nx + i + 1
        face(owner, neighbor, g) ==
            [owner |-> owner, neighbor |-> neighbor, mid2 |-> g.mid2, area |-> g.area]
        vertical(i, j) ==
            face(cell(IF i = 0 THEN 0 ELSE i - 1, j),
                 IF i \in {0, nx} THEN NoCell ELSE cell(i, j),
                 VerticalEdgeFace(Vertex(block, i, j), Vertex(block, i, j + 1), i = 0))
        horizontal(i, j) ==
            face(cell(i, IF j = 0 THEN 0 ELSE j - 1),
                 IF j \in {0, ny} THEN NoCell ELSE cell(i, j),
                 HorizontalEdgeFace(Vertex(block, i, j), Vertex(block, i + 1, j), j = 0))
        count == ny * (nx + 1)    \* of vertical faces
    IN  [ cells   |-> [ c \in 1..(nx * ny) |->
                         CellGeometry(Corners(block, (c - 1) % nx, (c - 1) \div nx)) ],
          faces   |-> [ n \in 1..count |-> vertical((n - 1) % (nx + 1), (n - 1) \div (nx + 1)) ]
                      \o [ n \in 1..((ny + 1) * nx) |->
                             horizontal((n - 1) % nx, (n - 1) \div nx) ],
          patches |-> << [ j \in 1..ny |-> (j - 1) * (nx + 1) + 1 ],
                         [ j \in 1..ny |-> j * (nx + 1) ],
                         [ i \in 1..nx |-> count + i ],
                         [ i \in 1..nx |-> count + ny * nx + i ] >>,
          grids   |-> << block >> ]

\* createStructuredQuad2D returns a mesh.
StructuredBuilds(block) ==
    /\ block.nx > 0 /\ block.ny > 0
    /\ Len(block.vertices) = (block.nx + 1) * (block.ny + 1)
    /\ \A i \in 0..(block.nx - 1), j \in 0..(block.ny - 1) : StrictlyConvex(Corners(block, i, j))

\* What CaseReader asks of a structured_quad mesh: the outermost vertices go
\* round the rectangle, side by side, each side in strictly increasing order.
FitsRectangle(block, box) ==
    /\ \A i \in 0..block.nx : /\ Vertex(block, i, 0)[2] = 0
                             /\ Vertex(block, i, block.ny)[2] = box[2]
    /\ \A j \in 0..block.ny : /\ Vertex(block, 0, j)[1] = 0
                             /\ Vertex(block, block.nx, j)[1] = box[1]
    /\ \A i \in 1..block.nx, j \in {0, block.ny} :
          Vertex(block, i, j)[1] > Vertex(block, i - 1, j)[1]
    /\ \A j \in 1..block.ny, i \in {0, block.nx} :
          Vertex(block, i, j)[2] > Vertex(block, i, j - 1)[2]

\* The cells have together the area of the rectangle.
HasAreaOf(m, box) ==
    FoldLeft(LAMBDA sum, cell : sum + cell.area2, 0, m.cells) = 2 * box[1] * box[2]

-----------------------------------------------------------------------------
(* The validity gate. *)

FacesOf(mesh, c) ==
    { f \in DOMAIN mesh.faces : c \in {mesh.faces[f].owner, mesh.faces[f].neighbor} }

OutwardSign(face, c) == IF face.owner = c THEN 1 ELSE -1

\* Enough faces, and outward area vectors that sum to zero.
CellIsClosed(mesh, c) ==
    /\ Cardinality(FacesOf(mesh, c)) >= 3
    /\ FoldLeft(LAMBDA sum, f : Plus(sum, Times(OutwardSign(mesh.faces[f], c), mesh.faces[f].area)),
                <<0, 0>>, SetToSeq(FacesOf(mesh, c))) = <<0, 0>>

\* How many patch entries name a face.
PatchCount(mesh, f) ==
    Cardinality(UNION { { <<p, n>> : n \in { m \in DOMAIN mesh.patches[p] : mesh.patches[p][m] = f } } :
                          p \in DOMAIN mesh.patches })

\* A boundary face is in one patch and points out of its owner.
BoundaryFaceIsValid(mesh, f) ==
    LET face == mesh.faces[f]
        owner == mesh.cells[face.owner]
    IN  /\ PatchCount(mesh, f) = 1
        /\ Dot(Minus(Times(3 * owner.area2, face.mid2), Times(2, owner.moment)), face.area) > 0

\* An internal face is in no patch and points from its owner's centroid to
\* its neighbour's. (That the two directions are not within 0.0001 degrees of
\* a right angle is a test no mesh of this size can fail.)
InternalFaceIsValid(mesh, f) ==
    LET face == mesh.faces[f]
        owner == mesh.cells[face.owner]
        neighbor == mesh.cells[face.neighbor]
    IN  /\ PatchCount(mesh, f) = 0
        /\ Dot(Minus(Times(owner.area2, neighbor.moment), Times(neighbor.area2, owner.moment)),
               face.area) > 0

\* The cell graph has one component.
OneComponent(mesh) ==
    LET inner == { f \in DOMAIN mesh.faces : mesh.faces[f].neighbor # NoCell }
        pairs == { <<mesh.faces[f].owner, mesh.faces[f].neighbor>> : f \in inner }
        reach == G!ConnectionsIn([ node |-> DOMAIN mesh.cells,
                                   edge |-> pairs \cup { <<p[2], p[1]>> : p \in pairs } ])
    IN  \A c \in DOMAIN mesh.cells : reach[1, c]

PassesGate(mesh) ==
    /\ \A c \in DOMAIN mesh.cells : mesh.cells[c].area2 > 0 /\ CellIsClosed(mesh, c)
    /\ \A f \in DOMAIN mesh.faces :
          IF mesh.faces[f].neighbor = NoCell THEN BoundaryFaceIsValid(mesh, f)
                                             ELSE InternalFaceIsValid(mesh, f)
    /\ OneComponent(mesh)
=============================================================================
