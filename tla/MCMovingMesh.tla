----------------------------- MODULE MCMovingMesh -----------------------------
EXTENDS MovingMesh

\* A grid of cells between the points of xs and ys, with its local axes turned
\* by a number of quarter turns counter-clockwise.
Rect(xs, ys, turn) ==
    LET m == Len(xs) - 1
        n == Len(ys) - 1
        nx == IF turn % 2 = 0 THEN m ELSE n
        ny == IF turn % 2 = 0 THEN n ELSE m
        at(i, j) == CASE turn = 0 -> <<xs[i + 1], ys[j + 1]>>
                      [] turn = 1 -> <<xs[m + 1 - j], ys[i + 1]>>
                      [] turn = 2 -> <<xs[m + 1 - i], ys[n + 1 - j]>>
                      [] turn = 3 -> <<xs[j + 1], ys[n + 1 - i]>>
    IN  [ nx |-> nx, ny |-> ny,
          vertices |-> [ k \in 1..((nx + 1) * (ny + 1)) |->
                            at((k - 1) % (nx + 1), (k - 1) \div (nx + 1)) ] ]

Block(nx, ny, vertices) == [nx |-> nx, ny |-> ny, vertices |-> vertices]

Join(first, second, reversed) == [first |-> first, second |-> second, reversed |-> reversed]

\* One patch per block with its sides in no interface.
FreeSides(blocks, interfaces) ==
    LET used == UNION { {interfaces[n].first, interfaces[n].second} : n \in DOMAIN interfaces }
        free(b) == SelectSeq([ k \in 1..4 |-> <<b, BlockSides[k]>> ], LAMBDA r : r \notin used)
    IN  SelectSeq([ b \in DOMAIN blocks |-> free(b) ], LAMBDA p : p # << >>)

Mesh(blocks, interfaces) ==
    [ type |-> "multiblock", box |-> <<0, 0>>, blocks |-> blocks, interfaces |-> interfaces,
      patches |-> FreeSides(blocks, interfaces) ]

\* One block with the four usual patches, of either type.
Single(type, block) ==
    [ type |-> type, box |-> <<4, 4>>, blocks |-> <<block>>, interfaces |-> << >>,
      patches |-> FourPatches ]

AnyJoin(a, b) == { Join(<<a, s>>, <<b, t>>, r) : s, t \in ToSet(BlockSides), r \in BOOLEAN }

-----------------------------------------------------------------------------
\* One block, an inner vertex anywhere on and around it: convex, folded,
\* crossed and collapsed cells; its outline bent, out of order, or short of
\* the rectangle; and turned over.
Quad(bottom, inner, corner) ==
    Block(2, 2, << <<0,0>>, bottom, <<4,0>>, <<0,2>>, inner, <<4,2>>, <<0,4>>, <<2,4>>, corner >>)

OneBlock ==
    { Single(type, Quad(<<2,0>>, <<x,y>>, <<4,4>>)) :
        type \in {"multiblock", "structured_quad"}, x, y \in -1..5 }
    \cup { Single("structured_quad", Quad(p, <<2,2>>, <<4,4>>)) :
             p \in { <<1,0>>, <<3,0>>, <<2,-1>>, <<2,1>>, <<5,0>>, <<0,0>> } }
    \cup { Single("structured_quad", Quad(<<2,0>>, <<2,2>>, <<5,4>>)),
           Single("multiblock", Block(1, 1, << <<2,0>>, <<0,0>>, <<2,2>>, <<0,2>> >>)) }

\* Two blocks, the second beside, on, across or apart from the first, in every
\* orientation, with no interface or with any one.
Second(turn) ==
    { Rect(<<4, 6>>, <<0, 2, 4>>, turn), Rect(<<4, 6>>, <<0, 1, 4>>, turn),
      Rect(<<4, 6>>, <<0, 4>>, turn), Rect(<<4, 6>>, <<4, 6>>, turn),
      Rect(<<2, 4>>, <<0, 2, 4>>, turn), Rect(<<3, 7>>, <<1, 3>>, turn),
      Rect(<<0, 4>>, <<-2, 0>>, turn), Rect(<<7, 9>>, <<0, 2, 4>>, turn) }

TwoBlocks ==
    UNION { LET blocks == << Rect(<<0, 4>>, <<0, 2, 4>>, 0), b >>
            IN  { Mesh(blocks, << >>) } \cup { Mesh(blocks, << i >>) : i \in AnyJoin(1, 2) } :
        b \in UNION { Second(turn) : turn \in 0..3 } }

\* A closed ring around a square hole, joined to itself; with its hole filled
\* by a block; as a ring that overlaps itself.
RingVertices(last) ==
    << <<0,0>>, <<6,0>>, <<6,6>>, <<0,6>>, last[1],
       <<2,2>>, <<4,2>>, <<4,4>>, <<2,4>>, last[2] >>
Ring == Block(4, 1, RingVertices(<< <<0,0>>, <<2,2>> >>))
Rings ==
    { Mesh(<<Ring>>, << i >>) : i \in AnyJoin(1, 1) }
    \cup { Mesh(<<Ring>>, << >>),
           Mesh(<<Ring, Rect(<<2, 4>>, <<2, 4>>, 0)>>, << Join(<<1, "left">>, <<1, "right">>, FALSE) >>),
           Mesh(<<Ring, Rect(<<7, 8>>, <<2, 4>>, 0)>>, << Join(<<1, "left">>, <<1, "right">>, FALSE) >>),
           Mesh(<<Block(4, 1, RingVertices(<< <<-1,-1>>, <<1,1>> >>))>>, << >>) }

\* Four blocks round a square hole, a corner block missing, and a block on top
\* of two others that are not joined.
Frame ==
    { Mesh(<< Rect(<<0, 2, 4>>, <<0, 2>>, 0), Rect(<<4, 6>>, <<0, 2, 4>>, t),
              Rect(<<2, 6>>, <<4, 6>>, 0), Rect(<<0, 2>>, <<2, 4, 6>>, 0) >>, i) :
        t \in {0, 2},
        i \in { << Join(<<1, "right">>, <<2, "left">>, FALSE) >>, << >> } }

\* Two blocks side by side over a gap, closed by a third: their facing sides
\* bulge apart (a hole) or over each other, by as much as x says.
Arch(x) ==
    Mesh(<< Block(1, 2, << <<0,0>>, <<4,0>>, <<0,2>>, <<4-x,2>>, <<0,4>>, <<4,4>> >>),
            Block(1, 2, << <<4,0>>, <<8,0>>, <<4+x,2>>, <<8,2>>, <<4,4>>, <<8,4>> >>),
            Rect(<<0, 4>>, <<4, 6>>, 0), Rect(<<4, 8>>, <<4, 6>>, 0) >>,
         << Join(<<1, "top">>, <<3, "bottom">>, FALSE), Join(<<4, "bottom">>, <<2, "top">>, FALSE),
            Join(<<3, "right">>, <<4, "left">>, FALSE) >>)

Arches == { Arch(x) : x \in (-3)..3 }

\* Nested blocks, folded at a common side, joined or not.
Nested ==
    LET outer == Block(1, 1, << <<0,4>>, <<24,-12>>, <<0,8>>, <<24,24>> >>)
        inner == Block(1, 1, << <<0,4>>, <<8,2>>, <<0,8>>, <<8,10>> >>)
        core  == Block(1, 1, << <<2,5>>, <<8,2>>, <<2,7>>, <<8,10>> >>)
        free  == Block(1, 1, << <<1,4>>, <<8,2>>, <<1,8>>, <<8,10>> >>)
        fold  == Join(<<2, "right">>, <<3, "right">>, FALSE)
    IN  { Mesh(<<outer, inner, core>>, << Join(<<1, "left">>, <<2, "left">>, FALSE), fold >>),
          Mesh(<<outer, free, core>>, << fold >>),
          Mesh(<<outer, core>>, << >>) }

\* A square whose left and right sides are the second sides of interfaces with
\* blocks that lie on the same side of them as the square itself.
SameSide ==
    Mesh(<< Block(1, 1, << <<0,0>>, <<10,0>>, <<0,10>>, <<10,10>> >>),
            Block(1, 1, << <<0,0>>, <<20,-10>>, <<0,10>>, <<20,6>> >>),
            Block(1, 1, << <<-10,9>>, <<10,0>>, <<-10,12>>, <<10,10>> >>) >>,
         << Join(<<2, "left">>, <<1, "left">>, FALSE), Join(<<3, "right">>, <<1, "right">>, FALSE) >>)

\* Files with a side in no patch, in two, a patch without sides, a block that
\* is not there, too few vertices, no cells, and no block.
Malformed ==
    LET good == Mesh(<<Rect(<<0, 4>>, <<0, 4>>, 0)>>, << >>)
        sides == good.patches[1]
    IN  { [good EXCEPT !.patches = << SubSeq(sides, 1, 3) >>],
          [good EXCEPT !.patches = << Append(sides, <<1, "left">>) >>],
          [good EXCEPT !.patches = Append(@, << >>)],
          [good EXCEPT !.patches = << Append(sides, <<2, "left">>) >>],
          [good EXCEPT !.blocks[1].vertices = SubSeq(@, 1, 3)],
          [good EXCEPT !.blocks[1].nx = 0],
          [good EXCEPT !.blocks = << >>] }

\* Moved: two blocks joined head to head, a ring joined to itself, an arch,
\* and one block.
MCMoving ==
    { Mesh(<< Rect(<<0, 4>>, <<0, 2, 4>>, 0), Rect(<<4, 6>>, <<0, 2, 4>>, 2) >>,
           << Join(<<2, "right">>, <<1, "right">>, TRUE) >>),
      Mesh(<<Ring>>, << Join(<<1, "left">>, <<1, "right">>, FALSE) >>),
      Arch(1) }
    \cup { Single(type, Quad(<<2,0>>, <<2,2>>, <<4,4>>)) : type \in {"multiblock", "structured_quad"} }

MCSpecs == OneBlock \cup TwoBlocks \cup Rings \cup Frame \cup Arches \cup Nested \cup Malformed
           \cup MCMoving \cup {SameSide}

MCDisplacements == { <<0, 0>>, <<1, 0>>, <<-1, 2>>, <<3, 0>> }
=============================================================================
