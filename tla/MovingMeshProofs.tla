--------------------------- MODULE MovingMeshProofs ---------------------------
(***************************************************************************)
(* Proofs about meshes and their motion, for every mesh file, every        *)
(* displacement and any number of steps:                                   *)
(*   - the faces of an accepted mesh are the edges of its cells, each edge *)
(*     one face, and patches have the faces of their sides;                *)
(*   - one block is built the same by createMultiBlock2D and by            *)
(*     buildStructuredMesh;                                                *)
(*   - the vertex map of an accepted mesh gives back its own geometry, and *)
(*     a moved mesh is the one its vertices would be built into;           *)
(*   - cells stay strictly convex, revert() undoes a step exactly, and     *)
(*     every cell grows by what its faces sweep.                           *)
(*                                                                         *)
(* The sections go from natural numbers and sequences over the numbering   *)
(* of cells and edges, the sides and their interfaces and the geometry of  *)
(* edges to the faces (FacesFacts, EveryEdgeIsAFace, EveryFaceIsAnEdge),   *)
(* the patches and the single block; then from welded vertices (TopologyIs)*)
(* to the file a moved mesh would be built from (MovedMesh); and last the  *)
(* inductive invariant MotionInv and the theorems that follow from it.     *)
(***************************************************************************)
EXTENDS MovingMesh, WellFoundedInduction, FiniteSetTheorems, SequenceTheorems, TLAPS

--------------------------------------------------------------------------------
(* Natural numbers and sequences.                                            *)

\* Every set of natural numbers that is not empty has a least one.
LEMMA LeastNatural ==
  ASSUME NEW T \in SUBSET Nat, T # {}
  PROVE  \E n \in T : \A k \in T : n <= k
<1>1. PICK n \in T : \A k \in T : <<k, n>> \notin OpToRel(<, Nat)
  BY NatLessThanWellFounded, WFMin
<1>2. \A k \in T : ~(k < n)
  BY <1>1 DEF OpToRel
<1> QED BY <1>2

\* The recursion of FlattenSeq: g[i] is the first i sequences, one after another.
Flattens(g, seqs) ==
  g = [i \in 1..Len(seqs) |-> IF i = 1 THEN seqs[i] ELSE g[i - 1] \o seqs[i]]

\* The recursion that FlattenSeq is defined by has a solution.
LEMMA FlattenExists ==
  ASSUME NEW T, NEW seqs \in Seq(T)
  PROVE  \E g : Flattens(g, seqs)
<1> DEFINE Upto(n) == \E g : g = [i \in 1..n |-> IF i = 1 THEN seqs[i] ELSE g[i - 1] \o seqs[i]]
           bad == {n \in Nat : ~Upto(n)}
<1>1. bad = {}
  <2> SUFFICES ASSUME bad # {} PROVE FALSE
    OBVIOUS
  <2>1. bad \in SUBSET Nat
    OBVIOUS
  <2>2. PICK n \in bad : \A k \in bad : n <= k
    <3> HIDE DEF bad
    <3> QED BY <2>1, LeastNatural
  <2>3. n \in Nat /\ ~Upto(n)
    OBVIOUS
  <2>4. CASE n = 0
    <3> DEFINE g == [i \in 1..n |-> << >>]
    <3>1. g = [i \in 1..n |-> IF i = 1 THEN seqs[i] ELSE g[i - 1] \o seqs[i]]
      BY <2>4
    <3> QED BY <2>3, <3>1
  <2>5. CASE n > 0
    <3>1. n - 1 \in Nat /\ ~(n <= n - 1)
      BY <2>3, <2>5
    <3>2. Upto(n - 1)
      <4> HIDE DEF Upto
      <4> QED BY <2>2, <3>1
    <3>3. PICK g : g = [i \in 1..(n - 1) |-> IF i = 1 THEN seqs[i] ELSE g[i - 1] \o seqs[i]]
      BY <3>2
    <3> DEFINE h == [i \in 1..n |-> IF i = 1 THEN seqs[i] ELSE g[i - 1] \o seqs[i]]
    <3>4. \A i \in 1..(n - 1) : h[i] = g[i]
      <4> TAKE i \in 1..(n - 1)
      <4>1. i \in 1..n
        BY <2>3
      <4>2. g[i] = IF i = 1 THEN seqs[i] ELSE g[i - 1] \o seqs[i]
        BY <3>3
      <4> QED BY <4>1, <4>2
    <3>5. \A i \in 1..n : i # 1 => i - 1 \in 1..(n - 1)
      BY <2>3
    <3>6. h = [i \in 1..n |-> IF i = 1 THEN seqs[i] ELSE h[i - 1] \o seqs[i]]
      <4>1. \A i \in 1..n : i # 1 => h[i - 1] = g[i - 1]
        BY <3>4, <3>5
      <4>2. h = [i \in 1..n |-> IF i = 1 THEN seqs[i] ELSE g[i - 1] \o seqs[i]]
        OBVIOUS
      <4> HIDE DEF h
      <4> QED BY <4>1, <4>2
    <3> HIDE DEF h
    <3> QED BY <2>3, <3>6
  <2> QED BY <2>3, <2>4, <2>5
<1>2. Len(seqs) \in Nat
  OBVIOUS
<1>3. Upto(Len(seqs))
  BY <1>1, <1>2
<1> QED BY <1>3 DEF Flattens

\* Flattening keeps the members of the sequences.
LEMMA FlattenFacts ==
  ASSUME NEW T, NEW seqs \in Seq(Seq(T))
  PROVE  /\ FlattenSeq(seqs) \in Seq(T)
         /\ \A i \in 1..Len(seqs) : \A j \in 1..Len(seqs[i]) :
               \E n \in 1..Len(FlattenSeq(seqs)) : FlattenSeq(seqs)[n] = seqs[i][j]
<1>1. CASE Len(seqs) = 0
  <2>1. FlattenSeq(seqs) = seqs /\ seqs = << >>
    BY <1>1 DEF FlattenSeq
  <2> QED BY <1>1, <2>1
<1>2. CASE Len(seqs) # 0
  <2> DEFINE flatten[i \in 1..Len(seqs)] ==
               IF i = 1 THEN seqs[i] ELSE flatten[i - 1] \o seqs[i]
  <2>1. Flattens(flatten, seqs)
    <3>1. \E g : Flattens(g, seqs)
      BY FlattenExists
    <3>2. Flattens(CHOOSE g : Flattens(g, seqs), seqs)
      BY <3>1
    <3> QED BY <3>2 DEF flatten, Flattens
  <2>2. FlattenSeq(seqs) = flatten[Len(seqs)]
    BY <1>2 DEF FlattenSeq
  <2> HIDE DEF flatten
  <2>3. \A i \in 1..Len(seqs) :
          flatten[i] = IF i = 1 THEN seqs[i] ELSE flatten[i - 1] \o seqs[i]
    BY <2>1 DEF Flattens
  <2>4. Len(seqs) \in Nat /\ \A i \in 1..Len(seqs) : seqs[i] \in Seq(T)
    OBVIOUS
  <2> DEFINE Holds(m) ==
               /\ flatten[m] \in Seq(T)
               /\ \A i \in 1..m : \A j \in 1..Len(seqs[i]) :
                     \E n \in 1..Len(flatten[m]) : flatten[m][n] = seqs[i][j]
             bad == {m \in 1..Len(seqs) : ~Holds(m)}
  <2>5. bad = {}
    <3> SUFFICES ASSUME bad # {} PROVE FALSE
      OBVIOUS
    <3>1. bad \in SUBSET Nat
      BY <2>4
    <3>2. PICK m \in bad : \A k \in bad : m <= k
      <4> HIDE DEF bad
      <4> QED BY <3>1, LeastNatural
    <3>3. m \in 1..Len(seqs) /\ ~Holds(m)
      OBVIOUS
    <3>4. CASE m = 1
      <4>1. flatten[m] = seqs[1]
        BY <2>3, <3>3, <3>4
      <4> QED BY <2>4, <3>3, <3>4, <4>1
    <3>5. CASE m # 1
      <4>1. m - 1 \in 1..Len(seqs) /\ ~(m <= m - 1)
        BY <2>4, <3>3, <3>5
      <4>2. Holds(m - 1)
        <5> HIDE DEF Holds
        <5> QED BY <3>2, <4>1
      <4> DEFINE a == flatten[m - 1]
                 b == seqs[m]
                 c == flatten[m]
      <4>3. c = a \o b /\ b \in Seq(T)
        BY <2>3, <2>4, <3>3, <3>5
      <4>4. /\ a \in Seq(T)
            /\ \A i \in 1..(m - 1) : \A j \in 1..Len(seqs[i]) :
                  \E n \in 1..Len(a) : a[n] = seqs[i][j]
        BY <4>2
      <4> HIDE DEF a, c
      <4>5. /\ c \in Seq(T) /\ Len(c) = Len(a) + Len(b)
            /\ \A n \in 1..Len(a) : c[n] = a[n]
            /\ \A n \in 1..Len(b) : c[Len(a) + n] = b[n]
        BY <4>3, <4>4
      <4>6. ASSUME NEW i \in 1..m, NEW j \in 1..Len(seqs[i])
            PROVE  \E n \in 1..Len(c) : c[n] = seqs[i][j]
        <5>1. CASE i = m
          <6>1. Len(a) + j \in 1..Len(c)
            BY <4>3, <4>4, <4>5, <5>1 DEF b
          <6> QED BY <4>5, <5>1, <6>1 DEF b
        <5>2. CASE i # m
          <6>1. i \in 1..(m - 1)
            BY <3>3, <5>2
          <6>2. PICK n \in 1..Len(a) : a[n] = seqs[i][j]
            BY <4>4, <6>1
          <6>3. n \in 1..Len(c)
            BY <4>3, <4>4, <4>5
          <6> QED BY <4>5, <6>2, <6>3
        <5> QED BY <5>1, <5>2
      <4>7. Holds(m)
        BY <4>5, <4>6 DEF c
      <4> QED BY <3>3, <4>7
    <3> QED BY <3>4, <3>5
  <2>6. Holds(Len(seqs))
    <3> HIDE DEF Holds
    <3>1. Len(seqs) \in 1..Len(seqs)
      BY <1>2, <2>4
    <3>2. \A m \in 1..Len(seqs) : Holds(m)
      BY <2>5
    <3> QED BY <3>1, <3>2
  <2> QED BY <2>2, <2>6
<1> QED BY <1>1, <1>2

\* Where each of the sequences begins when they are put one after another.
Offsets(off, seqs) ==
  /\ off \in [1..(Len(seqs) + 1) -> Nat]
  /\ off[1] = 0
  /\ \A b \in 1..Len(seqs) : off[b + 1] = off[b] + Len(seqs[b])

\* A flattened sequence has each member of each sequence at its offset.
LEMMA FlattenIndex ==
  ASSUME NEW T, NEW seqs \in Seq(Seq(T))
  PROVE  \E off : /\ Offsets(off, seqs)
                  /\ Len(FlattenSeq(seqs)) = off[Len(seqs) + 1]
                  /\ \A b \in 1..Len(seqs) : \A j \in 1..Len(seqs[b]) :
                        /\ off[b] + j \in 1..Len(FlattenSeq(seqs))
                        /\ FlattenSeq(seqs)[off[b] + j] = seqs[b][j]
<1>1. CASE Len(seqs) = 0
  <2>1. FlattenSeq(seqs) = seqs /\ seqs = << >>
    BY <1>1 DEF FlattenSeq
  <2> DEFINE off == [b \in 1..(Len(seqs) + 1) |-> 0]
  <2>2. Offsets(off, seqs) /\ off[Len(seqs) + 1] = 0
    BY <1>1 DEF Offsets
  <2> QED BY <1>1, <2>1, <2>2
<1>2. CASE Len(seqs) # 0
  <2> DEFINE flatten[i \in 1..Len(seqs)] ==
               IF i = 1 THEN seqs[i] ELSE flatten[i - 1] \o seqs[i]
  <2>1. Flattens(flatten, seqs)
    <3>1. \E g : Flattens(g, seqs)
      BY FlattenExists
    <3>2. Flattens(CHOOSE g : Flattens(g, seqs), seqs)
      BY <3>1
    <3> QED BY <3>2 DEF flatten, Flattens
  <2>2. FlattenSeq(seqs) = flatten[Len(seqs)]
    BY <1>2 DEF FlattenSeq
  <2> HIDE DEF flatten
  <2>3. \A i \in 1..Len(seqs) :
          flatten[i] = IF i = 1 THEN seqs[i] ELSE flatten[i - 1] \o seqs[i]
    BY <2>1 DEF Flattens
  <2>4. Len(seqs) \in Nat /\ \A i \in 1..Len(seqs) : seqs[i] \in Seq(T)
    OBVIOUS
  <2> DEFINE off == [b \in 1..(Len(seqs) + 1) |-> IF b = 1 THEN 0 ELSE Len(flatten[b - 1])]
             Holds(m) ==
               /\ flatten[m] \in Seq(T)
               /\ off[m + 1] = off[m] + Len(seqs[m])
               /\ off[m] \in Nat
               /\ \A b \in 1..m : \A j \in 1..Len(seqs[b]) :
                     /\ off[b] + j \in 1..Len(flatten[m])
                     /\ flatten[m][off[b] + j] = seqs[b][j]
             bad == {m \in 1..Len(seqs) : ~Holds(m)}
  <2>5. off[1] = 0 /\ \A m \in 1..Len(seqs) : off[m + 1] = Len(flatten[m])
    <3>1. 1 \in 1..(Len(seqs) + 1)
      BY <2>4
    <3>2. ASSUME NEW m \in 1..Len(seqs) PROVE off[m + 1] = Len(flatten[m])
      <4>1. m + 1 \in 1..(Len(seqs) + 1) /\ m + 1 # 1 /\ (m + 1) - 1 = m
        BY <2>4
      <4> QED BY <4>1
    <3> QED BY <3>1, <3>2
  <2>6. DOMAIN off = 1..(Len(seqs) + 1)
    OBVIOUS
  <2>o. off = [b \in 1..(Len(seqs) + 1) |-> off[b]]
    OBVIOUS
  <2> HIDE DEF off
  <2>7. bad = {}
    <3> SUFFICES ASSUME bad # {} PROVE FALSE
      OBVIOUS
    <3>1. bad \in SUBSET Nat
      BY <2>4
    <3>2. PICK m \in bad : \A k \in bad : m <= k
      <4> HIDE DEF bad
      <4> QED BY <3>1, LeastNatural
    <3>3. m \in 1..Len(seqs) /\ ~Holds(m)
      OBVIOUS
    <3>4. CASE m = 1
      <4>1. flatten[m] = seqs[1]
        BY <2>3, <3>3, <3>4
      <4>2. off[m] = 0 /\ off[m + 1] = Len(seqs[m])
        BY <2>5, <3>3, <3>4, <4>1
      <4>3. Len(seqs[m]) \in Nat
        BY <2>4, <3>3
      <4> QED BY <2>4, <3>3, <3>4, <4>1, <4>2, <4>3
    <3>5. CASE m # 1
      <4>1. m - 1 \in 1..Len(seqs) /\ ~(m <= m - 1) /\ (m - 1) + 1 = m
        <5> HIDE DEF bad, Holds
        <5>1. m \in Nat /\ 1 <= m /\ m <= Len(seqs) /\ Len(seqs) \in Nat
          BY <2>4, <3>3
        <5> QED BY <3>5, <5>1
      <4>2. Holds(m - 1)
        <5> HIDE DEF Holds
        <5> QED BY <3>2, <4>1
      <4> DEFINE a == flatten[m - 1]
                 b == seqs[m]
                 c == flatten[m]
      <4>3. c = a \o b /\ b \in Seq(T)
        BY <2>3, <2>4, <3>3, <3>5
      <4>4. /\ a \in Seq(T)
            /\ \A i \in 1..(m - 1) : \A j \in 1..Len(seqs[i]) :
                  off[i] + j \in 1..Len(a) /\ a[off[i] + j] = seqs[i][j]
        BY <4>2
      <4>5. off[m] = Len(a) /\ off[m + 1] = Len(c)
        BY <2>5, <3>3, <4>1
      <4>b. b = seqs[m]
        OBVIOUS
      <4> HIDE DEF a, b, c
      <4>6. /\ c \in Seq(T) /\ Len(c) = Len(a) + Len(b)
            /\ \A n \in 1..Len(a) : c[n] = a[n]
            /\ \A n \in 1..Len(b) : c[Len(a) + n] = b[n]
        BY <4>3, <4>4
      <4>l. Len(a) \in Nat /\ Len(b) \in Nat
        BY <4>3, <4>4, SMTT(30)
      <4>7. ASSUME NEW i \in 1..m, NEW j \in 1..Len(seqs[i])
            PROVE  off[i] + j \in 1..Len(c) /\ c[off[i] + j] = seqs[i][j]
        <5>1. CASE i = m
          <6>1. j \in 1..Len(b)
            BY <4>b, <5>1
          <6>2. off[i] + j \in 1..Len(c)
            <7>1. off[i] = Len(a) /\ Len(c) = Len(a) + Len(b)
              BY <4>5, <4>6, <5>1
            <7> QED BY <4>l, <6>1, <7>1
          <6>3. c[off[i] + j] = b[j]
            BY <4>5, <4>6, <5>1, <6>1
          <6> QED BY <4>b, <5>1, <6>2, <6>3
        <5>2. CASE i # m
          <6>1. i \in 1..(m - 1)
            BY <3>3, <5>2
          <6>2. off[i] + j \in 1..Len(a) /\ a[off[i] + j] = seqs[i][j]
            BY <4>4, <6>1
          <6>3. 1..Len(a) \subseteq 1..Len(c)
            BY <4>6, <4>l
          <6> QED BY <4>6, <6>2, <6>3
        <5> QED BY <5>1, <5>2
      <4>8. Holds(m)
        BY <4>4, <4>5, <4>6, <4>7, <4>b, <4>l DEF a, c
      <4> QED BY <3>3, <4>8
    <3> QED BY <3>4, <3>5
  <2>8. \A m \in 1..Len(seqs) : Holds(m)
    <3> HIDE DEF Holds
    <3> QED BY <2>7
  <2>9. \A b \in 1..(Len(seqs) + 1) : off[b] \in Nat
    <3> TAKE b \in 1..(Len(seqs) + 1)
    <3>1. CASE b = 1
      BY <2>5, <3>1
    <3>2. CASE b # 1
      <4>1. b - 1 \in 1..Len(seqs) /\ (b - 1) + 1 = b
        BY <2>4, <3>2
      <4>2. off[b] = off[b - 1] + Len(seqs[b - 1]) /\ off[b - 1] \in Nat
        BY <2>8, <4>1
      <4>3. Len(seqs[b - 1]) \in Nat
        BY <2>4, <4>1
      <4> QED BY <4>2, <4>3
    <3> QED BY <3>1, <3>2
  <2>10. off \in [1..(Len(seqs) + 1) -> Nat]
    BY <2>9, <2>o
  <2>11. Offsets(off, seqs)
    BY <2>5, <2>8, <2>10 DEF Offsets
  <2>12. Len(seqs) \in 1..Len(seqs)
    BY <1>2, <2>4
  <2>13. Len(FlattenSeq(seqs)) = off[Len(seqs) + 1]
    BY <2>2, <2>5, <2>12
  <2>14. \A b \in 1..Len(seqs) : \A j \in 1..Len(seqs[b]) :
            off[b] + j \in 1..Len(FlattenSeq(seqs)) /\ FlattenSeq(seqs)[off[b] + j] = seqs[b][j]
    <3>1. Holds(Len(seqs))
      <4> HIDE DEF Holds
      <4> QED BY <2>8, <2>12
    <3> QED BY <2>2, <3>1
  <2> QED BY <2>11, <2>13, <2>14
<1> QED BY <1>1, <1>2

\* Two functions begin with the same value, and where they agree they agree at the next place.
SameSteps(f, g, N) == f[1] = g[1] /\ \A b \in 1..N : f[b] = g[b] => f[b + 1] = g[b + 1]

\* Such functions agree everywhere.
LEMMA OffsetsUnique ==
  ASSUME NEW N \in Nat, NEW f, NEW g, SameSteps(f, g, N)
  PROVE  \A b \in 1..(N + 1) : f[b] = g[b]
<1> DEFINE bad == {b \in 1..(N + 1) : f[b] # g[b]}
<1>1. bad = {}
  <2> SUFFICES ASSUME bad # {} PROVE FALSE
    OBVIOUS
  <2>1. bad \in SUBSET Nat
    OBVIOUS
  <2>2. PICK b \in bad : \A k \in bad : b <= k
    <3> HIDE DEF bad
    <3> QED BY <2>1, LeastNatural
  <2>3. b \in 1..(N + 1) /\ f[b] # g[b] /\ b # 1
    BY DEF SameSteps
  <2>4. b - 1 \in 1..N /\ b - 1 \in 1..(N + 1) /\ ~(b <= b - 1) /\ (b - 1) + 1 = b
    BY <2>3
  <2>5. f[b - 1] = g[b - 1]
    BY <2>2, <2>4
  <2> QED BY <2>3, <2>4, <2>5 DEF SameSteps
<1> QED BY <1>1

\* A sequence ends before the next ones begin.
LEMMA OffsetsApart ==
  ASSUME NEW T, NEW seqs \in Seq(Seq(T)), NEW off, Offsets(off, seqs),
         NEW a \in 1..Len(seqs), NEW b \in 1..(Len(seqs) + 1), a < b
  PROVE  off[a] + Len(seqs[a]) <= off[b]
<1> DEFINE bad == {n \in 1..(Len(seqs) + 1) : a < n /\ ~(off[a] + Len(seqs[a]) <= off[n])}
<1>0. /\ Len(seqs) \in Nat /\ \A i \in 1..Len(seqs) : Len(seqs[i]) \in Nat
      /\ \A n \in 1..(Len(seqs) + 1) : off[n] \in Nat
      /\ \A n \in 1..Len(seqs) : off[n + 1] = off[n] + Len(seqs[n])
  <2>1. Len(seqs) \in Nat /\ \A i \in 1..Len(seqs) : seqs[i] \in Seq(T)
    OBVIOUS
  <2>2. \A q \in Seq(T) : Len(q) \in Nat
    OBVIOUS
  <2>3. \A i \in 1..Len(seqs) : Len(seqs[i]) \in Nat
    BY <2>1, <2>2
  <2> QED BY <2>1, <2>3 DEF Offsets
<1>1. bad = {}
  <2> SUFFICES ASSUME bad # {} PROVE FALSE
    OBVIOUS
  <2>1. bad \in SUBSET Nat
    OBVIOUS
  <2>2. PICK n \in bad : \A k \in bad : n <= k
    <3> HIDE DEF bad
    <3> QED BY <2>1, LeastNatural
  <2>3. n \in 1..(Len(seqs) + 1) /\ a < n /\ ~(off[a] + Len(seqs[a]) <= off[n])
    OBVIOUS
  <2>4. n - 1 \in 1..Len(seqs) /\ n - 1 \in 1..(Len(seqs) + 1) /\ ~(n <= n - 1) /\ (n - 1) + 1 = n
    BY <1>0, <2>3
  <2>5. off[n] = off[n - 1] + Len(seqs[n - 1])
    BY <1>0, <2>4
  <2>6. CASE n - 1 = a
    <3>1. off[a] \in Nat /\ Len(seqs[a]) \in Nat
      BY <1>0
    <3> QED BY <2>3, <2>5, <2>6, <3>1
  <2>7. CASE n - 1 # a
    <3>1. a < n - 1
      BY <2>3, <2>4, <2>7
    <3>2. off[a] + Len(seqs[a]) <= off[n - 1]
      BY <2>2, <2>4, <3>1
    <3>3. /\ off[a] \in Nat /\ Len(seqs[a]) \in Nat /\ off[n - 1] \in Nat
          /\ Len(seqs[n - 1]) \in Nat
      BY <1>0, <2>4
    <3> QED BY <2>3, <2>5, <3>2, <3>3, SMTT(30)
  <2> QED BY <2>6, <2>7
<1> QED BY <1>1

\* Every place is in one of the sequences.
LEMMA OffsetsCover ==
  ASSUME NEW T, NEW seqs \in Seq(Seq(T)), NEW off, Offsets(off, seqs)
  PROVE  \A n \in 1..off[Len(seqs) + 1] :
            \E b \in 1..Len(seqs) : \E j \in 1..Len(seqs[b]) : n = off[b] + j
<1> SUFFICES ASSUME NEW n \in 1..off[Len(seqs) + 1]
             PROVE  \E b \in 1..Len(seqs) : \E j \in 1..Len(seqs[b]) : n = off[b] + j
  OBVIOUS
<1> DEFINE after == {b \in 1..(Len(seqs) + 1) : n <= off[b]}
<1>0. /\ Len(seqs) \in Nat /\ \A i \in 1..Len(seqs) : Len(seqs[i]) \in Nat
      /\ off[1] = 0
      /\ \A b \in 1..(Len(seqs) + 1) : off[b] \in Nat
      /\ \A b \in 1..Len(seqs) : off[b + 1] = off[b] + Len(seqs[b])
  <2>1. Len(seqs) \in Nat /\ \A i \in 1..Len(seqs) : seqs[i] \in Seq(T)
    OBVIOUS
  <2>2. \A q \in Seq(T) : Len(q) \in Nat
    OBVIOUS
  <2>3. \A i \in 1..Len(seqs) : Len(seqs[i]) \in Nat
    BY <2>1, <2>2
  <2> QED BY <2>1, <2>3 DEF Offsets
<1>1. Len(seqs) + 1 \in after /\ after \in SUBSET Nat /\ n \in Nat /\ n >= 1
  BY <1>0
<1>2. PICK b \in after : \A k \in after : b <= k
  <2> HIDE DEF after
  <2> QED BY <1>1, LeastNatural
<1>3. b \in 1..(Len(seqs) + 1) /\ n <= off[b] /\ b # 1
  BY <1>0, <1>1
<1>4. b - 1 \in 1..Len(seqs) /\ b - 1 \in 1..(Len(seqs) + 1) /\ ~(b <= b - 1) /\ (b - 1) + 1 = b
  BY <1>0, <1>3
<1>5. ~(n <= off[b - 1]) /\ off[b] = off[b - 1] + Len(seqs[b - 1])
  BY <1>0, <1>2, <1>4
<1>6. off[b - 1] \in Nat /\ Len(seqs[b - 1]) \in Nat
  BY <1>0, <1>4
<1>7. n - off[b - 1] \in 1..Len(seqs[b - 1]) /\ n = off[b - 1] + (n - off[b - 1])
  BY <1>1, <1>3, <1>5, <1>6
<1> QED BY <1>4, <1>7

\* Every member of a flattened sequence is a member of one of the sequences.
LEMMA FlattenOnto ==
  ASSUME NEW T, NEW seqs \in Seq(Seq(T)), NEW n \in 1..Len(FlattenSeq(seqs))
  PROVE  \E b \in 1..Len(seqs) : \E j \in 1..Len(seqs[b]) : FlattenSeq(seqs)[n] = seqs[b][j]
<1>1. PICK off : /\ Offsets(off, seqs)
                 /\ Len(FlattenSeq(seqs)) = off[Len(seqs) + 1]
                 /\ \A b \in 1..Len(seqs) : \A j \in 1..Len(seqs[b]) :
                        /\ off[b] + j \in 1..Len(FlattenSeq(seqs))
                        /\ FlattenSeq(seqs)[off[b] + j] = seqs[b][j]
  BY FlattenIndex
<1>c. Offsets(off, seqs) /\ n \in 1..off[Len(seqs) + 1]
  BY <1>1
<1>2a. PICK b \in 1..Len(seqs) : \E j \in 1..Len(seqs[b]) : n = off[b] + j
  BY <1>c, OffsetsCover, SMTT(30)
<1>2. PICK j \in 1..Len(seqs[b]) : n = off[b] + j
  BY <1>2a
<1> QED BY <1>1, <1>2

\* One of the sequences has this member, in one place.
IsOnceIn(x, seqs) ==
  \E b \in 1..Len(seqs) : \E j \in 1..Len(seqs[b]) :
     /\ seqs[b][j] = x
     /\ \A c \in 1..Len(seqs) : \A k \in 1..Len(seqs[c]) : seqs[c][k] = x => c = b /\ k = j

\* What is in one place of one of the sequences is in one place when they are flattened.
LEMMA FlattenOnce ==
  ASSUME NEW T, NEW seqs \in Seq(Seq(T)), NEW x, IsOnceIn(x, seqs)
  PROVE  \E n \in 1..Len(FlattenSeq(seqs)) :
            {m \in 1..Len(FlattenSeq(seqs)) : FlattenSeq(seqs)[m] = x} = {n}
<1>0a. PICK b \in 1..Len(seqs) : \E j \in 1..Len(seqs[b]) :
          /\ seqs[b][j] = x
          /\ \A c \in 1..Len(seqs) : \A k \in 1..Len(seqs[c]) : seqs[c][k] = x => c = b /\ k = j
  BY DEF IsOnceIn
<1>0. PICK j \in 1..Len(seqs[b]) :
          /\ seqs[b][j] = x
          /\ \A c \in 1..Len(seqs) : \A k \in 1..Len(seqs[c]) : seqs[c][k] = x => c = b /\ k = j
  BY <1>0a
<1>1. PICK off : /\ Offsets(off, seqs)
                 /\ Len(FlattenSeq(seqs)) = off[Len(seqs) + 1]
                 /\ \A c \in 1..Len(seqs) : \A k \in 1..Len(seqs[c]) :
                        /\ off[c] + k \in 1..Len(FlattenSeq(seqs))
                        /\ FlattenSeq(seqs)[off[c] + k] = seqs[c][k]
  BY FlattenIndex
<1>2. ASSUME NEW m \in 1..Len(FlattenSeq(seqs)), FlattenSeq(seqs)[m] = x
      PROVE  m = off[b] + j
  <2>c. Offsets(off, seqs) /\ m \in 1..off[Len(seqs) + 1]
    BY <1>1
  <2>1a. PICK c \in 1..Len(seqs) : \E k \in 1..Len(seqs[c]) : m = off[c] + k
    BY <2>c, OffsetsCover, SMTT(30)
  <2>1. PICK k \in 1..Len(seqs[c]) : m = off[c] + k
    BY <2>1a
  <2>2. seqs[c][k] = x
    BY <1>1, <1>2, <2>1
  <2> QED BY <1>0, <2>1, <2>2
<1>3. off[b] + j \in 1..Len(FlattenSeq(seqs)) /\ FlattenSeq(seqs)[off[b] + j] = x
  BY <1>0, <1>1
<1> QED BY <1>2, <1>3

\* Sequences that have no member twice, and none in common, flatten to one.
LEMMA FlattenInjective ==
  ASSUME NEW T, NEW seqs \in Seq(Seq(T)),
         \A b, c \in 1..Len(seqs) : \A j \in 1..Len(seqs[b]), k \in 1..Len(seqs[c]) :
            seqs[b][j] = seqs[c][k] => b = c /\ j = k
  PROVE  \A m, n \in 1..Len(FlattenSeq(seqs)) : FlattenSeq(seqs)[m] = FlattenSeq(seqs)[n] => m = n
<1> SUFFICES ASSUME NEW m \in 1..Len(FlattenSeq(seqs)), NEW n \in 1..Len(FlattenSeq(seqs)),
                    FlattenSeq(seqs)[m] = FlattenSeq(seqs)[n]
             PROVE  m = n
  OBVIOUS
<1>1a. PICK b \in 1..Len(seqs) : \E j \in 1..Len(seqs[b]) : FlattenSeq(seqs)[m] = seqs[b][j]
  BY FlattenOnto, SMTT(30)
<1>1. PICK j \in 1..Len(seqs[b]) : FlattenSeq(seqs)[m] = seqs[b][j]
  BY <1>1a
<1> DEFINE x == seqs[b][j]
<1>2. \A c \in 1..Len(seqs) : \A k \in 1..Len(seqs[c]) : seqs[c][k] = x => c = b /\ k = j
  OBVIOUS
<1>3. seqs[b][j] = x
  OBVIOUS
<1> HIDE DEF x
<1>5. IsOnceIn(x, seqs)
  <2>1. \E i \in 1..Len(seqs[b]) :
          /\ seqs[b][i] = x
          /\ \A c \in 1..Len(seqs) : \A k \in 1..Len(seqs[c]) : seqs[c][k] = x => c = b /\ k = i
    BY <1>2, <1>3
  <2> QED BY <2>1 DEF IsOnceIn
<1>4. \E p \in 1..Len(FlattenSeq(seqs)) :
         {q \in 1..Len(FlattenSeq(seqs)) : FlattenSeq(seqs)[q] = x} = {p}
  BY <1>5, FlattenOnce, SMTT(30)
<1> QED BY <1>1, <1>4 DEF x

\* One sequence by itself.
LEMMA FlattenOne ==
  ASSUME NEW T, NEW q \in Seq(T)
  PROVE  FlattenSeq(<<q>>) = q
<1>1. <<q>> \in Seq(Seq(T)) /\ Len(<<q>>) = 1 /\ <<q>>[1] = q
  OBVIOUS
<1> DEFINE seqs == <<q>>
           F == FlattenSeq(seqs)
<1>0. seqs \in Seq(Seq(T))
  BY <1>1
<1> HIDE DEF seqs
<1>2. PICK off : /\ Offsets(off, seqs)
                 /\ Len(F) = off[Len(seqs) + 1]
                 /\ \A b \in 1..Len(seqs) : \A j \in 1..Len(seqs[b]) :
                        /\ off[b] + j \in 1..Len(F) /\ F[off[b] + j] = seqs[b][j]
  BY <1>0, FlattenIndex
<1>3. off[1] = 0 /\ off[1 + 1] = off[1] + Len(q) /\ Len(q) \in Nat
  BY <1>1, <1>2 DEF Offsets, seqs
<1>4. F \in Seq(T)
  BY <1>1, FlattenFacts DEF seqs
<1> HIDE DEF F
<1>5. Len(F) = Len(q) /\ \A j \in 1..Len(q) : F[j] = q[j]
  BY <1>1, <1>2, <1>3 DEF seqs
<1> QED BY <1>4, <1>5 DEF F, seqs

\* Sequences of one member each.
LEMMA FlattenSingletons ==
  ASSUME NEW T, NEW q \in Seq(T)
  PROVE  FlattenSeq([n \in DOMAIN q |-> <<q[n]>>]) = q
<1> DEFINE seqs == [n \in DOMAIN q |-> <<q[n]>>]
           F == FlattenSeq(seqs)
<1>0. DOMAIN q = 1..Len(q) /\ Len(q) \in Nat /\ \A n \in 1..Len(q) : q[n] \in T
  OBVIOUS
<1>1. seqs \in Seq(Seq(T)) /\ Len(seqs) = Len(q)
  BY <1>0
<1>2. \A n \in 1..Len(q) : Len(seqs[n]) = 1 /\ seqs[n][1] = q[n]
  BY <1>0
<1> HIDE DEF seqs
<1>3. PICK off : /\ Offsets(off, seqs)
                 /\ Len(F) = off[Len(seqs) + 1]
                 /\ \A b \in 1..Len(seqs) : \A j \in 1..Len(seqs[b]) :
                        /\ off[b] + j \in 1..Len(F) /\ F[off[b] + j] = seqs[b][j]
  BY <1>1, FlattenIndex
<1>4. F \in Seq(T)
  BY <1>1, FlattenFacts
<1> DEFINE id == [n \in 1..(Len(q) + 1) |-> n - 1]
<1>5. \A b \in 1..(Len(q) + 1) : off[b] = id[b]
  <2>1. off[1] = id[1]
    BY <1>0, <1>3 DEF Offsets
  <2>2. \A b \in 1..Len(q) : off[b] = id[b] => off[b + 1] = id[b + 1]
    <3> SUFFICES ASSUME NEW b \in 1..Len(q), off[b] = id[b] PROVE off[b + 1] = id[b + 1]
      OBVIOUS
    <3>1. off[b + 1] = off[b] + 1
      BY <1>1, <1>2, <1>3 DEF Offsets
    <3>2. b + 1 \in 1..(Len(q) + 1) /\ b \in 1..(Len(q) + 1) /\ b \in Int
      BY <1>0
    <3> QED BY <3>1, <3>2
  <2>3. Len(q) \in Nat
    OBVIOUS
  <2> HIDE DEF id
  <2>4. SameSteps(off, id, Len(q))
    BY <2>1, <2>2 DEF SameSteps
  <2> QED BY <2>3, <2>4, OffsetsUnique
<1> HIDE DEF F
<1>6. Len(F) = Len(q)
  BY <1>0, <1>1, <1>3, <1>5
<1>7. \A n \in 1..Len(q) : F[n] = q[n]
  <2> TAKE n \in 1..Len(q)
  <2>1. off[n] + 1 = n
    BY <1>0, <1>5
  <2>2. F[off[n] + 1] = seqs[n][1]
    BY <1>1, <1>2, <1>3
  <2> QED BY <1>2, <2>1, <2>2
<1> QED BY <1>4, <1>6, <1>7 DEF F, seqs

\* A sequence of numbers, each greater than those before it.
Increasing(s) == \A m, n \in 1..Len(s) : m < n => s[m] < s[n]

\* The numbers of a set in increasing order.
LEMMA FlattenSelection ==
  ASSUME NEW N \in Nat, NEW S
  PROVE  LET F == FlattenSeq([f \in 1..N |-> IF f \in S THEN <<f>> ELSE << >>])
         IN  F \in Seq(1..N) /\ Increasing(F) /\ {F[n] : n \in 1..Len(F)} = S \cap (1..N)
<1> DEFINE seqs == [f \in 1..N |-> IF f \in S THEN <<f>> ELSE << >>]
           F == FlattenSeq(seqs)
<1>1. seqs \in Seq(Seq(1..N)) /\ Len(seqs) = N
  <2>1. ASSUME NEW f \in 1..N PROVE (IF f \in S THEN <<f>> ELSE << >>) \in Seq(1..N)
    <3>1. <<f>> \in Seq(1..N) /\ << >> \in Seq(1..N)
      OBVIOUS
    <3> QED BY <3>1
  <2>2. DOMAIN seqs = 1..N /\ \A f \in 1..N : seqs[f] \in Seq(1..N)
    BY <2>1
  <2>3. seqs = [f \in 1..N |-> seqs[f]]
    OBVIOUS
  <2> HIDE DEF seqs
  <2> QED BY <2>2, <2>3
<1>2. \A f \in 1..N : \A j \in 1..Len(seqs[f]) : f \in S /\ j = 1 /\ seqs[f][j] = f
  OBVIOUS
<1>3. \A f \in 1..N : f \in S => 1 \in 1..Len(seqs[f]) /\ seqs[f][1] = f /\ Len(seqs[f]) = 1
  OBVIOUS
<1> HIDE DEF seqs
<1>4. PICK off : /\ Offsets(off, seqs)
                 /\ Len(F) = off[Len(seqs) + 1]
                 /\ \A b \in 1..Len(seqs) : \A j \in 1..Len(seqs[b]) :
                        /\ off[b] + j \in 1..Len(F) /\ F[off[b] + j] = seqs[b][j]
  BY <1>1, FlattenIndex
<1>5. F \in Seq(1..N)
  BY <1>1, FlattenFacts
<1>6. \A n \in 1..Len(F) : \E f \in S \cap (1..N) : n = off[f] + 1 /\ F[n] = f
  <2> TAKE n \in 1..Len(F)
  <2>c. Offsets(off, seqs) /\ n \in 1..off[Len(seqs) + 1]
    BY <1>4
  <2>1a. PICK b \in 1..Len(seqs) : \E j \in 1..Len(seqs[b]) : n = off[b] + j
    BY <1>1, <2>c, OffsetsCover
  <2>1. PICK j \in 1..Len(seqs[b]) : n = off[b] + j
    BY <2>1a
  <2>2. b \in S /\ j = 1 /\ seqs[b][j] = b /\ b \in 1..N
    BY <1>1, <1>2, <2>1
  <2> QED BY <1>4, <2>1, <2>2
<1> HIDE DEF F
<1>7. Increasing(F)
  <2> SUFFICES ASSUME NEW m \in 1..Len(F), NEW n \in 1..Len(F), m < n PROVE F[m] < F[n]
    BY DEF Increasing
  <2>1. PICK f \in S \cap (1..N) : m = off[f] + 1 /\ F[m] = f
    BY <1>6
  <2>2. PICK g \in S \cap (1..N) : n = off[g] + 1 /\ F[n] = g
    BY <1>6
  <2>3. f \in 1..(Len(seqs) + 1) /\ g \in 1..Len(seqs) /\ f \in Int /\ g \in Int
    BY <1>1
  <2>4. off[f] \in Nat /\ off[g] \in Nat /\ Len(seqs[g]) = 1
    <3>1. off \in [1..(Len(seqs) + 1) -> Nat]
      BY <1>4 DEF Offsets
    <3>2. g \in 1..(Len(seqs) + 1)
      BY <1>1, <2>3
    <3> QED BY <1>3, <2>3, <3>1, <3>2
  <2>5. ~(g < f)
    <3> SUFFICES ASSUME g < f PROVE FALSE
      OBVIOUS
    <3>1. off[g] + Len(seqs[g]) <= off[f]
      BY <1>1, <1>4, <2>3, OffsetsApart
    <3> QED BY <2>1, <2>2, <2>4, <3>1
  <2>6. f # g
    BY <2>1, <2>2, <2>4
  <2> QED BY <2>1, <2>2, <2>3, <2>5, <2>6
<1>8. ASSUME NEW f \in S \cap (1..N) PROVE \E n \in 1..Len(F) : F[n] = f
  <2>1. 1 \in 1..Len(seqs[f]) /\ seqs[f][1] = f /\ f \in 1..Len(seqs)
    BY <1>1, <1>3
  <2>2. off[f] + 1 \in 1..Len(F) /\ F[off[f] + 1] = f
    BY <1>4, <2>1 DEF F
  <2> QED BY <2>2
<1>9. {F[n] : n \in 1..Len(F)} = S \cap (1..N)
  BY <1>6, <1>8
<1> QED BY <1>5, <1>7, <1>9 DEF F, seqs

\* One of two increasing sequences of the same numbers begins with the other.
LEMMA IncreasingPrefix ==
  ASSUME NEW a \in Seq(Nat), NEW b \in Seq(Nat), Increasing(a), Increasing(b),
         {a[n] : n \in 1..Len(a)} = {b[n] : n \in 1..Len(b)}
  PROVE  \A n \in 1..Len(a) : n <= Len(b) /\ a[n] = b[n]
<1>0. /\ Len(a) \in Nat /\ Len(b) \in Nat
      /\ \A n \in 1..Len(a) : a[n] \in Nat
      /\ \A n \in 1..Len(b) : b[n] \in Nat
  OBVIOUS
<1> DEFINE bad == {n \in 1..Len(a) : ~(n <= Len(b) /\ a[n] = b[n])}
<1>1. bad = {}
  <2> SUFFICES ASSUME bad # {} PROVE FALSE
    OBVIOUS
  <2>1. bad \in SUBSET Nat
    OBVIOUS
  <2>2. PICK n \in bad : \A k \in bad : n <= k
    <3> HIDE DEF bad
    <3> QED BY <2>1, LeastNatural
  <2>3. n \in 1..Len(a) /\ ~(n <= Len(b) /\ a[n] = b[n])
    OBVIOUS
  <2>4. \A k \in 1..Len(a) : k < n => k <= Len(b) /\ a[k] = b[k]
    <3> TAKE k \in 1..Len(a)
    <3>1. k < n => ~(n <= k)
      BY <2>3
    <3>2. k < n => k \notin bad
      <4> HIDE DEF bad
      <4> QED BY <2>2, <3>1
    <3> QED BY <3>2
  <2>5. PICK m \in 1..Len(b) : b[m] = a[n]
    BY <2>3
  <2>6. n <= m
    <3> SUFFICES ASSUME m < n PROVE FALSE
      BY <1>0, <2>3
    <3>1. m \in 1..Len(a)
      BY <1>0, <2>3
    <3>2. a[m] < a[n] /\ a[m] = b[m]
      BY <2>3, <2>4, <3>1 DEF Increasing
    <3> QED BY <1>0, <2>3, <2>5, <3>2
  <2>7. n \in 1..Len(b)
    BY <1>0, <2>3, <2>6
  <2>8. b[n] <= a[n]
    <3>1. CASE n = m
      BY <1>0, <2>3, <2>5, <3>1
    <3>2. CASE n # m
      <4>1. n < m
        BY <1>0, <2>3, <2>6, <3>2
      <4>2. b[n] < b[m]
        BY <2>7, <4>1 DEF Increasing
      <4> QED BY <1>0, <2>3, <2>5, <2>7, <4>2, SMTT(30)
    <3> QED BY <3>1, <3>2
  <2>9. PICK p \in 1..Len(a) : a[p] = b[n]
    BY <2>7
  <2>10. n <= p
    <3> SUFFICES ASSUME p < n PROVE FALSE
      BY <1>0, <2>3
    <3>1. p \in 1..Len(b) /\ a[p] = b[p]
      BY <1>0, <2>4
    <3>2. b[p] < b[n]
      BY <2>7, <3>1 DEF Increasing
    <3> QED BY <1>0, <2>7, <2>9, <3>1, <3>2
  <2>11. a[n] <= b[n]
    <3>1. CASE n = p
      BY <1>0, <2>3, <2>9, <3>1
    <3>2. CASE n # p
      <4>1. n < p
        BY <1>0, <2>3, <2>10, <3>2
      <4>2. a[n] < a[p]
        BY <2>3, <4>1 DEF Increasing
      <4>3. a[n] \in Nat /\ a[p] \in Nat
        BY <1>0, <2>3
      <4> HIDE DEF bad
      <4> QED BY <2>9, <4>2, <4>3
    <3> QED BY <3>1, <3>2
  <2> QED BY <1>0, <2>3, <2>7, <2>8, <2>11, SMTT(30)
<1> QED BY <1>1

\* There is one increasing sequence of the numbers of a set.
LEMMA IncreasingUnique ==
  ASSUME NEW a \in Seq(Nat), NEW b \in Seq(Nat), Increasing(a), Increasing(b),
         {a[n] : n \in 1..Len(a)} = {b[n] : n \in 1..Len(b)}
  PROVE  a = b
<1>1. \A n \in 1..Len(a) : n <= Len(b) /\ a[n] = b[n]
  BY IncreasingPrefix
<1>2. \A n \in 1..Len(b) : n <= Len(a) /\ b[n] = a[n]
  BY IncreasingPrefix
<1>3. Len(a) \in Nat /\ Len(b) \in Nat
  OBVIOUS
<1>4. Len(a) = Len(b)
  <2>1. Len(a) <= Len(b)
    BY <1>1, <1>3
  <2>2. Len(b) <= Len(a)
    BY <1>2, <1>3
  <2> QED BY <1>3, <2>1, <2>2
<1> QED BY <1>1, <1>4

--------------------------------------------------------------------------------
(* The cells and the edges of the blocks in their order.                     *)

\* The points of the lattice.
Points == Int \X Int

\* Blocks that have cells.
Shaped(s) ==
  /\ s.blocks \in Seq(Blocks)
  /\ \A b \in DOMAIN s.blocks : s.blocks[b].nx > 0 /\ s.blocks[b].ny > 0

\* Their dimensions are positive numbers.
LEMMA ShapedFacts ==
  ASSUME NEW s, Shaped(s)
  PROVE  /\ DOMAIN s.blocks = 1..Len(s.blocks) /\ Len(s.blocks) \in Nat
         /\ \A b \in DOMAIN s.blocks :
               /\ s.blocks[b].nx \in Nat /\ s.blocks[b].ny \in Nat
               /\ s.blocks[b].nx > 0 /\ s.blocks[b].ny > 0
               /\ s.blocks[b].vertices \in Seq(Points)
<1> DEFINE blocks == s.blocks
<1>1. blocks \in Seq(Blocks)
  BY DEF Shaped
<1> HIDE DEF blocks
<1>2. DOMAIN blocks = 1..Len(blocks) /\ Len(blocks) \in Nat /\ \A b \in DOMAIN blocks : blocks[b] \in Blocks
  BY <1>1
<1> QED BY <1>2 DEF blocks, Shaped, Blocks, Points

\* A number is taken apart into its row and its column.
LEMMA RowColumn ==
  ASSUME NEW n \in Nat, n > 0, NEW i \in 0..(n - 1), NEW j \in Nat
  PROVE  (j * n + i) % n = i /\ (j * n + i) \div n = j
<1> DEFINE x == j * n + i
           q == x \div n
           r == x % n
<1>1. x \in Int /\ j * n \in Int
  OBVIOUS
<1> HIDE DEF x
<1>2. q \in Int /\ r \in 0..(n - 1) /\ x = n * q + r
  BY <1>1
<1> HIDE DEF q, r
<1>3. ~(q >= j + 1)
  <2> SUFFICES ASSUME q >= j + 1 PROVE FALSE
    OBVIOUS
  <2>1. n * q >= n * (j + 1) /\ n * (j + 1) = j * n + n /\ n * q \in Int
    BY <1>2
  <2> QED BY <1>1, <1>2, <2>1 DEF x
<1>4. ~(q <= j - 1)
  <2> SUFFICES ASSUME q <= j - 1 PROVE FALSE
    OBVIOUS
  <2>1. n * q <= n * (j - 1) /\ n * (j - 1) = j * n - n /\ n * q \in Int
    BY <1>2
  <2> QED BY <1>1, <1>2, <2>1 DEF x
<1>5. q = j
  BY <1>2, <1>3, <1>4
<1>6. r = i
  <2>1. n * q = j * n
    BY <1>5
  <2> QED BY <1>1, <1>2, <2>1 DEF x
<1> QED BY <1>5, <1>6 DEF q, r, x

\* The place of column i of row j among rows of n.
LEMMA RowPlace ==
  ASSUME NEW n \in Nat, NEW m \in Nat, NEW i \in 0..(n - 1), NEW j \in 0..(m - 1)
  PROVE  j * n + i + 1 \in 1..(n * m)
<1>1. j * n \in Nat /\ (m - 1 - j) * n \in Nat
  OBVIOUS
<1>2. n * m = j * n + (m - 1 - j) * n + n
  OBVIOUS
<1> QED BY <1>1, <1>2

\* Rows and columns of a number below nx * ny.
LEMMA CellIndex ==
  ASSUME NEW nx \in Nat, NEW ny \in Nat, nx > 0, NEW c \in 1..(nx * ny)
  PROVE  /\ (c - 1) % nx \in 0..(nx - 1)
         /\ (c - 1) \div nx \in 0..(ny - 1)
         /\ c = ((c - 1) \div nx) * nx + ((c - 1) % nx) + 1
<1> DEFINE r == (c - 1) % nx
           q == (c - 1) \div nx
<1>1. nx * ny \in Int
  OBVIOUS
<1>2. c \in Int /\ c - 1 \in Int /\ c - 1 >= 0 /\ c - 1 < nx * ny
  BY <1>1
<1>3. r \in 0..(nx - 1) /\ q \in Int /\ c - 1 = nx * q + r
  BY <1>2
<1> HIDE DEF r, q
<1>4. q >= 0
  <2> SUFFICES ASSUME q <= -1 PROVE FALSE
    BY <1>3
  <2>1. nx * q <= -nx
    BY <1>3
  <2> QED BY <1>2, <1>3, <2>1
<1>5. q <= ny - 1
  <2> SUFFICES ASSUME q >= ny PROVE FALSE
    BY <1>3
  <2>1. nx * q >= nx * ny
    BY <1>3
  <2>2. nx * q \in Int
    BY <1>3
  <2> QED BY <1>1, <1>2, <1>3, <2>1, <2>2
<1>6. c = q * nx + r + 1
  <2>1. nx * q = q * nx /\ q * nx \in Int
    BY <1>3
  <2> QED BY <1>2, <1>3, <2>1
<1> QED BY <1>3, <1>4, <1>5, <1>6 DEF r, q

\* There is a cell at these indices of this block.
IsCell(s, b, i, j) ==
  /\ b \in DOMAIN s.blocks
  /\ i \in 0..(s.blocks[b].nx - 1)
  /\ j \in 0..(s.blocks[b].ny - 1)

\* Every cell is once in the order of the cells, at its number.
LEMMA PlacesAndOffsets ==
  ASSUME NEW s, Shaped(s)
  PROVE  /\ CellPlaces(s) \in Seq(Nat \X Nat \X Nat)
         /\ \A b, i, j : IsCell(s, b, i, j) =>
               /\ GlobalCell(s, b, i, j) \in 1..Len(CellPlaces(s))
               /\ CellPlaces(s)[GlobalCell(s, b, i, j)] = <<b, i, j>>
         /\ \A c \in 1..Len(CellPlaces(s)) :
               \E b, i, j : /\ IsCell(s, b, i, j)
                            /\ CellPlaces(s)[c] = <<b, i, j>>
                            /\ c = GlobalCell(s, b, i, j)
         /\ CellOffset(s)[1] = 0
         /\ \A b \in 1..Len(s.blocks) :
               CellOffset(s)[b + 1] = CellOffset(s)[b] + s.blocks[b].nx * s.blocks[b].ny
<1> DEFINE N == Len(s.blocks)
           nx(b) == s.blocks[b].nx
           ny(b) == s.blocks[b].ny
           T == Nat \X Nat \X Nat
           list(b) == [c \in 1..(nx(b) * ny(b)) |-> <<b, (c - 1) % nx(b), (c - 1) \div nx(b)>>]
           seqs == [b \in DOMAIN s.blocks |-> list(b)]
           F == FlattenSeq(seqs)
<1>1. /\ DOMAIN s.blocks = 1..N /\ N \in Nat
      /\ \A b \in 1..N : nx(b) \in Nat /\ ny(b) \in Nat /\ nx(b) > 0 /\ ny(b) > 0
  BY ShapedFacts
<1>2. CellPlaces(s) = F
  BY DEF CellPlaces
<1>o. \A b, i, j : GlobalCell(s, b, i, j) = CellOffset(s)[b] + j * nx(b) + i + 1
  BY DEF GlobalCell
<1>c. CellOffset(s) = CHOOSE g : g = [b \in 1..(N + 1) |->
                                        IF b = 1 THEN 0 ELSE g[b - 1] + nx(b - 1) * ny(b - 1)]
  BY DEF CellOffset
<1>i. \A b, i, j : IsCell(s, b, i, j) <=> b \in 1..N /\ i \in 0..(nx(b) - 1) /\ j \in 0..(ny(b) - 1)
  BY <1>1 DEF IsCell
<1> HIDE DEF N, nx, ny
<1>3. ASSUME NEW b \in 1..N
      PROVE  list(b) \in Seq(T) /\ Len(list(b)) = nx(b) * ny(b) /\ nx(b) * ny(b) \in Nat
  <2>1. nx(b) * ny(b) \in Nat
    BY <1>1
  <2>2. ASSUME NEW c \in 1..(nx(b) * ny(b))
        PROVE  <<b, (c - 1) % nx(b), (c - 1) \div nx(b)>> \in T
    <3>1. (c - 1) % nx(b) \in 0..(nx(b) - 1) /\ (c - 1) \div nx(b) \in 0..(ny(b) - 1)
      <4>1. nx(b) \in Nat /\ ny(b) \in Nat /\ nx(b) > 0
        BY <1>1
      <4> QED BY <4>1, CellIndex
    <3> QED BY <1>1, <3>1, SMTT(30)
  <2>3. list(b) \in [1..(nx(b) * ny(b)) -> T]
    <3> HIDE DEF T
    <3> QED BY <2>2
  <2> HIDE DEF list, T
  <2> QED BY <2>1, <2>3
<1>4. /\ seqs \in Seq(Seq(T)) /\ Len(seqs) = N
      /\ \A b \in 1..N : seqs[b] = list(b)
  <2> HIDE DEF list, T
  <2> QED BY <1>1, <1>3
<1> HIDE DEF seqs, list, T
<1>5. PICK off : /\ Offsets(off, seqs)
                 /\ Len(F) = off[Len(seqs) + 1]
                 /\ \A b \in 1..Len(seqs) : \A j \in 1..Len(seqs[b]) :
                        /\ off[b] + j \in 1..Len(F)
                        /\ F[off[b] + j] = seqs[b][j]
  BY <1>4, FlattenIndex
<1>6. /\ off \in [1..(N + 1) -> Nat] /\ off[1] = 0
      /\ \A b \in 1..N : off[b + 1] = off[b] + nx(b) * ny(b)
  BY <1>3, <1>4, <1>5 DEF Offsets
<1>7. CellOffset(s)[1] = 0 /\ \A b \in 1..N : CellOffset(s)[b + 1] = CellOffset(s)[b] + nx(b) * ny(b)
  <2> DEFINE P(g) == g = [b \in 1..(N + 1) |->
                            IF b = 1 THEN 0 ELSE g[b - 1] + nx(b - 1) * ny(b - 1)]
             C == CellOffset(s)
  <2>1. P(off)
    <3>1. ASSUME NEW b \in 1..(N + 1), b # 1
          PROVE  off[b] = off[b - 1] + nx(b - 1) * ny(b - 1)
      <4>1. b - 1 \in 1..N /\ (b - 1) + 1 = b
        BY <1>1, <3>1
      <4>2. off[(b - 1) + 1] = off[b - 1] + nx(b - 1) * ny(b - 1)
        BY <1>6, <4>1
      <4> QED BY <4>1, <4>2
    <3>2. off = [b \in 1..(N + 1) |-> off[b]]
      BY <1>6
    <3> QED BY <1>6, <3>1, <3>2
  <2>2. P(C)
    <3>1. C = CHOOSE g : P(g)
      BY <1>c
    <3> HIDE DEF P, C
    <3> QED BY <2>1, <3>1
  <2> HIDE DEF C
  <2>3. 1 \in 1..(N + 1) /\ \A b \in 1..N : b + 1 \in 1..(N + 1) /\ b + 1 # 1 /\ (b + 1) - 1 = b
    BY <1>1
  <2>4. C[1] = 0
    BY <2>2, <2>3
  <2>5. ASSUME NEW b \in 1..N PROVE C[b + 1] = C[b] + nx(b) * ny(b)
    <3>1. C[b + 1] = C[(b + 1) - 1] + nx((b + 1) - 1) * ny((b + 1) - 1)
      BY <2>2, <2>3
    <3> QED BY <2>3, <3>1
  <2> QED BY <2>4, <2>5 DEF C
<1>8. \A b \in 1..(N + 1) : CellOffset(s)[b] = off[b]
  <2>1. SameSteps(CellOffset(s), off, N)
    BY <1>6, <1>7 DEF SameSteps
  <2> QED BY <1>1, <2>1, OffsetsUnique
<1> HIDE DEF F
<1>9. ASSUME NEW b \in 1..N, NEW i \in 0..(nx(b) - 1), NEW j \in 0..(ny(b) - 1)
      PROVE  /\ GlobalCell(s, b, i, j) \in 1..Len(F)
             /\ F[GlobalCell(s, b, i, j)] = <<b, i, j>>
  <2> DEFINE c == j * nx(b) + i + 1
  <2>0. nx(b) \in Nat /\ ny(b) \in Nat /\ nx(b) > 0 /\ j \in Nat
    BY <1>1
  <2>1. c \in 1..(nx(b) * ny(b))
    BY <2>0, RowPlace
  <2>2. (j * nx(b) + i) % nx(b) = i /\ (j * nx(b) + i) \div nx(b) = j
    BY <2>0, RowColumn
  <2>3. c - 1 = j * nx(b) + i /\ c \in Int
    <3>1. j * nx(b) \in Int /\ i \in Int
      BY <2>0
    <3> QED BY <3>1
  <2> HIDE DEF c
  <2>4. list(b)[c] = <<b, i, j>>
    BY <2>1, <2>2, <2>3 DEF list
  <2>5. off[b] + c \in 1..Len(F) /\ F[off[b] + c] = list(b)[c]
    <3>1. b \in 1..Len(seqs) /\ c \in 1..Len(seqs[b]) /\ seqs[b] = list(b)
      <4> HIDE DEF list
      <4> QED BY <1>3, <1>4, <2>1
    <3> HIDE DEF list
    <3> QED BY <1>5, <3>1
  <2>6. GlobalCell(s, b, i, j) = off[b] + c
    <3>1. b \in 1..(N + 1) /\ off[b] \in Nat
      BY <1>1, <1>6
    <3>2. j * nx(b) \in Int /\ i \in Int
      BY <2>0
    <3> QED BY <1>o, <1>8, <3>1, <3>2 DEF c
  <2> QED BY <2>4, <2>5, <2>6
<1>10. ASSUME NEW n \in 1..Len(F)
       PROVE  \E b, i, j : /\ b \in 1..N /\ i \in 0..(nx(b) - 1) /\ j \in 0..(ny(b) - 1)
                           /\ F[n] = <<b, i, j>> /\ n = GlobalCell(s, b, i, j)
  <2>1. Offsets(off, seqs) /\ n \in 1..off[Len(seqs) + 1]
    BY <1>5
  <2>2. PICK b \in 1..Len(seqs) : \E j \in 1..Len(seqs[b]) : n = off[b] + j
    BY <1>4, <2>1, OffsetsCover, SMTT(30)
  <2>3. PICK c \in 1..Len(seqs[b]) : n = off[b] + c
    BY <2>2
  <2>4. b \in 1..N /\ c \in 1..(nx(b) * ny(b)) /\ seqs[b] = list(b)
    <3> HIDE DEF list
    <3> QED BY <1>3, <1>4, <2>2, <2>3
  <2> DEFINE i == (c - 1) % nx(b)
             j == (c - 1) \div nx(b)
  <2>5. i \in 0..(nx(b) - 1) /\ j \in 0..(ny(b) - 1) /\ c = j * nx(b) + i + 1
    <3>1. nx(b) \in Nat /\ ny(b) \in Nat /\ nx(b) > 0 /\ c \in 1..(nx(b) * ny(b))
      BY <1>1, <2>4
    <3> QED BY <3>1, CellIndex
  <2>6. F[n] = <<b, i, j>>
    <3>1. F[n] = list(b)[c]
      BY <1>5, <2>2, <2>3, <2>4
    <3> QED BY <2>4, <3>1 DEF list
  <2> HIDE DEF i, j
  <2>7. n = GlobalCell(s, b, i, j)
    <3>1. b \in 1..(N + 1) /\ off[b] \in Nat
      BY <1>1, <1>6, <2>4
    <3>2. j * nx(b) \in Int /\ i \in Int
      BY <1>1, <2>4, <2>5
    <3> QED BY <1>o, <1>8, <2>3, <2>5, <3>1, <3>2
  <2> QED BY <2>4, <2>5, <2>6, <2>7
<1>11. F \in Seq(T)
  BY <1>4, FlattenFacts DEF F
<1>12. ASSUME NEW b, NEW i, NEW j, IsCell(s, b, i, j)
       PROVE  GlobalCell(s, b, i, j) \in 1..Len(F) /\ F[GlobalCell(s, b, i, j)] = <<b, i, j>>
  BY <1>9, <1>12, <1>i
<1>13. ASSUME NEW c \in 1..Len(F)
       PROVE  \E b, i, j : IsCell(s, b, i, j) /\ F[c] = <<b, i, j>> /\ c = GlobalCell(s, b, i, j)
  BY <1>10, <1>i
<1> HIDE DEF nx, ny
<1>14. /\ CellOffset(s)[1] = 0
       /\ \A b \in 1..Len(s.blocks) :
             CellOffset(s)[b + 1] = CellOffset(s)[b] + s.blocks[b].nx * s.blocks[b].ny
  BY <1>7 DEF N, nx, ny
<1> QED BY <1>2, <1>11, <1>12, <1>13, <1>14, SMTT(30) DEF T

\* The cells are listed by their numbers, each place of each block once.
LEMMA CellPlacesFacts ==
  ASSUME NEW s, Shaped(s)
  PROVE  /\ CellPlaces(s) \in Seq(Nat \X Nat \X Nat)
         /\ \A b, i, j : IsCell(s, b, i, j) =>
               /\ GlobalCell(s, b, i, j) \in 1..Len(CellPlaces(s))
               /\ CellPlaces(s)[GlobalCell(s, b, i, j)] = <<b, i, j>>
         /\ \A c \in 1..Len(CellPlaces(s)) :
               \E b, i, j : /\ IsCell(s, b, i, j)
                            /\ CellPlaces(s)[c] = <<b, i, j>>
                            /\ c = GlobalCell(s, b, i, j)
BY PlacesAndOffsets

\* How many cells the blocks before a block have.
LEMMA OffsetSteps ==
  ASSUME NEW s, Shaped(s)
  PROVE  /\ CellOffset(s)[1] = 0
         /\ \A b \in 1..Len(s.blocks) :
               CellOffset(s)[b + 1] = CellOffset(s)[b] + s.blocks[b].nx * s.blocks[b].ny
BY PlacesAndOffsets

\* A function on the first numbers is a sequence.
LEMMA IsSequence ==
  ASSUME NEW T, NEW n \in Nat, NEW f, f = [i \in 1..n |-> f[i]], \A i \in 1..n : f[i] \in T
  PROVE  f \in Seq(T) /\ Len(f) = n
OBVIOUS

\* An edge of a block.
IsEdge(s, e) ==
  /\ e = [block |-> e.block, kind |-> e.kind, i |-> e.i, j |-> e.j]
  /\ e.block \in DOMAIN s.blocks
  /\ \/ e.kind = "vertical" /\ e.i \in 0..s.blocks[e.block].nx /\ e.j \in 0..(s.blocks[e.block].ny - 1)
     \/ e.kind = "horizontal" /\ e.i \in 0..(s.blocks[e.block].nx - 1) /\ e.j \in 0..s.blocks[e.block].ny

\* What edges are made of.
EdgeRecords == [block : Nat, kind : {"vertical", "horizontal"}, i : Nat, j : Nat]

\* An edge has a block, a kind and a place.
LEMMA EdgeIs ==
  ASSUME NEW s, Shaped(s), NEW e, IsEdge(s, e)
  PROVE  e \in EdgeRecords
<1>1. /\ s.blocks[e.block].nx \in Nat /\ s.blocks[e.block].ny \in Nat /\ e.block \in Nat
  BY ShapedFacts DEF IsEdge
<1>2. e.kind \in {"vertical", "horizontal"} /\ e.i \in Nat /\ e.j \in Nat
  BY <1>1 DEF IsEdge
<1>3. e = [block |-> e.block, kind |-> e.kind, i |-> e.i, j |-> e.j]
  BY DEF IsEdge
<1> QED BY <1>1, <1>2, <1>3 DEF EdgeRecords

\* The edges of a block are each once in their order.
LEMMA BlockEdgesFacts ==
  ASSUME NEW s, Shaped(s), NEW b \in DOMAIN s.blocks
  PROVE  /\ BlockEdges(s, b) \in Seq(EdgeRecords)
         /\ \A n \in 1..Len(BlockEdges(s, b)) :
               IsEdge(s, BlockEdges(s, b)[n]) /\ BlockEdges(s, b)[n].block = b
         /\ \A e : IsEdge(s, e) /\ e.block = b =>
               \E n \in 1..Len(BlockEdges(s, b)) : BlockEdges(s, b)[n] = e
         /\ \A m, n \in 1..Len(BlockEdges(s, b)) :
               BlockEdges(s, b)[m] = BlockEdges(s, b)[n] => m = n
<1> DEFINE nx == s.blocks[b].nx
           ny == s.blocks[b].ny
           T == EdgeRecords
           p == ny * (nx + 1)
           q == (ny + 1) * nx
           edge(kind, i, j) == [block |-> b, kind |-> kind, i |-> i, j |-> j]
           V == [n \in 1..p |-> edge("vertical", (n - 1) % (nx + 1), (n - 1) \div (nx + 1))]
           H == [n \in 1..q |-> edge("horizontal", (n - 1) % nx, (n - 1) \div nx)]
           E == BlockEdges(s, b)
<1>1. nx \in Nat /\ ny \in Nat /\ nx > 0 /\ ny > 0 /\ b \in Nat
  BY ShapedFacts
<1>2. E = V \o H
  BY DEF BlockEdges
<1>3. \A k, i, j : /\ edge(k, i, j).block = b /\ edge(k, i, j).kind = k
                   /\ edge(k, i, j).i = i /\ edge(k, i, j).j = j
  OBVIOUS
<1>e. \A e : IsEdge(s, e) /\ e.block = b =>
         /\ e = edge(e.kind, e.i, e.j)
         /\ \/ e.kind = "vertical" /\ e.i \in 0..nx /\ e.j \in 0..(ny - 1)
            \/ e.kind = "horizontal" /\ e.i \in 0..(nx - 1) /\ e.j \in 0..ny
  BY DEF IsEdge
<1>v. \A i \in 0..nx, j \in 0..(ny - 1) : IsEdge(s, edge("vertical", i, j))
  BY DEF IsEdge
<1>h. \A i \in 0..(nx - 1), j \in 0..ny : IsEdge(s, edge("horizontal", i, j))
  BY DEF IsEdge
<1> HIDE DEF nx, ny, edge, E
<1>4. p \in Nat /\ q \in Nat /\ nx + 1 \in Nat /\ nx + 1 > 0 /\ ny + 1 \in Nat /\ ny + 1 > 0
  BY <1>1
<1>5. ASSUME NEW n \in 1..p
      PROVE  /\ (n - 1) % (nx + 1) \in 0..nx /\ (n - 1) \div (nx + 1) \in 0..(ny - 1)
             /\ n = ((n - 1) \div (nx + 1)) * (nx + 1) + ((n - 1) % (nx + 1)) + 1
  <2> DEFINE w == nx + 1
  <2>1. w \in Nat /\ w > 0 /\ n \in 1..(w * ny)
    BY <1>1, <1>4
  <2> HIDE DEF w
  <2>2. /\ (n - 1) % w \in 0..(w - 1) /\ (n - 1) \div w \in 0..(ny - 1)
        /\ n = ((n - 1) \div w) * w + ((n - 1) % w) + 1
    BY <1>1, <2>1, CellIndex
  <2>3. w - 1 = nx
    BY <1>1 DEF w
  <2> QED BY <2>2, <2>3 DEF w
<1>6. ASSUME NEW n \in 1..q
      PROVE  /\ (n - 1) % nx \in 0..(nx - 1) /\ (n - 1) \div nx \in 0..ny
             /\ n = ((n - 1) \div nx) * nx + ((n - 1) % nx) + 1
  <2> DEFINE w == ny + 1
  <2>1. w \in Nat /\ n \in 1..(nx * w)
    BY <1>1, <1>4
  <2>3. w - 1 = ny
    BY <1>1
  <2> HIDE DEF w
  <2>2. /\ (n - 1) % nx \in 0..(nx - 1) /\ (n - 1) \div nx \in 0..(w - 1)
        /\ n = ((n - 1) \div nx) * nx + ((n - 1) % nx) + 1
    BY <1>1, <2>1, CellIndex
  <2> QED BY <2>2, <2>3
<1>7. /\ \A n \in 1..p : V[n] = edge("vertical", (n - 1) % (nx + 1), (n - 1) \div (nx + 1))
      /\ \A n \in 1..q : H[n] = edge("horizontal", (n - 1) % nx, (n - 1) \div nx)
  OBVIOUS
<1>8. /\ \A n \in 1..p : IsEdge(s, V[n]) /\ V[n].block = b /\ V[n].kind = "vertical"
      /\ \A n \in 1..q : IsEdge(s, H[n]) /\ H[n].block = b /\ H[n].kind = "horizontal"
  BY <1>3, <1>5, <1>6, <1>7, <1>v, <1>h
<1>9. /\ \A m, n \in 1..p : V[m] = V[n] => m = n
      /\ \A m, n \in 1..q : H[m] = H[n] => m = n
  <2>1. ASSUME NEW m \in 1..p, NEW n \in 1..p, V[m] = V[n] PROVE m = n
    <3>1. (m - 1) % (nx + 1) = (n - 1) % (nx + 1) /\ (m - 1) \div (nx + 1) = (n - 1) \div (nx + 1)
      <4> HIDE DEF V
      <4> QED BY <1>3, <1>7, <2>1
    <3> QED BY <1>5, <3>1
  <2>2. ASSUME NEW m \in 1..q, NEW n \in 1..q, H[m] = H[n] PROVE m = n
    <3>1. (m - 1) % nx = (n - 1) % nx /\ (m - 1) \div nx = (n - 1) \div nx
      <4> HIDE DEF H
      <4> QED BY <1>3, <1>7, <2>2
    <3> QED BY <1>6, <3>1
  <2> QED BY <2>1, <2>2
<1>10. ASSUME NEW i \in 0..nx, NEW j \in 0..(ny - 1)
       PROVE  \E n \in 1..p : V[n] = edge("vertical", i, j)
  <2> DEFINE w == nx + 1
             n == j * w + i + 1
  <2>1. w \in Nat /\ w > 0 /\ i \in 0..(w - 1) /\ w * ny = p /\ j \in Nat
    BY <1>1
  <2> HIDE DEF w
  <2>2. n \in 1..(w * ny)
    BY <1>1, <2>1, RowPlace
  <2>3. n - 1 = j * w + i
    BY <2>1
  <2>4. (n - 1) % w = i /\ (n - 1) \div w = j
    <3>1. (j * w + i) % w = i /\ (j * w + i) \div w = j
      BY <2>1, RowColumn
    <3> QED BY <2>3, <3>1
  <2> HIDE DEF n
  <2>5. n \in 1..p /\ V[n] = edge("vertical", i, j)
    BY <1>7, <2>1, <2>2, <2>4 DEF w
  <2> QED BY <2>5
<1>11. ASSUME NEW i \in 0..(nx - 1), NEW j \in 0..ny
       PROVE  \E n \in 1..q : H[n] = edge("horizontal", i, j)
  <2> DEFINE w == ny + 1
             n == j * nx + i + 1
  <2>1. w \in Nat /\ j \in 0..(w - 1) /\ nx * w = q /\ j \in Nat
    BY <1>1
  <2> HIDE DEF w
  <2>2. n \in 1..(nx * w)
    BY <1>1, <2>1, RowPlace
  <2>3. n - 1 = j * nx + i
    BY <1>1, <2>1
  <2>4. (n - 1) % nx = i /\ (n - 1) \div nx = j
    <3>1. (j * nx + i) % nx = i /\ (j * nx + i) \div nx = j
      BY <1>1, <2>1, RowColumn
    <3> QED BY <2>3, <3>1
  <2> HIDE DEF n
  <2>5. n \in 1..q /\ H[n] = edge("horizontal", i, j)
    BY <1>7, <2>1, <2>2, <2>4
  <2> QED BY <2>5
<1>12. V \in Seq(T) /\ H \in Seq(T) /\ Len(V) = p /\ Len(H) = q
  <2>1. \A n \in 1..p : V[n] \in T
    <3> HIDE DEF V, T
    <3> QED BY <1>8, EdgeIs DEF T
  <2>2. \A n \in 1..q : H[n] \in T
    <3> HIDE DEF H, T
    <3> QED BY <1>8, EdgeIs DEF T
  <2>3. V = [n \in 1..p |-> V[n]] /\ H = [n \in 1..q |-> H[n]]
    OBVIOUS
  <2> HIDE DEF V, H, T, p, q
  <2> QED BY <1>4, <2>1, <2>2, <2>3, IsSequence
<1> HIDE DEF V, H, T, p, q
<1>13. /\ E \in Seq(T) /\ Len(E) = p + q
       /\ \A n \in 1..p : E[n] = V[n]
       /\ \A n \in 1..q : E[p + n] = H[n]
  <2>1. /\ E \in Seq(T) /\ Len(E) = Len(V) + Len(H)
        /\ \A n \in 1..Len(V) : E[n] = V[n]
        /\ \A n \in 1..Len(H) : E[Len(V) + n] = H[n]
    <3>1. V \in Seq(T) /\ H \in Seq(T)
      BY <1>12
    <3> QED BY <1>2, <3>1
  <2> QED BY <1>12, <2>1
<1>14. \A n \in 1..Len(E) : n \in 1..p \/ \E m \in 1..q : n = p + m
  <2> TAKE n \in 1..Len(E)
  <2>1. n <= p \/ n - p \in 1..q
    BY <1>4, <1>13
  <2>2. n \in Int /\ n = p + (n - p)
    BY <1>4
  <2> QED BY <2>1, <2>2
<1>15. \A n \in 1..Len(E) : IsEdge(s, E[n]) /\ E[n].block = b
  BY <1>8, <1>13, <1>14
<1>16. ASSUME NEW e, IsEdge(s, e), e.block = b PROVE \E n \in 1..Len(E) : E[n] = e
  <2>1. CASE e.kind = "vertical"
    <3>1. PICK n \in 1..p : V[n] = e
      <4>1. e = edge("vertical", e.i, e.j) /\ e.i \in 0..nx /\ e.j \in 0..(ny - 1)
        BY <1>16, <1>e, <2>1
      <4> QED BY <1>10, <4>1
    <3>2. n \in 1..Len(E)
      BY <1>4, <1>13
    <3> QED BY <1>13, <3>1, <3>2
  <2>2. CASE e.kind # "vertical"
    <3>1. PICK n \in 1..q : H[n] = e
      <4>1. e = edge("horizontal", e.i, e.j) /\ e.i \in 0..(nx - 1) /\ e.j \in 0..ny
        BY <1>16, <1>e, <2>2
      <4> QED BY <1>11, <4>1
    <3>2. p + n \in 1..Len(E)
      BY <1>4, <1>13
    <3> QED BY <1>13, <3>1, <3>2
  <2> QED BY <2>1, <2>2
<1>17. ASSUME NEW m \in 1..Len(E), NEW n \in 1..Len(E), E[m] = E[n] PROVE m = n
  <2>1. CASE m \in 1..p /\ n \in 1..p
    BY <1>9, <1>13, <1>17, <2>1
  <2>2. ASSUME NEW k \in 1..q, NEW l \in 1..q, m = p + k, n = p + l PROVE m = n
    BY <1>9, <1>13, <1>17, <2>2
  <2>3. ASSUME NEW k \in 1..p, NEW l \in 1..q PROVE E[k] # E[p + l]
    <3>1. E[k].kind = "vertical" /\ E[p + l].kind = "horizontal"
      BY <1>8, <1>13
    <3> QED BY <3>1
  <2> QED BY <1>14, <1>17, <2>1, <2>2, <2>3
<1> QED BY <1>13, <1>15, <1>16, <1>17 DEF E, T

\* The edges that get a face, each once.
LEMMA FaceEdgesFacts ==
  ASSUME NEW s, Shaped(s)
  PROVE  /\ FaceEdges(s) \in Seq(EdgeRecords)
         /\ \A f \in 1..Len(FaceEdges(s)) :
               IsEdge(s, FaceEdges(s)[f]) /\ ~IsSecond(s, SideOf(s, FaceEdges(s)[f]))
         /\ \A e : IsEdge(s, e) /\ ~IsSecond(s, SideOf(s, e)) =>
               \E f \in 1..Len(FaceEdges(s)) : FaceEdges(s)[f] = e
         /\ \A f, g \in 1..Len(FaceEdges(s)) : FaceEdges(s)[f] = FaceEdges(s)[g] => f = g
<1> DEFINE N == Len(s.blocks)
           T == EdgeRecords
           list(b) == BlockEdges(s, b)
           seqs == [b \in DOMAIN s.blocks |-> list(b)]
           all == FlattenSeq(seqs)
           Second(e) == IsSecond(s, SideOf(s, e))
           parts == [n \in DOMAIN all |-> IF Second(all[n]) THEN << >> ELSE << all[n] >>]
           F == FlattenSeq(parts)
<1>1. FaceEdges(s) = F
  BY DEF FaceEdges
<1>2. DOMAIN s.blocks = 1..N /\ N \in Nat
  BY ShapedFacts
<1>3. /\ \A b \in 1..N : list(b) \in Seq(T)
      /\ \A b \in 1..N : \A n \in 1..Len(list(b)) : IsEdge(s, list(b)[n]) /\ list(b)[n].block = b
      /\ \A b \in 1..N : \A e : IsEdge(s, e) /\ e.block = b => \E n \in 1..Len(list(b)) : list(b)[n] = e
      /\ \A b \in 1..N : \A m, n \in 1..Len(list(b)) : list(b)[m] = list(b)[n] => m = n
  BY <1>2, BlockEdgesFacts
<1>i. \A e : IsEdge(s, e) => e.block \in 1..N
  BY <1>2 DEF IsEdge
<1> HIDE DEF list, T, N, Second
<1>4. seqs \in Seq(Seq(T)) /\ Len(seqs) = N /\ \A b \in 1..N : seqs[b] = list(b)
  BY <1>2, <1>3
<1> HIDE DEF seqs
<1>5. all \in Seq(T)
  BY <1>4, FlattenFacts
<1>6. \A n \in 1..Len(all) : IsEdge(s, all[n])
  <2> TAKE n \in 1..Len(all)
  <2>1. PICK b \in 1..Len(seqs) : \E j \in 1..Len(seqs[b]) : all[n] = seqs[b][j]
    BY <1>4, FlattenOnto
  <2> QED BY <1>3, <1>4, <2>1
<1>7. ASSUME NEW e, IsEdge(s, e) PROVE \E n \in 1..Len(all) : all[n] = e
  <2>1. e.block \in 1..N
    BY <1>7, <1>i
  <2>2. PICK j \in 1..Len(seqs[e.block]) : seqs[e.block][j] = e
    <3>1. \E n \in 1..Len(list(e.block)) : list(e.block)[n] = e
      BY <1>3, <1>7, <2>1
    <3> QED BY <1>4, <2>1, <3>1
  <2>3. \A i \in 1..Len(seqs) : \A k \in 1..Len(seqs[i]) : \E n \in 1..Len(all) : all[n] = seqs[i][k]
    BY <1>4, FlattenFacts
  <2> QED BY <1>4, <2>1, <2>2, <2>3
<1>8. \A m, n \in 1..Len(all) : all[m] = all[n] => m = n
  <2>1. ASSUME NEW b \in 1..Len(seqs), NEW c \in 1..Len(seqs),
               NEW j \in 1..Len(seqs[b]), NEW k \in 1..Len(seqs[c]), seqs[b][j] = seqs[c][k]
        PROVE  b = c /\ j = k
    <3>1. list(b)[j].block = b /\ list(c)[k].block = c /\ list(b)[j] = list(c)[k]
      BY <1>3, <1>4, <2>1
    <3>2. b = c
      BY <3>1
    <3> QED BY <1>3, <1>4, <3>1, <3>2
  <2> HIDE DEF all
  <2> QED BY <1>4, <2>1, FlattenInjective DEF all
<1> HIDE DEF all
<1>9. DOMAIN all = 1..Len(all) /\ Len(all) \in Nat
  BY <1>5
<1>10. parts \in Seq(Seq(T)) /\ Len(parts) = Len(all)
  <2>1. ASSUME NEW n \in 1..Len(all)
        PROVE  (IF Second(all[n]) THEN << >> ELSE << all[n] >>) \in Seq(T)
    <3>1. all[n] \in T
      BY <1>5
    <3>2. << >> \in Seq(T) /\ << all[n] >> \in Seq(T)
      BY <3>1
    <3> QED BY <3>2
  <2> QED BY <1>9, <2>1
<1>11. /\ \A n \in 1..Len(parts) : \A j \in 1..Len(parts[n]) :
             ~Second(all[n]) /\ j = 1 /\ parts[n][j] = all[n]
       /\ \A n \in 1..Len(parts) : ~Second(all[n]) => 1 \in 1..Len(parts[n]) /\ parts[n][1] = all[n]
  BY <1>9, <1>10
<1> HIDE DEF parts
<1>12. F \in Seq(T)
  BY <1>10, FlattenFacts
<1>13. \A f \in 1..Len(F) : IsEdge(s, F[f]) /\ ~Second(F[f])
  <2> TAKE f \in 1..Len(F)
  <2>1. PICK n \in 1..Len(parts) : \E j \in 1..Len(parts[n]) : F[f] = parts[n][j]
    BY <1>10, FlattenOnto
  <2>2. F[f] = all[n] /\ ~Second(all[n])
    BY <1>11, <2>1
  <2> QED BY <1>6, <1>10, <2>2
<1>14. ASSUME NEW e, IsEdge(s, e), ~Second(e) PROVE \E f \in 1..Len(F) : F[f] = e
  <2>1. PICK n \in 1..Len(all) : all[n] = e
    BY <1>7, <1>14
  <2>2. n \in 1..Len(parts) /\ 1 \in 1..Len(parts[n]) /\ parts[n][1] = e
    BY <1>10, <1>11, <1>14, <2>1
  <2>3. \A i \in 1..Len(parts) : \A k \in 1..Len(parts[i]) : \E f \in 1..Len(F) : F[f] = parts[i][k]
    BY <1>10, FlattenFacts
  <2> QED BY <2>2, <2>3
<1>15. \A f, g \in 1..Len(F) : F[f] = F[g] => f = g
  <2>1. ASSUME NEW b \in 1..Len(parts), NEW c \in 1..Len(parts),
               NEW j \in 1..Len(parts[b]), NEW k \in 1..Len(parts[c]), parts[b][j] = parts[c][k]
        PROVE  b = c /\ j = k
    BY <1>8, <1>10, <1>11, <2>1
  <2> HIDE DEF F
  <2> QED BY <1>10, <2>1, FlattenInjective DEF F
<1> HIDE DEF F
<1> QED BY <1>1, <1>12, <1>13, <1>14, <1>15 DEF T, Second

--------------------------------------------------------------------------------
(* The edges of a cell, and the edges of a side.                             *)

\* The edge of block b at the vertex <<i, j>>.
Edge(b, kind, i, j) == [block |-> b, kind |-> kind, i |-> i, j |-> j]

\* The edge of a cell from its k-th corner to the next.
CellEdge(b, i, j, k) ==
  IF k = 1 THEN Edge(b, "horizontal", i, j)
  ELSE IF k = 2 THEN Edge(b, "vertical", i + 1, j)
  ELSE IF k = 3 THEN Edge(b, "horizontal", i, j + 1)
  ELSE Edge(b, "vertical", i, j)

\* The edge of face n (from 0) of a block side.
SideEdge(s, b, side, n) ==
  IF side = "bottom" THEN Edge(b, "horizontal", n, 0)
  ELSE IF side = "top" THEN Edge(b, "horizontal", n, s.blocks[b].ny)
  ELSE IF side = "left" THEN Edge(b, "vertical", 0, n)
  ELSE Edge(b, "vertical", s.blocks[b].nx, n)

\* Which edge of its cells the edges of a side are, and which of its owner's an edge is.
SideNumber(side) ==
  IF side = "bottom" THEN 1 ELSE IF side = "right" THEN 2 ELSE IF side = "top" THEN 3 ELSE 4

\* The number among a cell's edges of a boundary edge of its block.
OwnNumber(e) ==
  IF e.kind = "vertical" THEN (IF e.i = 0 THEN 4 ELSE 2) ELSE (IF e.j = 0 THEN 1 ELSE 3)

\* The names of the sides of a block.
Sides == {"left", "right", "bottom", "top"}

\* What an edge is made of.
LEMMA EdgeParts ==
  ASSUME NEW b, NEW kind, NEW i, NEW j
  PROVE  /\ Edge(b, kind, i, j).block = b /\ Edge(b, kind, i, j).kind = kind
         /\ Edge(b, kind, i, j).i = i /\ Edge(b, kind, i, j).j = j
         /\ Edge(b, kind, i, j) = [block |-> b, kind |-> kind, i |-> i, j |-> j]
BY DEF Edge

\* The edges there are, one by one.
LEMMA IsEdgeIs ==
  ASSUME NEW s, NEW b, NEW kind, NEW i, NEW j
  PROVE  IsEdge(s, Edge(b, kind, i, j)) <=>
           /\ b \in DOMAIN s.blocks
           /\ \/ kind = "vertical" /\ i \in 0..s.blocks[b].nx /\ j \in 0..(s.blocks[b].ny - 1)
              \/ kind = "horizontal" /\ i \in 0..(s.blocks[b].nx - 1) /\ j \in 0..s.blocks[b].ny
BY EdgeParts DEF IsEdge

\* The side an edge is on.
LEMMA SideOfIs ==
  ASSUME NEW s, Shaped(s), NEW e, IsEdge(s, e)
  PROVE  /\ e = Edge(e.block, e.kind, e.i, e.j)
         /\ e.block \in DOMAIN s.blocks
         /\ s.blocks[e.block].nx \in Nat /\ s.blocks[e.block].nx > 0
         /\ s.blocks[e.block].ny \in Nat /\ s.blocks[e.block].ny > 0
         /\ SideOf(s, e) =
              IF e.kind = "vertical"
              THEN IF e.i = 0 THEN <<e.block, "left">>
                   ELSE IF e.i = s.blocks[e.block].nx THEN <<e.block, "right">> ELSE NoSide
              ELSE IF e.j = 0 THEN <<e.block, "bottom">>
                   ELSE IF e.j = s.blocks[e.block].ny THEN <<e.block, "top">> ELSE NoSide
         /\ e.kind \in {"vertical", "horizontal"}
         /\ e.kind = "vertical" => e.i \in 0..s.blocks[e.block].nx /\ e.j \in 0..(s.blocks[e.block].ny - 1)
         /\ e.kind = "horizontal" => e.i \in 0..(s.blocks[e.block].nx - 1) /\ e.j \in 0..s.blocks[e.block].ny
<1>1. /\ e = Edge(e.block, e.kind, e.i, e.j)
      /\ e.block \in DOMAIN s.blocks
      /\ \/ e.kind = "vertical" /\ e.i \in 0..s.blocks[e.block].nx /\ e.j \in 0..(s.blocks[e.block].ny - 1)
         \/ e.kind = "horizontal" /\ e.i \in 0..(s.blocks[e.block].nx - 1) /\ e.j \in 0..s.blocks[e.block].ny
  BY DEF IsEdge, Edge
<1>2. /\ s.blocks[e.block].nx \in Nat /\ s.blocks[e.block].nx > 0
      /\ s.blocks[e.block].ny \in Nat /\ s.blocks[e.block].ny > 0
  BY <1>1, ShapedFacts
<1>3. CASE e.kind = "vertical"
  <2>1. SideOf(s, e) = IF e.i = 0 THEN <<e.block, "left">>
                       ELSE IF e.i = s.blocks[e.block].nx THEN <<e.block, "right">> ELSE NoSide
    <3>1. CASE e.i = 0
      <4>1. e.i # s.blocks[e.block].nx
        BY <1>2, <3>1
      <4> QED BY <1>3, <3>1, <4>1 DEF SideOf
    <3>2. CASE e.i # 0
      BY <1>3, <3>2 DEF SideOf
    <3> QED BY <3>1, <3>2
  <2> QED BY <1>1, <1>2, <1>3, <2>1
<1>4. CASE e.kind = "horizontal"
  <2>1. SideOf(s, e) = IF e.j = 0 THEN <<e.block, "bottom">>
                       ELSE IF e.j = s.blocks[e.block].ny THEN <<e.block, "top">> ELSE NoSide
    <3>1. CASE e.j = 0
      <4>1. e.j # s.blocks[e.block].ny
        BY <1>2, <3>1
      <4> QED BY <1>4, <3>1, <4>1 DEF SideOf
    <3>2. CASE e.j # 0
      BY <1>4, <3>2 DEF SideOf
    <3> QED BY <3>1, <3>2
  <2> QED BY <1>1, <1>2, <1>4, <2>1
<1> QED BY <1>1, <1>3, <1>4

\* The edge of a face of a side is on that side, at that place.
IsPlaced(s, b, side, n) ==
  /\ IsEdge(s, SideEdge(s, b, side, n))
  /\ SideOf(s, SideEdge(s, b, side, n)) = <<b, side>>
  /\ AlongSide(SideEdge(s, b, side, n)) = n

\* The edges of a side, the cells behind them and their vertices.
LEMMA SideEdgeFacts ==
  ASSUME NEW s, Shaped(s), NEW b \in DOMAIN s.blocks, NEW side \in Sides
  PROVE  \A n \in 0..(SideFaceCount(s.blocks[b], side) - 1) :
         /\ IsPlaced(s, b, side, n)
         /\ LET cell == SideCell(s.blocks[b], side, n)
                q == Corners(s.blocks[b], cell[1], cell[2])
                k == SideNumber(side)
            IN  /\ IsCell(s, b, cell[1], cell[2])
                /\ CellEdge(b, cell[1], cell[2], k) = SideEdge(s, b, side, n)
                /\ <<q[k], q[NextCorner(k)]>> =
                     IF RunsForward(side)
                     THEN <<SideVertex(s.blocks[b], side, n), SideVertex(s.blocks[b], side, n + 1)>>
                     ELSE <<SideVertex(s.blocks[b], side, n + 1), SideVertex(s.blocks[b], side, n)>>
<1> TAKE n \in 0..(SideFaceCount(s.blocks[b], side) - 1)
<1> DEFINE nx == s.blocks[b].nx
           ny == s.blocks[b].ny
           e == SideEdge(s, b, side, n)
<1>1. nx \in Nat /\ nx > 0 /\ ny \in Nat /\ ny > 0
  BY ShapedFacts
<1>2. n \in 0..((IF side \in {"bottom", "top"} THEN nx ELSE ny) - 1)
  BY DEF SideFaceCount
<1>n. NextCorner(1) = 2 /\ NextCorner(2) = 3 /\ NextCorner(3) = 4 /\ NextCorner(4) = 1
  BY DEF NextCorner
<1>3. CASE side = "bottom"
  <2>1. e = Edge(b, "horizontal", n, 0) /\ SideCell(s.blocks[b], side, n) = <<n, 0>> /\ SideNumber(side) = 1
    BY <1>3 DEF SideEdge, SideCell, SideNumber
  <2>2. n \in 0..(nx - 1) /\ 0 \in 0..ny /\ 0 \in 0..(ny - 1)
    BY <1>1, <1>2, <1>3
  <2>3. IsEdge(s, e) /\ IsCell(s, b, n, 0)
    BY <2>1, <2>2, IsEdgeIs DEF IsCell
  <2>4. SideOf(s, e) = <<b, side>> /\ AlongSide(e) = n
    BY <1>3, <2>1, <2>3, SideOfIs, EdgeParts DEF AlongSide
  <2>5. CellEdge(b, n, 0, 1) = e
    BY <2>1 DEF CellEdge
  <2>6. /\ Corners(s.blocks[b], n, 0)[1] = SideVertex(s.blocks[b], side, n)
        /\ Corners(s.blocks[b], n, 0)[2] = SideVertex(s.blocks[b], side, n + 1)
        /\ RunsForward(side)
    BY <1>3 DEF Corners, SideVertex, RunsForward
  <2>7. IsPlaced(s, b, side, n)
    BY <2>3, <2>4 DEF IsPlaced
  <2> HIDE DEF e
  <2> QED BY <1>n, <2>1, <2>3, <2>5, <2>6, <2>7 DEF e
<1>4. CASE side = "right"
  <2>1. e = Edge(b, "vertical", nx, n) /\ SideCell(s.blocks[b], side, n) = <<nx - 1, n>> /\ SideNumber(side) = 2
    BY <1>4 DEF SideEdge, SideCell, SideNumber
  <2>2. n \in 0..(ny - 1) /\ nx \in 0..nx /\ nx - 1 \in 0..(nx - 1) /\ nx # 0 /\ (nx - 1) + 1 = nx
    BY <1>1, <1>2, <1>4
  <2>3. IsEdge(s, e) /\ IsCell(s, b, nx - 1, n)
    BY <2>1, <2>2, IsEdgeIs DEF IsCell
  <2>4. SideOf(s, e) = <<b, side>> /\ AlongSide(e) = n
    BY <1>4, <2>1, <2>2, <2>3, SideOfIs, EdgeParts DEF AlongSide
  <2>5. CellEdge(b, nx - 1, n, 2) = e
    BY <2>1, <2>2 DEF CellEdge
  <2>6. /\ Corners(s.blocks[b], nx - 1, n)[2] = SideVertex(s.blocks[b], side, n)
        /\ Corners(s.blocks[b], nx - 1, n)[3] = SideVertex(s.blocks[b], side, n + 1)
        /\ RunsForward(side)
    BY <1>4, <2>2 DEF Corners, SideVertex, RunsForward
  <2>7. IsPlaced(s, b, side, n)
    BY <2>3, <2>4 DEF IsPlaced
  <2> HIDE DEF e
  <2> QED BY <1>n, <2>1, <2>3, <2>5, <2>6, <2>7 DEF e
<1>5. CASE side = "top"
  <2>1. e = Edge(b, "horizontal", n, ny) /\ SideCell(s.blocks[b], side, n) = <<n, ny - 1>> /\ SideNumber(side) = 3
    BY <1>5 DEF SideEdge, SideCell, SideNumber
  <2>2. n \in 0..(nx - 1) /\ ny \in 0..ny /\ ny - 1 \in 0..(ny - 1) /\ ny # 0 /\ (ny - 1) + 1 = ny
    BY <1>1, <1>2, <1>5
  <2>3. IsEdge(s, e) /\ IsCell(s, b, n, ny - 1)
    BY <2>1, <2>2, IsEdgeIs DEF IsCell
  <2>4. SideOf(s, e) = <<b, side>> /\ AlongSide(e) = n
    BY <1>5, <2>1, <2>2, <2>3, SideOfIs, EdgeParts DEF AlongSide
  <2>5. CellEdge(b, n, ny - 1, 3) = e
    BY <2>1, <2>2 DEF CellEdge
  <2>6. /\ Corners(s.blocks[b], n, ny - 1)[3] = SideVertex(s.blocks[b], side, n + 1)
        /\ Corners(s.blocks[b], n, ny - 1)[4] = SideVertex(s.blocks[b], side, n)
        /\ ~RunsForward(side)
    BY <1>5, <2>2 DEF Corners, SideVertex, RunsForward
  <2>7. IsPlaced(s, b, side, n)
    BY <2>3, <2>4 DEF IsPlaced
  <2> HIDE DEF e
  <2> QED BY <1>n, <2>1, <2>3, <2>5, <2>6, <2>7 DEF e
<1>6. CASE side = "left"
  <2>1. e = Edge(b, "vertical", 0, n) /\ SideCell(s.blocks[b], side, n) = <<0, n>> /\ SideNumber(side) = 4
    BY <1>6 DEF SideEdge, SideCell, SideNumber
  <2>2. n \in 0..(ny - 1) /\ 0 \in 0..nx /\ 0 \in 0..(nx - 1)
    BY <1>1, <1>2, <1>6
  <2>3. IsEdge(s, e) /\ IsCell(s, b, 0, n)
    BY <2>1, <2>2, IsEdgeIs DEF IsCell
  <2>4. SideOf(s, e) = <<b, side>> /\ AlongSide(e) = n
    BY <1>6, <2>1, <2>2, <2>3, SideOfIs, EdgeParts DEF AlongSide
  <2>5. CellEdge(b, 0, n, 4) = e
    BY <2>1 DEF CellEdge
  <2>6. /\ Corners(s.blocks[b], 0, n)[4] = SideVertex(s.blocks[b], side, n + 1)
        /\ Corners(s.blocks[b], 0, n)[1] = SideVertex(s.blocks[b], side, n)
        /\ ~RunsForward(side)
    BY <1>6 DEF Corners, SideVertex, RunsForward
  <2>7. IsPlaced(s, b, side, n)
    BY <2>3, <2>4 DEF IsPlaced
  <2> HIDE DEF e
  <2> QED BY <1>n, <2>1, <2>3, <2>5, <2>6, <2>7 DEF e
<1> QED BY <1>3, <1>4, <1>5, <1>6 DEF Sides

\* An edge on a side is one of its edges.
LEMMA EdgeOnSide ==
  ASSUME NEW s, Shaped(s), NEW e, IsEdge(s, e), SideOf(s, e) # NoSide
  PROVE  /\ SideOf(s, e) = <<SideOf(s, e)[1], SideOf(s, e)[2]>>
         /\ SideOf(s, e)[1] = e.block /\ e.block \in DOMAIN s.blocks
         /\ SideOf(s, e)[2] \in Sides
         /\ AlongSide(e) \in 0..(SideFaceCount(s.blocks[e.block], SideOf(s, e)[2]) - 1)
         /\ e = SideEdge(s, e.block, SideOf(s, e)[2], AlongSide(e))
<1> DEFINE nx == s.blocks[e.block].nx
           ny == s.blocks[e.block].ny
<1>1. /\ e = Edge(e.block, e.kind, e.i, e.j) /\ e.block \in DOMAIN s.blocks
      /\ nx \in Nat /\ nx > 0 /\ ny \in Nat /\ ny > 0
      /\ SideOf(s, e) =
              IF e.kind = "vertical"
              THEN IF e.i = 0 THEN <<e.block, "left">>
                   ELSE IF e.i = nx THEN <<e.block, "right">> ELSE NoSide
              ELSE IF e.j = 0 THEN <<e.block, "bottom">>
                   ELSE IF e.j = ny THEN <<e.block, "top">> ELSE NoSide
      /\ e.kind \in {"vertical", "horizontal"}
      /\ e.kind = "vertical" => e.i \in 0..nx /\ e.j \in 0..(ny - 1)
      /\ e.kind = "horizontal" => e.i \in 0..(nx - 1) /\ e.j \in 0..ny
  BY SideOfIs
<1>2. CASE e.kind = "vertical"
  <2>1. AlongSide(e) = e.j
    BY <1>2 DEF AlongSide
  <2>2. CASE e.i = 0
    BY <1>1, <1>2, <2>1, <2>2 DEF Sides, SideFaceCount, SideEdge
  <2>3. CASE e.i # 0
    <3>1. e.i = nx /\ SideOf(s, e) = <<e.block, "right">>
      BY <1>1, <1>2, <2>3
    <3> QED BY <1>1, <1>2, <2>1, <3>1 DEF Sides, SideFaceCount, SideEdge
  <2> QED BY <2>2, <2>3
<1>3. CASE e.kind = "horizontal"
  <2>1. AlongSide(e) = e.i
    BY <1>3 DEF AlongSide
  <2>2. CASE e.j = 0
    BY <1>1, <1>3, <2>1, <2>2 DEF Sides, SideFaceCount, SideEdge
  <2>3. CASE e.j # 0
    <3>1. e.j = ny /\ SideOf(s, e) = <<e.block, "top">>
      BY <1>1, <1>3, <2>3
    <3> QED BY <1>1, <1>3, <2>1, <3>1 DEF Sides, SideFaceCount, SideEdge
  <2> QED BY <2>2, <2>3
<1> QED BY <1>1, <1>2, <1>3

\* The edges of a cell are edges.
LEMMA CellEdgeFacts ==
  ASSUME NEW s, Shaped(s), NEW b, NEW i, NEW j, IsCell(s, b, i, j), NEW k \in 1..4
  PROVE  IsEdge(s, CellEdge(b, i, j, k)) /\ CellEdge(b, i, j, k).block = b
<1>1. /\ b \in DOMAIN s.blocks /\ i \in 0..(s.blocks[b].nx - 1) /\ j \in 0..(s.blocks[b].ny - 1)
      /\ s.blocks[b].nx \in Nat /\ s.blocks[b].ny \in Nat
  BY ShapedFacts DEF IsCell
<1>2. i \in 0..s.blocks[b].nx /\ i + 1 \in 0..s.blocks[b].nx /\ j \in 0..s.blocks[b].ny /\ j + 1 \in 0..s.blocks[b].ny
  BY <1>1
<1>3. k = 1 \/ k = 2 \/ k = 3 \/ k = 4
  OBVIOUS
<1> QED BY <1>1, <1>2, <1>3, IsEdgeIs, EdgeParts DEF CellEdge

\* The owner of an edge is a cell it is an edge of.
LEMMA OwnerFacts ==
  ASSUME NEW s, Shaped(s), NEW e, IsEdge(s, e)
  PROVE  \E i, j : /\ IsCell(s, e.block, i, j)
                   /\ OwnerOf(s, e) = GlobalCell(s, e.block, i, j)
                   /\ CellEdge(e.block, i, j, OwnNumber(e)) = e
<1> DEFINE nx == s.blocks[e.block].nx
           ny == s.blocks[e.block].ny
           b == e.block
           side == SideOf(s, e)
<1>1. /\ e = Edge(b, e.kind, e.i, e.j) /\ b \in DOMAIN s.blocks
      /\ nx \in Nat /\ nx > 0 /\ ny \in Nat /\ ny > 0
      /\ side =
              IF e.kind = "vertical"
              THEN IF e.i = 0 THEN <<b, "left">>
                   ELSE IF e.i = nx THEN <<b, "right">> ELSE NoSide
              ELSE IF e.j = 0 THEN <<b, "bottom">>
                   ELSE IF e.j = ny THEN <<b, "top">> ELSE NoSide
      /\ e.kind \in {"vertical", "horizontal"}
      /\ e.kind = "vertical" => e.i \in 0..nx /\ e.j \in 0..(ny - 1)
      /\ e.kind = "horizontal" => e.i \in 0..(nx - 1) /\ e.j \in 0..ny
  BY SideOfIs
<1> DEFINE cell == IF side # NoSide THEN SideCell(s.blocks[b], side[2], AlongSide(e))
                   ELSE IF e.kind = "vertical" THEN <<e.i - 1, e.j>> ELSE <<e.i, e.j - 1>>
<1>2. OwnerOf(s, e) = GlobalCell(s, b, cell[1], cell[2])
  BY DEF OwnerOf
<1>3. \A x \in Sides : <<b, x>> # NoSide
  BY DEF NoSide
<1>4. CASE e.kind = "vertical"
  <2>1. AlongSide(e) = e.j
    BY <1>4 DEF AlongSide
  <2>2. CASE e.i = 0
    <3>1. cell = <<0, e.j>>
      BY <1>1, <1>3, <1>4, <2>1, <2>2 DEF SideCell, Sides
    <3>2. IsCell(s, b, 0, e.j)
      BY <1>1, <1>4, <2>2 DEF IsCell
    <3>3. CellEdge(b, 0, e.j, OwnNumber(e)) = e
      BY <1>1, <1>4, <2>2 DEF OwnNumber, CellEdge
    <3> QED BY <1>2, <3>1, <3>2, <3>3
  <2>3. CASE e.i # 0
    <3>1. cell = <<e.i - 1, e.j>>
      <4>1. CASE e.i = nx
        BY <1>1, <1>3, <1>4, <2>1, <2>3, <4>1 DEF SideCell, Sides
      <4>2. CASE e.i # nx
        BY <1>1, <1>4, <2>3, <4>2
      <4> QED BY <4>1, <4>2
    <3>2. IsCell(s, b, e.i - 1, e.j) /\ (e.i - 1) + 1 = e.i
      BY <1>1, <1>4, <2>3 DEF IsCell
    <3>3. CellEdge(b, e.i - 1, e.j, OwnNumber(e)) = e
      BY <1>1, <1>4, <2>3, <3>2 DEF OwnNumber, CellEdge
    <3> HIDE DEF cell
    <3> QED BY <1>2, <3>1, <3>2, <3>3
  <2> QED BY <2>2, <2>3
<1>5. CASE e.kind = "horizontal"
  <2>1. AlongSide(e) = e.i
    BY <1>5 DEF AlongSide
  <2>2. CASE e.j = 0
    <3>1. cell = <<e.i, 0>>
      BY <1>1, <1>3, <1>5, <2>1, <2>2 DEF SideCell, Sides
    <3>2. IsCell(s, b, e.i, 0)
      BY <1>1, <1>5, <2>2 DEF IsCell
    <3>3. CellEdge(b, e.i, 0, OwnNumber(e)) = e
      BY <1>1, <1>5, <2>2 DEF OwnNumber, CellEdge
    <3> QED BY <1>2, <3>1, <3>2, <3>3
  <2>3. CASE e.j # 0
    <3>1. cell = <<e.i, e.j - 1>>
      <4>1. CASE e.j = ny
        BY <1>1, <1>3, <1>5, <2>1, <2>3, <4>1 DEF SideCell, Sides
      <4>2. CASE e.j # ny
        BY <1>1, <1>5, <2>3, <4>2
      <4> QED BY <4>1, <4>2
    <3>2. IsCell(s, b, e.i, e.j - 1) /\ (e.j - 1) + 1 = e.j
      BY <1>1, <1>5, <2>3 DEF IsCell
    <3>3. CellEdge(b, e.i, e.j - 1, OwnNumber(e)) = e
      BY <1>1, <1>5, <2>3, <3>2 DEF OwnNumber, CellEdge
    <3> HIDE DEF cell
    <3> QED BY <1>2, <3>1, <3>2, <3>3
  <2> QED BY <2>2, <2>3
<1> QED BY <1>1, <1>4, <1>5

\* Behind each edge of a cell that is its own there is the cell, or it is an inner
\* edge and the cell is in front of it.
LEMMA CellBesideEdge ==
  ASSUME NEW s, Shaped(s), NEW b, NEW i, NEW j, IsCell(s, b, i, j), NEW k \in 1..4
  PROVE  LET e == CellEdge(b, i, j, k)
         IN  \/ OwnerOf(s, e) = GlobalCell(s, b, i, j) /\ OwnNumber(e) = k
             \/ SideOf(s, e) = NoSide /\ NeighborOf(s, e) = GlobalCell(s, b, i, j)
<1> DEFINE e == CellEdge(b, i, j, k)
           nx == s.blocks[b].nx
           ny == s.blocks[b].ny
<1>1. /\ b \in DOMAIN s.blocks /\ i \in 0..(nx - 1) /\ j \in 0..(ny - 1) /\ nx \in Nat /\ ny \in Nat
  BY ShapedFacts DEF IsCell
<1>2. IsEdge(s, e) /\ e.block = b
  BY CellEdgeFacts
<1>3. /\ k = 1 => e.kind = "horizontal" /\ e.i = i /\ e.j = j
      /\ k = 2 => e.kind = "vertical" /\ e.i = i + 1 /\ e.j = j
      /\ k = 3 => e.kind = "horizontal" /\ e.i = i /\ e.j = j + 1
      /\ k = 4 => e.kind = "vertical" /\ e.i = i /\ e.j = j
  BY EdgeParts DEF CellEdge
<1>4. k = 1 \/ k = 2 \/ k = 3 \/ k = 4
  OBVIOUS
<1> HIDE DEF e
<1>5. CASE OwnNumber(e) = k
  <2>1. PICK a, c : /\ IsCell(s, b, a, c) /\ OwnerOf(s, e) = GlobalCell(s, b, a, c)
                    /\ CellEdge(b, a, c, k) = e
    BY <1>2, <1>5, OwnerFacts
  <2>2. /\ k = 1 => e.i = a /\ e.j = c
        /\ k = 2 => e.i = a + 1 /\ e.j = c
        /\ k = 3 => e.i = a /\ e.j = c + 1
        /\ k = 4 => e.i = a /\ e.j = c
    BY <2>1, EdgeParts DEF CellEdge
  <2>3. a = i /\ c = j
    <3>1. a \in Int /\ c \in Int /\ i \in Int /\ j \in Int
      BY <1>1, <2>1 DEF IsCell
    <3> QED BY <1>3, <1>4, <2>2, <3>1
  <2> QED BY <1>5, <2>1, <2>3 DEF e
<1>6. CASE OwnNumber(e) # k
  <2>1. (k = 1 /\ j # 0) \/ (k = 4 /\ i # 0)
    BY <1>1, <1>3, <1>4, <1>6 DEF OwnNumber
  <2>2. SideOf(s, e) = NoSide
    <3>1. i # nx /\ j # ny
      BY <1>1
    <3> QED BY <1>2, <1>3, <2>1, <3>1, SideOfIs
  <2>3. NeighborOf(s, e) = GlobalCell(s, e.block, e.i, e.j)
    BY <2>2 DEF NeighborOf
  <2> QED BY <1>2, <1>3, <2>1, <2>2, <2>3 DEF e
<1> QED BY <1>5, <1>6

--------------------------------------------------------------------------------
(* How the sides of the blocks are used.                                     *)

\* What the builder has checked of the blocks, sides and interfaces.
Joined(s) ==
  /\ Shaped(s)
  /\ \A b \in DOMAIN s.blocks :
        Len(s.blocks[b].vertices) = (s.blocks[b].nx + 1) * (s.blocks[b].ny + 1)
  /\ s.interfaces \in Seq(Interfaces)
  /\ s.patches \in Seq(Seq(SideRefs))
  /\ SidesAreUsedOnce(s)
  /\ InterfacesAreConformal(s)

\* The names of the sides.
LEMMA SideNames ==
  /\ ToSet(BlockSides) = Sides
  /\ \A side \in Sides : \E k \in DOMAIN BlockSides : BlockSides[k] = side
  /\ \A ref \in SideRefs : ref = <<ref[1], ref[2]>> /\ ref[1] \in Nat /\ ref[2] \in Sides
<1>1. /\ DOMAIN BlockSides = 1..4 /\ BlockSides[1] = "left" /\ BlockSides[2] = "right"
      /\ BlockSides[3] = "bottom" /\ BlockSides[4] = "top"
  BY DEF BlockSides
<1>2. \A k \in 1..4 : k = 1 \/ k = 2 \/ k = 3 \/ k = 4
  OBVIOUS
<1>3. 1 \in 1..4 /\ 2 \in 1..4 /\ 3 \in 1..4 /\ 4 \in 1..4
  OBVIOUS
<1>4. ToSet(BlockSides) = Sides
  BY <1>1, <1>2, <1>3 DEF ToSet, Sides
<1>5. \A side \in Sides : \E k \in DOMAIN BlockSides : BlockSides[k] = side
  BY <1>1, <1>3 DEF Sides
<1>6. SideRefs = Nat \X Sides
  BY <1>4 DEF SideRefs
<1> QED BY <1>4, <1>5, <1>6

\* The sides that interfaces and patches name.
LEMMA RefFacts ==
  ASSUME NEW s, Joined(s)
  PROVE  /\ \A n \in DOMAIN s.interfaces :
               /\ s.interfaces[n].first = <<s.interfaces[n].first[1], s.interfaces[n].first[2]>>
               /\ s.interfaces[n].first[1] \in DOMAIN s.blocks
               /\ s.interfaces[n].first[2] \in Sides
               /\ s.interfaces[n].second = <<s.interfaces[n].second[1], s.interfaces[n].second[2]>>
               /\ s.interfaces[n].second[1] \in DOMAIN s.blocks
               /\ s.interfaces[n].second[2] \in Sides
               /\ s.interfaces[n].reversed \in BOOLEAN
         /\ \A p \in DOMAIN s.patches : s.patches[p] \in Seq(SideRefs)
         /\ \A p \in DOMAIN s.patches : \A n \in DOMAIN s.patches[p] :
               /\ s.patches[p][n] = <<s.patches[p][n][1], s.patches[p][n][2]>>
               /\ s.patches[p][n][1] \in DOMAIN s.blocks
               /\ s.patches[p][n][2] \in Sides
<1> DEFINE interfaces == s.interfaces
           patches == s.patches
<1>1. interfaces \in Seq(Interfaces) /\ patches \in Seq(Seq(SideRefs))
  BY DEF Joined
<1>2. /\ \A n \in DOMAIN interfaces : {interfaces[n].first[1], interfaces[n].second[1]} \subseteq DOMAIN s.blocks
      /\ \A p \in DOMAIN patches : \A n \in DOMAIN patches[p] : patches[p][n][1] \in DOMAIN s.blocks
  BY DEF Joined, SidesAreUsedOnce
<1> HIDE DEF interfaces, patches
<1>3. \A n \in DOMAIN interfaces : interfaces[n] \in Interfaces
  BY <1>1
<1>4. \A p \in DOMAIN patches : patches[p] \in Seq(SideRefs)
  BY <1>1
<1>5. \A p \in DOMAIN patches : \A n \in DOMAIN patches[p] : patches[p][n] \in SideRefs
  <2> TAKE p \in DOMAIN patches
  <2> DEFINE patch == patches[p]
  <2>1. patch \in Seq(SideRefs)
    BY <1>4
  <2> HIDE DEF patch
  <2>2. \A n \in DOMAIN patch : patch[n] \in SideRefs
    BY <2>1
  <2> QED BY <2>2 DEF patch
<1>6. \A n \in DOMAIN interfaces : /\ interfaces[n].first \in SideRefs /\ interfaces[n].second \in SideRefs
                                   /\ interfaces[n].reversed \in BOOLEAN
  BY <1>3 DEF Interfaces
<1> QED BY <1>2, <1>4, <1>5, <1>6, SideNames DEF interfaces, patches

\* An interface or a patch names this side.
IsNamed(s, ref) ==
  \/ IsFirst(s, ref)
  \/ IsSecond(s, ref)
  \/ \E p \in DOMAIN s.patches : \E n \in DOMAIN s.patches[p] : s.patches[p][n] = ref

\* Every side is named in one place.
LEMMA UsedOnce ==
  ASSUME NEW s, Joined(s)
  PROVE  /\ \A m, n \in DOMAIN s.interfaces : s.interfaces[m].first = s.interfaces[n].first => m = n
         /\ \A m, n \in DOMAIN s.interfaces : s.interfaces[m].second = s.interfaces[n].second => m = n
         /\ \A m, n \in DOMAIN s.interfaces : s.interfaces[m].first # s.interfaces[n].second
         /\ \A m \in DOMAIN s.interfaces, p \in DOMAIN s.patches : \A n \in DOMAIN s.patches[p] :
               s.patches[p][n] # s.interfaces[m].first /\ s.patches[p][n] # s.interfaces[m].second
         /\ \A p, r \in DOMAIN s.patches : \A n \in DOMAIN s.patches[p], k \in DOMAIN s.patches[r] :
               s.patches[p][n] = s.patches[r][k] => p = r /\ n = k
         /\ \A b \in DOMAIN s.blocks, side \in Sides : IsNamed(s, <<b, side>>)
<1>1. ASSUME NEW b \in DOMAIN s.blocks, NEW side \in Sides
      PROVE  \E use : SideUses(s, <<b, side>>) = {use}
  <2>1. PICK k \in DOMAIN BlockSides : BlockSides[k] = side
    BY SideNames
  <2>2. LET uses == SideUses(s, <<b, BlockSides[k]>>) IN \E use \in uses : uses = {use}
    BY DEF Joined, SidesAreUsedOnce
  <2> QED BY <2>1, <2>2
<1>2. \A b \in DOMAIN s.blocks, side \in Sides : \A x, y \in SideUses(s, <<b, side>>) : x = y
  BY <1>1
<1>3. /\ \A ref : \A n \in DOMAIN s.interfaces :
            /\ s.interfaces[n].first = ref => <<"first", n, 0>> \in SideUses(s, ref)
            /\ s.interfaces[n].second = ref => <<"second", n, 0>> \in SideUses(s, ref)
      /\ \A ref : \A p \in DOMAIN s.patches : \A n \in DOMAIN s.patches[p] :
            s.patches[p][n] = ref => <<"patch", p, n>> \in SideUses(s, ref)
  BY DEF SideUses
<1>4. /\ \A n \in DOMAIN s.interfaces :
            /\ \A x, y \in SideUses(s, s.interfaces[n].first) : x = y
            /\ \A x, y \in SideUses(s, s.interfaces[n].second) : x = y
      /\ \A p \in DOMAIN s.patches : \A n \in DOMAIN s.patches[p] :
            \A x, y \in SideUses(s, s.patches[p][n]) : x = y
  <2>1. \A ref : ref = <<ref[1], ref[2]>> /\ ref[1] \in DOMAIN s.blocks /\ ref[2] \in Sides =>
                 \A x, y \in SideUses(s, ref) : x = y
    BY <1>2
  <2>2. ASSUME NEW n \in DOMAIN s.interfaces
        PROVE  /\ \A x, y \in SideUses(s, s.interfaces[n].first) : x = y
               /\ \A x, y \in SideUses(s, s.interfaces[n].second) : x = y
    <3> DEFINE one == s.interfaces[n].first
               two == s.interfaces[n].second
    <3>1. /\ one = <<one[1], one[2]>> /\ one[1] \in DOMAIN s.blocks /\ one[2] \in Sides
          /\ two = <<two[1], two[2]>> /\ two[1] \in DOMAIN s.blocks /\ two[2] \in Sides
      BY RefFacts
    <3> HIDE DEF one, two
    <3>2. (\A x, y \in SideUses(s, one) : x = y) /\ (\A x, y \in SideUses(s, two) : x = y)
      BY <2>1, <3>1
    <3> QED BY <3>2 DEF one, two
  <2>3. ASSUME NEW p \in DOMAIN s.patches, NEW n \in DOMAIN s.patches[p]
        PROVE  \A x, y \in SideUses(s, s.patches[p][n]) : x = y
    <3> DEFINE ref == s.patches[p][n]
    <3>1. ref = <<ref[1], ref[2]>> /\ ref[1] \in DOMAIN s.blocks /\ ref[2] \in Sides
      BY RefFacts
    <3> HIDE DEF ref
    <3>2. \A x, y \in SideUses(s, ref) : x = y
      BY <2>1, <3>1
    <3> QED BY <3>2 DEF ref
  <2> QED BY <2>2, <2>3
<1>5. \A m, n \in DOMAIN s.interfaces : s.interfaces[m].first = s.interfaces[n].first => m = n
  <2> SUFFICES ASSUME NEW m \in DOMAIN s.interfaces, NEW n \in DOMAIN s.interfaces,
                      s.interfaces[m].first = s.interfaces[n].first
               PROVE  m = n
    OBVIOUS
  <2>0. <<"first", m, 0>> \in SideUses(s, s.interfaces[m].first) /\ <<"first", n, 0>> \in SideUses(s, s.interfaces[m].first)
    BY <1>3
  <2>1. <<"first", m, 0>> = <<"first", n, 0>>
    BY <1>4, <2>0
  <2> QED BY <2>1
<1>6. \A m, n \in DOMAIN s.interfaces : s.interfaces[m].second = s.interfaces[n].second => m = n
  <2> SUFFICES ASSUME NEW m \in DOMAIN s.interfaces, NEW n \in DOMAIN s.interfaces,
                      s.interfaces[m].second = s.interfaces[n].second
               PROVE  m = n
    OBVIOUS
  <2>0. <<"second", m, 0>> \in SideUses(s, s.interfaces[m].second) /\ <<"second", n, 0>> \in SideUses(s, s.interfaces[m].second)
    BY <1>3
  <2>1. <<"second", m, 0>> = <<"second", n, 0>>
    BY <1>4, <2>0
  <2> QED BY <2>1
<1>7. \A m, n \in DOMAIN s.interfaces : s.interfaces[m].first # s.interfaces[n].second
  <2> SUFFICES ASSUME NEW m \in DOMAIN s.interfaces, NEW n \in DOMAIN s.interfaces,
                      s.interfaces[m].first = s.interfaces[n].second
               PROVE  FALSE
    OBVIOUS
  <2>0. <<"first", m, 0>> \in SideUses(s, s.interfaces[m].first) /\ <<"second", n, 0>> \in SideUses(s, s.interfaces[m].first)
    BY <1>3
  <2>1. <<"first", m, 0>> = <<"second", n, 0>>
    BY <1>4, <2>0
  <2> QED BY <2>1
<1>8. \A m \in DOMAIN s.interfaces, p \in DOMAIN s.patches : \A n \in DOMAIN s.patches[p] :
               s.patches[p][n] # s.interfaces[m].first /\ s.patches[p][n] # s.interfaces[m].second
  <2> SUFFICES ASSUME NEW m \in DOMAIN s.interfaces, NEW p \in DOMAIN s.patches,
                      NEW n \in DOMAIN s.patches[p],
                      s.patches[p][n] = s.interfaces[m].first \/ s.patches[p][n] = s.interfaces[m].second
               PROVE  FALSE
    OBVIOUS
  <2>0. /\ <<"patch", p, n>> \in SideUses(s, s.patches[p][n])
        /\ \/ <<"first", m, 0>> \in SideUses(s, s.patches[p][n])
           \/ <<"second", m, 0>> \in SideUses(s, s.patches[p][n])
    BY <1>3
  <2>1. <<"first", m, 0>> = <<"patch", p, n>> \/ <<"second", m, 0>> = <<"patch", p, n>>
    BY <1>4, <2>0
  <2> QED BY <2>1
<1>9. \A p, r \in DOMAIN s.patches : \A n \in DOMAIN s.patches[p], k \in DOMAIN s.patches[r] :
               s.patches[p][n] = s.patches[r][k] => p = r /\ n = k
  <2> SUFFICES ASSUME NEW p \in DOMAIN s.patches, NEW r \in DOMAIN s.patches,
                      NEW n \in DOMAIN s.patches[p], NEW k \in DOMAIN s.patches[r],
                      s.patches[p][n] = s.patches[r][k]
               PROVE  p = r /\ n = k
    OBVIOUS
  <2>0. <<"patch", p, n>> \in SideUses(s, s.patches[p][n]) /\ <<"patch", r, k>> \in SideUses(s, s.patches[p][n])
    BY <1>3
  <2>1. <<"patch", p, n>> = <<"patch", r, k>>
    BY <1>4, <2>0
  <2> QED BY <2>1
<1>10. ASSUME NEW b \in DOMAIN s.blocks, NEW side \in Sides
       PROVE  IsNamed(s, <<b, side>>)
  <2>1. PICK use : SideUses(s, <<b, side>>) = {use}
    BY <1>1
  <2>2. use \in SideUses(s, <<b, side>>)
    BY <2>1
  <2> QED BY <2>2 DEF SideUses, IsFirst, IsSecond, IsNamed
<1> QED BY <1>5, <1>6, <1>7, <1>8, <1>9, <1>10

--------------------------------------------------------------------------------
(* Vertices and the geometry of the edges.                                   *)

\* The place of vertex i of row j.
LEMMA VertexIndex ==
  ASSUME NEW nx \in Nat, NEW ny \in Nat, NEW i \in 0..nx, NEW j \in 0..ny
  PROVE  j * (nx + 1) + i + 1 \in 1..((nx + 1) * (ny + 1))
<1>1. j * (nx + 1) \in Nat /\ (ny - j) * (nx + 1) \in Nat
  OBVIOUS
<1>2. (nx + 1) * (ny + 1) = j * (nx + 1) + (ny - j) * (nx + 1) + nx + 1
  OBVIOUS
<1> QED BY <1>1, <1>2

\* Every block has all of its vertices.
Filled(s) ==
  /\ Shaped(s)
  /\ \A b \in DOMAIN s.blocks :
        Len(s.blocks[b].vertices) = (s.blocks[b].nx + 1) * (s.blocks[b].ny + 1)

\* The corners of a cell are points.
LEMMA CornersArePoints ==
  ASSUME NEW s, Filled(s), NEW b, NEW i, NEW j, IsCell(s, b, i, j)
  PROVE  /\ Corners(s.blocks[b], i, j) \in [1..4 -> Points]
         /\ Vertex(s.blocks[b], i, j) \in Points /\ Vertex(s.blocks[b], i + 1, j) \in Points
         /\ Vertex(s.blocks[b], i + 1, j + 1) \in Points /\ Vertex(s.blocks[b], i, j + 1) \in Points
<1> DEFINE block == s.blocks[b]
           nx == block.nx
           ny == block.ny
<1>1. /\ b \in DOMAIN s.blocks /\ i \in 0..(nx - 1) /\ j \in 0..(ny - 1) /\ nx \in Nat /\ ny \in Nat
      /\ block.vertices \in Seq(Points) /\ Len(block.vertices) = (nx + 1) * (ny + 1)
  BY ShapedFacts DEF IsCell, Filled
<1> HIDE DEF block
<1>2. \A k \in 0..nx, l \in 0..ny : Vertex(block, k, l) \in Points
  <2> TAKE k \in 0..nx, l \in 0..ny
  <2>1. l * (nx + 1) + k + 1 \in 1..Len(block.vertices)
    <3> HIDE DEF nx, ny
    <3>1. l * (nx + 1) + k + 1 \in 1..((nx + 1) * (ny + 1))
      BY <1>1, VertexIndex
    <3> QED BY <1>1, <3>1
  <2>2. block.vertices[l * (nx + 1) + k + 1] \in Points
    <3> DEFINE w == block.vertices
               at == l * (nx + 1) + k + 1
    <3>1. w \in Seq(Points) /\ at \in 1..Len(w)
      BY <1>1, <2>1
    <3> HIDE DEF w, at
    <3>2. w[at] \in Points
      BY <3>1
    <3> QED BY <3>2 DEF w, at
  <2> QED BY <2>2 DEF Vertex
<1>3. i \in 0..nx /\ i + 1 \in 0..nx /\ j \in 0..ny /\ j + 1 \in 0..ny
  BY <1>1
<1>4. /\ Vertex(block, i, j) \in Points /\ Vertex(block, i + 1, j) \in Points
      /\ Vertex(block, i + 1, j + 1) \in Points /\ Vertex(block, i, j + 1) \in Points
  BY <1>2, <1>3
<1>5. Corners(block, i, j) \in [1..4 -> Points]
  BY <1>4 DEF Corners
<1> QED BY <1>4, <1>5 DEF block

\* The geometry of an edge, seen from a cell it is an edge of: the area vector points
\* out of its owner.
LEMMA EdgeGeometryIs ==
  ASSUME NEW s, Filled(s), NEW b, NEW i, NEW j, IsCell(s, b, i, j), NEW k \in 1..4
  PROVE  LET e == CellEdge(b, i, j, k)
             p == Corners(s.blocks[b], i, j)[k]
             q == Corners(s.blocks[b], i, j)[NextCorner(k)]
         IN  /\ EdgeGeometry(s, e).mid2 = Plus(p, q)
             /\ EdgeGeometry(s, e).area = IF OwnNumber(e) = k THEN Outward(p, q) ELSE Outward(q, p)
<1> DEFINE block == s.blocks[b]
           q1 == Vertex(block, i, j)
           q2 == Vertex(block, i + 1, j)
           q3 == Vertex(block, i + 1, j + 1)
           q4 == Vertex(block, i, j + 1)
           e == CellEdge(b, i, j, k)
           c == Corners(block, i, j)
<1>1. /\ q1[1] \in Int /\ q1[2] \in Int /\ q2[1] \in Int /\ q2[2] \in Int
      /\ q3[1] \in Int /\ q3[2] \in Int /\ q4[1] \in Int /\ q4[2] \in Int
  BY CornersArePoints DEF Points
<1>2. c[1] = q1 /\ c[2] = q2 /\ c[3] = q3 /\ c[4] = q4
  BY DEF Corners
<1>n. NextCorner(1) = 2 /\ NextCorner(2) = 3 /\ NextCorner(3) = 4 /\ NextCorner(4) = 1
  BY DEF NextCorner
<1>i. i \in Nat /\ j \in Nat
  BY ShapedFacts DEF IsCell, Filled
<1>4. /\ e.block = b
      /\ k = 1 => e.kind = "horizontal" /\ e.i = i /\ e.j = j
      /\ k = 2 => e.kind = "vertical" /\ e.i = i + 1 /\ e.j = j
      /\ k = 3 => e.kind = "horizontal" /\ e.i = i /\ e.j = j + 1
      /\ k = 4 => e.kind = "vertical" /\ e.i = i /\ e.j = j
  BY EdgeParts DEF CellEdge
<1>3. e.kind = "vertical" =>
        LET u == Vertex(s.blocks[e.block], e.i, e.j)
            v == Vertex(s.blocks[e.block], e.i, e.j + 1)
        IN  /\ EdgeGeometry(s, e).mid2 = <<u[1] + v[1], u[2] + v[2]>>
            /\ e.i = 0 => EdgeGeometry(s, e).area = <<(-1) * (v[2] - u[2]), (-1) * (u[1] - v[1])>>
            /\ e.i # 0 => EdgeGeometry(s, e).area = <<1 * (v[2] - u[2]), 1 * (u[1] - v[1])>>
  BY DEF EdgeGeometry, VerticalEdgeFace, Plus, Times
<1>5. e.kind = "horizontal" =>
        LET u == Vertex(s.blocks[e.block], e.i, e.j)
            v == Vertex(s.blocks[e.block], e.i + 1, e.j)
        IN  /\ EdgeGeometry(s, e).mid2 = <<u[1] + v[1], u[2] + v[2]>>
            /\ e.j = 0 => EdgeGeometry(s, e).area = <<(-1) * (u[2] - v[2]), (-1) * (v[1] - u[1])>>
            /\ e.j # 0 => EdgeGeometry(s, e).area = <<1 * (u[2] - v[2]), 1 * (v[1] - u[1])>>
  BY DEF EdgeGeometry, HorizontalEdgeFace, Plus, Times
<1>6. \A u, v : Plus(u, v) = <<u[1] + v[1], u[2] + v[2]>> /\ Outward(u, v) = <<v[2] - u[2], u[1] - v[1]>>
  BY DEF Plus, Outward
<1>o. \A x \in Int, y \in Int : 1 * (x - y) = x - y /\ (-1) * (x - y) = y - x /\ x + y = y + x
  OBVIOUS
<1> HIDE DEF e, c, q1, q2, q3, q4
<1>7. CASE k = 1
  <2>1. /\ EdgeGeometry(s, e).mid2 = <<q1[1] + q2[1], q1[2] + q2[2]>>
        /\ j = 0 => EdgeGeometry(s, e).area = <<(-1) * (q1[2] - q2[2]), (-1) * (q2[1] - q1[1])>>
        /\ j # 0 => EdgeGeometry(s, e).area = <<1 * (q1[2] - q2[2]), 1 * (q2[1] - q1[1])>>
    BY <1>5, <1>4, <1>7 DEF q1, q2
  <2>2. OwnNumber(e) = k <=> j = 0
    BY <1>4, <1>7 DEF OwnNumber
  <2>3. EdgeGeometry(s, e).mid2 = Plus(q1, q2)
    BY <1>6, <2>1
  <2>4. EdgeGeometry(s, e).area = IF j = 0 THEN Outward(q1, q2) ELSE Outward(q2, q1)
    <3>1. CASE j = 0
      <4>1. EdgeGeometry(s, e).area = <<(-1) * (q1[2] - q2[2]), (-1) * (q2[1] - q1[1])>>
        BY <2>1, <3>1
      <4> QED BY <1>1, <1>6, <1>o, <3>1, <4>1
    <3>2. CASE j # 0
      <4>1. EdgeGeometry(s, e).area = <<1 * (q1[2] - q2[2]), 1 * (q2[1] - q1[1])>>
        BY <2>1, <3>2
      <4> QED BY <1>1, <1>6, <1>o, <3>2, <4>1
    <3> QED BY <3>1, <3>2
  <2> QED BY <1>2, <1>7, <1>n, <2>2, <2>3, <2>4 DEF e, c
<1>8. CASE k = 2
  <2>1. /\ EdgeGeometry(s, e).mid2 = <<q2[1] + q3[1], q2[2] + q3[2]>>
        /\ (i + 1) = 0 => EdgeGeometry(s, e).area = <<(-1) * (q3[2] - q2[2]), (-1) * (q2[1] - q3[1])>>
        /\ (i + 1) # 0 => EdgeGeometry(s, e).area = <<1 * (q3[2] - q2[2]), 1 * (q2[1] - q3[1])>>
    BY <1>3, <1>4, <1>8 DEF q2, q3
  <2>2. OwnNumber(e) = k /\ i + 1 # 0
    BY <1>4, <1>8, <1>i DEF OwnNumber
  <2>3. EdgeGeometry(s, e).mid2 = Plus(q2, q3)
    BY <1>6, <2>1
  <2>4. EdgeGeometry(s, e).area = Outward(q2, q3)
    <3>1. EdgeGeometry(s, e).area = <<1 * (q3[2] - q2[2]), 1 * (q2[1] - q3[1])>>
      BY <2>1, <2>2
    <3> QED BY <1>1, <1>6, <1>o, <3>1
  <2> QED BY <1>2, <1>8, <1>n, <2>2, <2>3, <2>4 DEF e, c
<1>9. CASE k = 3
  <2>1. /\ EdgeGeometry(s, e).mid2 = <<q4[1] + q3[1], q4[2] + q3[2]>>
        /\ (j + 1) = 0 => EdgeGeometry(s, e).area = <<(-1) * (q4[2] - q3[2]), (-1) * (q3[1] - q4[1])>>
        /\ (j + 1) # 0 => EdgeGeometry(s, e).area = <<1 * (q4[2] - q3[2]), 1 * (q3[1] - q4[1])>>
    BY <1>5, <1>4, <1>9 DEF q4, q3
  <2>2. OwnNumber(e) = k /\ j + 1 # 0
    BY <1>4, <1>9, <1>i DEF OwnNumber
  <2>3. EdgeGeometry(s, e).mid2 = Plus(q3, q4)
    BY <1>1, <1>6, <2>1
  <2>4. EdgeGeometry(s, e).area = Outward(q3, q4)
    <3>1. EdgeGeometry(s, e).area = <<1 * (q4[2] - q3[2]), 1 * (q3[1] - q4[1])>>
      BY <2>1, <2>2
    <3> QED BY <1>1, <1>6, <1>o, <3>1
  <2> QED BY <1>2, <1>9, <1>n, <2>2, <2>3, <2>4 DEF e, c
<1>10. CASE k = 4
  <2>1. /\ EdgeGeometry(s, e).mid2 = <<q1[1] + q4[1], q1[2] + q4[2]>>
        /\ i = 0 => EdgeGeometry(s, e).area = <<(-1) * (q4[2] - q1[2]), (-1) * (q1[1] - q4[1])>>
        /\ i # 0 => EdgeGeometry(s, e).area = <<1 * (q4[2] - q1[2]), 1 * (q1[1] - q4[1])>>
    BY <1>3, <1>4, <1>10 DEF q1, q4
  <2>2. OwnNumber(e) = k <=> i = 0
    BY <1>4, <1>10 DEF OwnNumber
  <2>3. EdgeGeometry(s, e).mid2 = Plus(q4, q1)
    BY <1>1, <1>6, <2>1
  <2>4. EdgeGeometry(s, e).area = IF i = 0 THEN Outward(q4, q1) ELSE Outward(q1, q4)
    <3>1. CASE i = 0
      <4>1. EdgeGeometry(s, e).area = <<(-1) * (q4[2] - q1[2]), (-1) * (q1[1] - q4[1])>>
        BY <2>1, <3>1
      <4> QED BY <1>1, <1>6, <1>o, <3>1, <4>1
    <3>2. CASE i # 0
      <4>1. EdgeGeometry(s, e).area = <<1 * (q4[2] - q1[2]), 1 * (q1[1] - q4[1])>>
        BY <2>1, <3>2
      <4> QED BY <1>1, <1>6, <1>o, <3>2, <4>1
    <3> QED BY <3>1, <3>2
  <2> QED BY <1>2, <1>10, <1>n, <2>2, <2>3, <2>4 DEF e, c
<1> QED BY <1>7, <1>8, <1>9, <1>10

--------------------------------------------------------------------------------
(* The cells and their corners.                                              *)

\* Cells have the numbers 1, 2, ..., and each is at one place of one block.
LEMMA CellCornersFacts ==
  ASSUME NEW s, Shaped(s)
  PROVE  /\ DOMAIN CellCorners(s) = 1..Len(CellPlaces(s))
         /\ Len(CellPlaces(s)) \in Nat
         /\ \A b, i, j : IsCell(s, b, i, j) =>
               /\ GlobalCell(s, b, i, j) \in DOMAIN CellCorners(s)
               /\ CellCorners(s)[GlobalCell(s, b, i, j)] = Corners(s.blocks[b], i, j)
         /\ \A c \in DOMAIN CellCorners(s) :
               \E b, i, j : IsCell(s, b, i, j) /\ c = GlobalCell(s, b, i, j)
         /\ \A b, i, j, a, k, l :
               IsCell(s, b, i, j) /\ IsCell(s, a, k, l) /\ GlobalCell(s, b, i, j) = GlobalCell(s, a, k, l)
                 => b = a /\ i = k /\ j = l
<1> DEFINE P == CellPlaces(s)
<1>1. /\ P \in Seq(Nat \X Nat \X Nat)
      /\ \A b, i, j : IsCell(s, b, i, j) =>
               /\ GlobalCell(s, b, i, j) \in 1..Len(P)
               /\ P[GlobalCell(s, b, i, j)] = <<b, i, j>>
      /\ \A c \in 1..Len(P) : \E b, i, j : /\ IsCell(s, b, i, j)
                                           /\ P[c] = <<b, i, j>>
                                           /\ c = GlobalCell(s, b, i, j)
  BY CellPlacesFacts
<1>2. CellCorners(s) = [c \in DOMAIN P |-> Corners(s.blocks[P[c][1]], P[c][2], P[c][3])]
  BY DEF CellCorners
<1> HIDE DEF P
<1>3. DOMAIN P = 1..Len(P) /\ Len(P) \in Nat
  BY <1>1
<1>4. DOMAIN CellCorners(s) = 1..Len(P)
  BY <1>2, <1>3
<1>5. ASSUME NEW b, NEW i, NEW j, IsCell(s, b, i, j)
      PROVE  /\ GlobalCell(s, b, i, j) \in DOMAIN CellCorners(s)
             /\ CellCorners(s)[GlobalCell(s, b, i, j)] = Corners(s.blocks[b], i, j)
  <2>1. GlobalCell(s, b, i, j) \in DOMAIN P /\ P[GlobalCell(s, b, i, j)] = <<b, i, j>>
    BY <1>1, <1>3, <1>5
  <2> QED BY <1>2, <2>1
<1>6. \A c \in DOMAIN CellCorners(s) : \E b, i, j : IsCell(s, b, i, j) /\ c = GlobalCell(s, b, i, j)
  BY <1>1, <1>4
<1>7. ASSUME NEW b, NEW i, NEW j, NEW a, NEW k, NEW l, IsCell(s, b, i, j), IsCell(s, a, k, l),
             GlobalCell(s, b, i, j) = GlobalCell(s, a, k, l)
      PROVE  b = a /\ i = k /\ j = l
  <2> DEFINE c == GlobalCell(s, b, i, j)
             d == GlobalCell(s, a, k, l)
  <2>1. P[c] = <<b, i, j>>
    BY <1>1, <1>7
  <2>2. P[d] = <<a, k, l>>
    BY <1>1, <1>7
  <2>3. c = d
    BY <1>7
  <2> HIDE DEF c, d
  <2> QED BY <2>1, <2>2, <2>3
<1> QED BY <1>3, <1>4, <1>5, <1>6, <1>7 DEF P

\* Different sides of a strictly convex cell have different midpoints.
LEMMA MidpointsApart ==
  ASSUME NEW q \in [1..4 -> Points], StrictlyConvex(q), NEW k \in 1..4, NEW m \in 1..4,
         Plus(q[k], q[NextCorner(k)]) = Plus(q[m], q[NextCorner(m)])
  PROVE  k = m
<1>n. NextCorner(1) = 2 /\ NextCorner(2) = 3 /\ NextCorner(3) = 4 /\ NextCorner(4) = 1
  BY DEF NextCorner
<1>1. \A i \in 1..4 : q[i][1] \in Int /\ q[i][2] \in Int /\ q[i] = <<q[i][1], q[i][2]>>
  BY DEF Points
<1>2. /\ Orient(q[1], q[2], q[3]) > 0 /\ Orient(q[2], q[3], q[4]) > 0
      /\ Orient(q[3], q[4], q[1]) > 0 /\ Orient(q[4], q[1], q[2]) > 0
  BY <1>n DEF StrictlyConvex
<1>3. \A a, b, c : Orient(a, b, c) = (b[1] - a[1]) * (c[2] - a[2]) - (b[2] - a[2]) * (c[1] - a[1])
  BY DEF Orient, Cross, Minus
<1>4. \A a, b, c, d : Plus(a, b) = Plus(c, d) <=> a[1] + b[1] = c[1] + d[1] /\ a[2] + b[2] = c[2] + d[2]
  BY DEF Plus
\* Neighbouring sides.
<1>5. \A a, b, c \in Points : Plus(a, b) = Plus(b, c) => Orient(a, b, c) = 0
  <2> TAKE a, b, c \in Points
  <2> HAVE Plus(a, b) = Plus(b, c)
  <2>1. /\ a[1] \in Int /\ a[2] \in Int /\ b[1] \in Int /\ b[2] \in Int /\ c[1] \in Int /\ c[2] \in Int
    BY DEF Points
  <2>2. c[1] - a[1] = 0 /\ c[2] - a[2] = 0
    BY <1>4, <2>1
  <2>3. Orient(a, b, c) = (b[1] - a[1]) * 0 - (b[2] - a[2]) * 0
    BY <1>3, <2>2
  <2> QED BY <2>1, <2>3
\* Opposite sides.
<1>6. \A a, b, c, d \in Points : Plus(a, b) = Plus(c, d) => Orient(b, c, d) + Orient(d, a, b) = 0
  <2> TAKE a, b, c, d \in Points
  <2> HAVE Plus(a, b) = Plus(c, d)
  <2>1. /\ a[1] \in Int /\ a[2] \in Int /\ b[1] \in Int /\ b[2] \in Int
        /\ c[1] \in Int /\ c[2] \in Int /\ d[1] \in Int /\ d[2] \in Int
    BY DEF Points
  <2>2. a[1] - d[1] = c[1] - b[1] /\ a[2] - d[2] = c[2] - b[2]
    BY <1>4, <2>1
  <2> DEFINE u == c[1] - b[1]
             v == c[2] - b[2]
             x == d[1] - b[1]
             y == d[2] - b[2]
  <2>3. u \in Int /\ v \in Int /\ x \in Int /\ y \in Int /\ b[1] - d[1] = -x /\ b[2] - d[2] = -y
    BY <2>1
  <2>4. Orient(b, c, d) = u * y - v * x
    BY <1>3
  <2>5. Orient(d, a, b) = u * (-y) - v * (-x)
    BY <1>3, <2>2, <2>3
  <2> HIDE DEF u, v, x, y
  <2>6. u * (-y) = -(u * y) /\ v * (-x) = -(v * x) /\ u * y \in Int /\ v * x \in Int
    BY <2>3
  <2> QED BY <2>4, <2>5, <2>6
<1>7. \A i \in 1..4 : q[i] \in Points
  OBVIOUS
<1>8. \A x \in Int, y \in Int : x > 0 /\ y > 0 => x + y # 0
  OBVIOUS
<1>9. \A a, b, c \in Points : Orient(a, b, c) \in Int
  <2> TAKE a, b, c \in Points
  <2>1. /\ a[1] \in Int /\ a[2] \in Int /\ b[1] \in Int /\ b[2] \in Int /\ c[1] \in Int /\ c[2] \in Int
    BY DEF Points
  <2> QED BY <1>3, <2>1
<1>10. \A a, b \in Points : Plus(a, b) = Plus(b, a)
  <2> TAKE a, b \in Points
  <2>1. /\ a[1] \in Int /\ a[2] \in Int /\ b[1] \in Int /\ b[2] \in Int
    BY DEF Points
  <2> QED BY <2>1 DEF Plus
<1> DEFINE mid(i) == Plus(q[i], q[NextCorner(i)])
<1>11. mid(1) # mid(2) /\ mid(2) # mid(3) /\ mid(3) # mid(4) /\ mid(4) # mid(1)
  <2>1. mid(1) # mid(2)
    BY <1>2, <1>5, <1>7, <1>n
  <2>2. mid(2) # mid(3)
    BY <1>2, <1>5, <1>7, <1>n
  <2>3. mid(3) # mid(4)
    BY <1>2, <1>5, <1>7, <1>n
  <2>4. mid(4) # mid(1)
    BY <1>2, <1>5, <1>7, <1>n
  <2> QED BY <2>1, <2>2, <2>3, <2>4
<1>12. mid(1) # mid(3)
  <2>1. Orient(q[2], q[3], q[4]) + Orient(q[4], q[1], q[2]) # 0
    BY <1>2, <1>7, <1>8, <1>9
  <2> QED BY <1>6, <1>7, <1>n, <2>1
<1>13. mid(2) # mid(4)
  <2>1. Orient(q[3], q[4], q[1]) + Orient(q[1], q[2], q[3]) # 0
    BY <1>2, <1>7, <1>8, <1>9
  <2> QED BY <1>6, <1>7, <1>n, <2>1
<1>14. k \in {1, 2, 3, 4} /\ m \in {1, 2, 3, 4} /\ mid(k) = mid(m)
  OBVIOUS
<1> HIDE DEF mid
<1> QED BY <1>11, <1>12, <1>13, <1>14

--------------------------------------------------------------------------------
(* The cells at an edge: its owner, and the cell in front of it.             *)

\* The ends of face n of a side, in the order in which its block has them.
SideEnds(s, b, side, n) ==
  IF RunsForward(side)
  THEN <<SideVertex(s.blocks[b], side, n), SideVertex(s.blocks[b], side, n + 1)>>
  ELSE <<SideVertex(s.blocks[b], side, n + 1), SideVertex(s.blocks[b], side, n)>>

\* The cell behind a face of a side owns the face's edge.
LEMMA SideCellFacts ==
  ASSUME NEW s, Shaped(s), NEW b \in DOMAIN s.blocks, NEW side \in Sides,
         NEW n \in 0..(SideFaceCount(s.blocks[b], side) - 1)
  PROVE  \E i, j :
            /\ IsCell(s, b, i, j)
            /\ CellEdge(b, i, j, SideNumber(side)) = SideEdge(s, b, side, n)
            /\ OwnerOf(s, SideEdge(s, b, side, n)) = GlobalCell(s, b, i, j)
            /\ OwnNumber(SideEdge(s, b, side, n)) = SideNumber(side)
            /\ <<Corners(s.blocks[b], i, j)[SideNumber(side)],
                 Corners(s.blocks[b], i, j)[NextCorner(SideNumber(side))]>> = SideEnds(s, b, side, n)
<1> DEFINE cell == SideCell(s.blocks[b], side, n)
           i == cell[1]
           j == cell[2]
           k == SideNumber(side)
           e == SideEdge(s, b, side, n)
           q == Corners(s.blocks[b], i, j)
<1>1. /\ SideOf(s, e) = <<b, side>>
      /\ IsCell(s, b, i, j)
      /\ CellEdge(b, i, j, k) = e
      /\ <<q[k], q[NextCorner(k)]>> = SideEnds(s, b, side, n)
  BY SideEdgeFacts DEF SideEnds, IsPlaced
<1>2. k \in 1..4
  BY DEF SideNumber
<1> HIDE DEF cell, i, j, k, e, q
<1>3. SideOf(s, e) # NoSide
  BY <1>1 DEF NoSide
<1>4. \/ OwnerOf(s, CellEdge(b, i, j, k)) = GlobalCell(s, b, i, j) /\ OwnNumber(CellEdge(b, i, j, k)) = k
      \/ SideOf(s, CellEdge(b, i, j, k)) = NoSide
  BY <1>1, <1>2, CellBesideEdge
<1>5. OwnerOf(s, e) = GlobalCell(s, b, i, j) /\ OwnNumber(e) = k
  BY <1>1, <1>3, <1>4
<1> QED BY <1>1, <1>5 DEF k, e, q

\* Face k of the first side of interface n and its partner have the same vertices.
SameVertices(s, n, k) ==
  LET x == s.interfaces[n]
      V(i) == SideVertex(s.blocks[x.first[1]], x.first[2], i)
      W(i) == SideVertex(s.blocks[x.second[1]], x.second[2], i)
      l == PartnerFace(s, x, k)
  IN  /\ ~x.reversed => W(l) = V(k) /\ W(l + 1) = V(k + 1)
      /\ x.reversed => W(l) = V(k + 1) /\ W(l + 1) = V(k)

\* The faces of two joined sides are paired, with the same vertices.
LEMMA PartnerFacts ==
  ASSUME NEW s, Joined(s), NEW n \in DOMAIN s.interfaces
  PROVE  LET x == s.interfaces[n]
             a == s.blocks[x.first[1]]
             b == s.blocks[x.second[1]]
             F == SideFaceCount(a, x.first[2])
         IN  /\ F \in Nat /\ SideFaceCount(b, x.second[2]) = F
             /\ \A k \in 0..(F - 1) :
                   /\ PartnerFace(s, x, k) \in 0..(F - 1)
                   /\ PartnerFace(s, x, PartnerFace(s, x, k)) = k
                   /\ SameVertices(s, n, k)
<1> DEFINE x == s.interfaces[n]
           a == s.blocks[x.first[1]]
           b == s.blocks[x.second[1]]
           F == SideFaceCount(a, x.first[2])
<1>1. /\ SideFaceCount(b, x.second[2]) = F
      /\ \A k \in 0..F : SideVertex(a, x.first[2], k)
                           = SideVertex(b, x.second[2], IF x.reversed THEN F - k ELSE k)
  BY DEF Joined, InterfacesAreConformal
<1>2. x.first[1] \in DOMAIN s.blocks /\ x.first[2] \in Sides /\ x.reversed \in BOOLEAN
  BY RefFacts
<1>3. F \in Nat
  <2>1. Shaped(s)
    BY DEF Joined
  <2>2. a.nx \in Nat /\ a.ny \in Nat
    BY <1>2, <2>1, ShapedFacts
  <2> QED BY <2>2 DEF SideFaceCount
<1>4. \A k : PartnerFace(s, x, k) = IF x.reversed THEN F - 1 - k ELSE k
  BY <1>1 DEF PartnerFace
<1> HIDE DEF x, a, b, F
<1>5. ASSUME NEW k \in 0..(F - 1)
      PROVE  /\ PartnerFace(s, x, k) \in 0..(F - 1)
             /\ PartnerFace(s, x, PartnerFace(s, x, k)) = k
             /\ SameVertices(s, n, k)
  <2>1. k \in 0..F /\ k + 1 \in 0..F /\ F - (k + 1) = F - 1 - k /\ F - 1 - k + 1 = F - k
    BY <1>3
  <2>2. CASE x.reversed
    <3>1. PartnerFace(s, x, k) = F - 1 - k
      BY <1>4, <2>2
    <3>2. /\ SideVertex(a, x.first[2], k) = SideVertex(b, x.second[2], F - k)
          /\ SideVertex(a, x.first[2], k + 1) = SideVertex(b, x.second[2], F - (k + 1))
      BY <1>1, <2>1, <2>2
    <3>3. F - 1 - k \in 0..(F - 1) /\ F - 1 - (F - 1 - k) = k
      BY <1>3
    <3>4. PartnerFace(s, x, F - 1 - k) = k
      BY <1>4, <2>2, <3>3
    <3>5. SameVertices(s, n, k)
      BY <2>1, <2>2, <3>1, <3>2 DEF SameVertices, x, a, b
    <3> QED BY <3>1, <3>3, <3>4, <3>5
  <2>3. CASE ~x.reversed
    <3>1. PartnerFace(s, x, k) = k
      BY <1>4, <2>3
    <3>2. /\ SideVertex(a, x.first[2], k) = SideVertex(b, x.second[2], k)
          /\ SideVertex(a, x.first[2], k + 1) = SideVertex(b, x.second[2], k + 1)
      BY <1>1, <2>1, <2>3
    <3>3. SameVertices(s, n, k)
      BY <2>3, <3>1, <3>2 DEF SameVertices, x, a, b
    <3> QED BY <3>1, <3>3
  <2> QED BY <2>2, <2>3
<1> QED BY <1>1, <1>3, <1>5 DEF x, a, b, F

\* The edge that an edge on the first side of interface n is joined to.
Across(s, n, e) ==
  LET x == s.interfaces[n]
  IN  SideEdge(s, x.second[1], x.second[2], PartnerFace(s, x, AlongSide(e)))

\* The edge across the interface belongs to the cell in front.
LEMMA AcrossFacts ==
  ASSUME NEW s, Joined(s), NEW e, IsEdge(s, e), NEW n \in DOMAIN s.interfaces,
         SideOf(s, e) = s.interfaces[n].first
  PROVE  /\ IsEdge(s, Across(s, n, e))
         /\ SideOf(s, Across(s, n, e)) = s.interfaces[n].second
         /\ AlongSide(Across(s, n, e)) = PartnerFace(s, s.interfaces[n], AlongSide(e))
         /\ AlongSide(e) \in 0..(SideFaceCount(s.blocks[s.interfaces[n].first[1]], s.interfaces[n].first[2]) - 1)
         /\ e = SideEdge(s, s.interfaces[n].first[1], s.interfaces[n].first[2], AlongSide(e))
         /\ NeighborOf(s, e) = OwnerOf(s, Across(s, n, e))
<1> DEFINE x == s.interfaces[n]
           b == x.second[1]
           m == PartnerFace(s, x, AlongSide(e))
           F == SideFaceCount(s.blocks[x.first[1]], x.first[2])
<1>0. Shaped(s)
  BY DEF Joined
<1>1. /\ x.first = <<x.first[1], x.first[2]>> /\ x.first[1] \in DOMAIN s.blocks /\ x.first[2] \in Sides
      /\ x.second = <<b, x.second[2]>> /\ b \in DOMAIN s.blocks /\ x.second[2] \in Sides
  BY RefFacts
<1>2. SideOf(s, e) # NoSide
  <2>1. SideOf(s, e) = <<x.first[1], x.first[2]>>
    BY <1>1
  <2> HIDE DEF x
  <2> QED BY <2>1 DEF NoSide
<1>3. /\ e.block = x.first[1]
      /\ AlongSide(e) \in 0..(F - 1)
      /\ e = SideEdge(s, x.first[1], x.first[2], AlongSide(e))
  BY <1>0, <1>2, EdgeOnSide
<1>4. SideFaceCount(s.blocks[b], x.second[2]) = F /\ m \in 0..(F - 1)
  BY <1>3, PartnerFacts
<1>5. /\ IsEdge(s, SideEdge(s, b, x.second[2], m))
      /\ SideOf(s, SideEdge(s, b, x.second[2], m)) = <<b, x.second[2]>>
      /\ AlongSide(SideEdge(s, b, x.second[2], m)) = m
  <2> DEFINE side == x.second[2]
  <2>1. b \in DOMAIN s.blocks /\ side \in Sides /\ m \in 0..(SideFaceCount(s.blocks[b], side) - 1)
    BY <1>1, <1>4
  <2> HIDE DEF b, m, side
  <2>2. /\ IsEdge(s, SideEdge(s, b, side, m))
        /\ SideOf(s, SideEdge(s, b, side, m)) = <<b, side>>
        /\ AlongSide(SideEdge(s, b, side, m)) = m
    <3>1. IsPlaced(s, b, side, m)
      BY <1>0, <2>1, SideEdgeFacts
    <3> QED BY <3>1 DEF IsPlaced
  <2> QED BY <2>2 DEF side
<1>6. Across(s, n, e) = SideEdge(s, b, x.second[2], m)
  BY DEF Across
<1>7. NeighborOf(s, e) = OwnerOf(s, Across(s, n, e))
  <2>1. IsFirst(s, SideOf(s, e))
    BY DEF IsFirst
  <2>2. \A y \in ToSet(s.interfaces) : y.first = SideOf(s, e) => y = x
    <3>1. \A y \in ToSet(s.interfaces) : \E p \in DOMAIN s.interfaces : y = s.interfaces[p]
      BY DEF ToSet
    <3>2. \A p \in DOMAIN s.interfaces : s.interfaces[p].first = s.interfaces[n].first => p = n
      BY UsedOnce
    <3> QED BY <3>1, <3>2
  <2>3. x \in ToSet(s.interfaces) /\ x.first = SideOf(s, e)
    BY DEF ToSet
  <2>4. (CHOOSE y \in ToSet(s.interfaces) : y.first = SideOf(s, e)) = x
    BY <2>2, <2>3
  <2> DEFINE cell == SideCell(s.blocks[b], x.second[2], m)
  <2>5. NeighborOf(s, e) = GlobalCell(s, b, cell[1], cell[2])
    BY <1>2, <2>1, <2>4 DEF NeighborOf
  <2>6. OwnerOf(s, SideEdge(s, b, x.second[2], m)) = GlobalCell(s, b, cell[1], cell[2])
    <3> DEFINE d == SideEdge(s, b, x.second[2], m)
    <3>1. d.block = b
      BY EdgeParts DEF SideEdge
    <3>2. SideOf(s, d) = <<b, x.second[2]>> /\ AlongSide(d) = m
      BY <1>5
    <3> HIDE DEF d, m, b, x
    <3>3. SideOf(s, d) # NoSide /\ SideOf(s, d)[2] = x.second[2]
      BY <3>2 DEF NoSide
    <3>4. OwnerOf(s, d) = GlobalCell(s, d.block, SideCell(s.blocks[d.block], SideOf(s, d)[2], AlongSide(d))[1],
                                                 SideCell(s.blocks[d.block], SideOf(s, d)[2], AlongSide(d))[2])
      BY <3>3 DEF OwnerOf
    <3> QED BY <3>1, <3>2, <3>3, <3>4 DEF d
  <2> QED BY <1>6, <2>5, <2>6
<1> QED BY <1>1, <1>3, <1>5, <1>6, <1>7

--------------------------------------------------------------------------------
(* The one face of every edge.                                               *)

\* An edge that gets a face.
HasFace(s, e) == IsEdge(s, e) /\ ~IsSecond(s, SideOf(s, e))

\* The face of edge d is that of edge e: they are the same edge, or an interface joins them.
Serves(s, d, e) ==
  \/ d = e
  \/ \E n \in DOMAIN s.interfaces : SideOf(s, d) = s.interfaces[n].first /\ Across(s, n, d) = e

\* Every edge has a face.
LEMMA EdgeIsServed ==
  ASSUME NEW s, Joined(s), NEW e, IsEdge(s, e)
  PROVE  \E d : HasFace(s, d) /\ Serves(s, d, e)
<1>1. CASE ~IsSecond(s, SideOf(s, e))
  BY <1>1 DEF HasFace, Serves
<1>2. CASE IsSecond(s, SideOf(s, e))
  <2>1. PICK n \in DOMAIN s.interfaces : s.interfaces[n].second = SideOf(s, e)
    BY <1>2 DEF IsSecond
  <2> DEFINE x == s.interfaces[n]
             a == x.first[1]
             t == x.first[2]
             m == AlongSide(e)
             F == SideFaceCount(s.blocks[a], t)
             l == PartnerFace(s, x, m)
             d == SideEdge(s, a, t, l)
  <2>2. Shaped(s)
    BY DEF Joined
  <2>3. /\ x.first = <<a, t>> /\ a \in DOMAIN s.blocks /\ t \in Sides
        /\ x.second = <<x.second[1], x.second[2]>>
    BY RefFacts
  <2>4. SideOf(s, e) # NoSide
    <3>1. SideOf(s, e) = <<x.second[1], x.second[2]>>
      BY <2>1, <2>3
    <3> HIDE DEF x
    <3> QED BY <3>1 DEF NoSide
  <2>5. /\ e.block = x.second[1]
        /\ m \in 0..(SideFaceCount(s.blocks[x.second[1]], x.second[2]) - 1)
        /\ e = SideEdge(s, x.second[1], x.second[2], m)
    BY <2>1, <2>2, <2>4, EdgeOnSide
  <2>6. m \in 0..(F - 1) /\ l \in 0..(F - 1) /\ PartnerFace(s, x, l) = m
    <3>1. /\ SideFaceCount(s.blocks[x.second[1]], x.second[2]) = F
          /\ \A k \in 0..(F - 1) : PartnerFace(s, x, k) \in 0..(F - 1) /\ PartnerFace(s, x, PartnerFace(s, x, k)) = k
      BY PartnerFacts
    <3> HIDE DEF x, F, m
    <3> QED BY <2>5, <3>1
  <2>7. IsPlaced(s, a, t, l)
    <3> HIDE DEF a, t, l
    <3> QED BY <2>2, <2>3, <2>6, SideEdgeFacts DEF F
  <2>8. IsEdge(s, d) /\ SideOf(s, d) = x.first /\ AlongSide(d) = l
    BY <2>3, <2>7 DEF IsPlaced
  <2>9. Across(s, n, d) = e
    <3>1. Across(s, n, d) = SideEdge(s, x.second[1], x.second[2], PartnerFace(s, x, AlongSide(d)))
      BY DEF Across
    <3> HIDE DEF x, d, m, l
    <3> QED BY <2>5, <2>6, <2>8, <3>1
  <2>10. ~IsSecond(s, SideOf(s, d))
    <3>1. \A k \in DOMAIN s.interfaces : s.interfaces[n].first # s.interfaces[k].second
      BY UsedOnce
    <3> HIDE DEF d
    <3> QED BY <2>8, <3>1 DEF IsSecond
  <2> HIDE DEF d, x
  <2>11. SideOf(s, d) = s.interfaces[n].first
    BY <2>8 DEF x
  <2> QED BY <2>8, <2>9, <2>10, <2>11 DEF HasFace, Serves
<1> QED BY <1>1, <1>2

\* Every edge has one face only.
LEMMA ServedByOne ==
  ASSUME NEW s, Joined(s), NEW e, NEW c, NEW d, HasFace(s, c), HasFace(s, d), Serves(s, c, e), Serves(s, d, e)
  PROVE  c = d
<1>1. ASSUME NEW b, HasFace(s, b), NEW n \in DOMAIN s.interfaces,
             SideOf(s, b) = s.interfaces[n].first, Across(s, n, b) = e
      PROVE  /\ SideOf(s, e) = s.interfaces[n].second
             /\ b = SideEdge(s, s.interfaces[n].first[1], s.interfaces[n].first[2],
                             PartnerFace(s, s.interfaces[n], AlongSide(e)))
  <2> DEFINE x == s.interfaces[n]
             m == AlongSide(b)
             F == SideFaceCount(s.blocks[x.first[1]], x.first[2])
  <2>1. IsEdge(s, b)
    BY <1>1 DEF HasFace
  <2>2. /\ SideOf(s, e) = x.second
        /\ AlongSide(e) = PartnerFace(s, x, m)
        /\ m \in 0..(F - 1)
        /\ b = SideEdge(s, x.first[1], x.first[2], m)
    BY <1>1, <2>1, AcrossFacts
  <2>3. PartnerFace(s, x, PartnerFace(s, x, m)) = m
    BY <2>2, PartnerFacts
  <2> HIDE DEF m, x
  <2>4. PartnerFace(s, x, AlongSide(e)) = m
    BY <2>2, <2>3
  <2> QED BY <2>2, <2>4 DEF x
<1>2. ASSUME NEW n \in DOMAIN s.interfaces, SideOf(s, e) = s.interfaces[n].second
      PROVE  ~HasFace(s, e)
  BY <1>2 DEF HasFace, IsSecond
<1>3. CASE c = e \/ d = e
  BY <1>1, <1>2, <1>3 DEF Serves
<1>4. CASE c # e /\ d # e
  <2>1. PICK m \in DOMAIN s.interfaces : SideOf(s, c) = s.interfaces[m].first /\ Across(s, m, c) = e
    BY <1>4 DEF Serves
  <2>2. PICK n \in DOMAIN s.interfaces : SideOf(s, d) = s.interfaces[n].first /\ Across(s, n, d) = e
    BY <1>4 DEF Serves
  <2>3. SideOf(s, e) = s.interfaces[m].second /\ SideOf(s, e) = s.interfaces[n].second
    BY <1>1, <2>1, <2>2
  <2>4. m = n
    BY <2>3, UsedOnce
  <2> QED BY <1>1, <2>1, <2>2, <2>4
<1> QED BY <1>3, <1>4

\* The neighbour of a face has an edge that the face is the face of.
LEMMA NeighborServed ==
  ASSUME NEW s, Joined(s), NEW e, HasFace(s, e)
  PROVE  /\ NeighborOf(s, e) = NoCell <=> SideOf(s, e) # NoSide /\ ~IsFirst(s, SideOf(s, e))
         /\ NeighborOf(s, e) # NoCell =>
              \E b, i, j : \E k \in 1..4 :
                 /\ IsCell(s, b, i, j)
                 /\ NeighborOf(s, e) = GlobalCell(s, b, i, j)
                 /\ Serves(s, e, CellEdge(b, i, j, k))
<1>1. Shaped(s) /\ IsEdge(s, e)
  BY DEF Joined, HasFace
<1>2. \A b, i, j : IsCell(s, b, i, j) => GlobalCell(s, b, i, j) # NoCell
  <2>1. \A b, i, j : IsCell(s, b, i, j) => GlobalCell(s, b, i, j) \in 1..Len(CellPlaces(s))
    BY <1>1, CellPlacesFacts
  <2> QED BY <2>1 DEF NoCell
<1>3. CASE SideOf(s, e) = NoSide
  <2> DEFINE b == e.block
             nx == s.blocks[b].nx
             ny == s.blocks[b].ny
             k == IF e.kind = "vertical" THEN 4 ELSE 1
  <2>1. NeighborOf(s, e) = GlobalCell(s, b, e.i, e.j)
    BY <1>3 DEF NeighborOf
  <2>2. /\ e = Edge(b, e.kind, e.i, e.j) /\ b \in DOMAIN s.blocks
        /\ nx \in Nat /\ nx > 0 /\ ny \in Nat /\ ny > 0
        /\ SideOf(s, e) =
              IF e.kind = "vertical"
              THEN IF e.i = 0 THEN <<b, "left">> ELSE IF e.i = nx THEN <<b, "right">> ELSE NoSide
              ELSE IF e.j = 0 THEN <<b, "bottom">> ELSE IF e.j = ny THEN <<b, "top">> ELSE NoSide
        /\ e.kind \in {"vertical", "horizontal"}
        /\ e.kind = "vertical" => e.i \in 0..nx /\ e.j \in 0..(ny - 1)
        /\ e.kind = "horizontal" => e.i \in 0..(nx - 1) /\ e.j \in 0..ny
    BY <1>1, SideOfIs
  <2>3. \A x, y : <<x, y>> # NoSide
    BY DEF NoSide
  <2>4. (e.kind = "vertical" => e.i # nx) /\ (e.kind = "horizontal" => e.j # ny)
    <3> HIDE DEF nx, ny
    <3>1. CASE e.kind = "vertical"
      BY <1>3, <2>2, <2>3, <3>1
    <3>2. CASE e.kind = "horizontal"
      BY <1>3, <2>2, <2>3, <3>2
    <3> QED BY <2>2, <3>1, <3>2
  <2>5. IsCell(s, b, e.i, e.j)
    <3>1. e.i \in 0..(nx - 1) /\ e.j \in 0..(ny - 1)
      <4> HIDE DEF nx, ny
      <4> QED BY <2>2, <2>4
    <3> QED BY <2>2, <3>1 DEF IsCell
  <2>6. k \in 1..4 /\ CellEdge(b, e.i, e.j, k) = e
    <3>1. CASE e.kind = "vertical"
      BY <2>2, <3>1 DEF CellEdge
    <3>2. CASE e.kind = "horizontal"
      BY <2>2, <3>2 DEF CellEdge
    <3> QED BY <2>2, <3>1, <3>2
  <2> HIDE DEF b, k
  <2> QED BY <1>2, <1>3, <2>1, <2>5, <2>6 DEF Serves
<1>4. CASE SideOf(s, e) # NoSide /\ IsFirst(s, SideOf(s, e))
  <2>1. PICK n \in DOMAIN s.interfaces : s.interfaces[n].first = SideOf(s, e)
    BY <1>4 DEF IsFirst
  <2> DEFINE d == Across(s, n, e)
  <2>2. IsEdge(s, d) /\ NeighborOf(s, e) = OwnerOf(s, d)
    BY <1>1, <2>1, AcrossFacts
  <2> HIDE DEF d
  <2>3a. PICK i : \E j : /\ IsCell(s, d.block, i, j)
                         /\ OwnerOf(s, d) = GlobalCell(s, d.block, i, j)
                         /\ CellEdge(d.block, i, j, OwnNumber(d)) = d
    BY <1>1, <2>2, OwnerFacts
  <2>3. PICK j : /\ IsCell(s, d.block, i, j)
                 /\ OwnerOf(s, d) = GlobalCell(s, d.block, i, j)
                 /\ CellEdge(d.block, i, j, OwnNumber(d)) = d
    BY <2>3a
  <2>4. OwnNumber(d) \in 1..4
    BY DEF OwnNumber
  <2>5. Serves(s, e, d)
    BY <2>1 DEF d, Serves
  <2>6. Serves(s, e, CellEdge(d.block, i, j, OwnNumber(d)))
    BY <2>3, <2>5
  <2> QED BY <1>2, <1>4, <2>2, <2>3, <2>4, <2>6
<1>5. CASE SideOf(s, e) # NoSide /\ ~IsFirst(s, SideOf(s, e))
  <2>1. NeighborOf(s, e) = NoCell
    BY <1>5 DEF NeighborOf
  <2> QED BY <1>5, <2>1
<1> QED BY <1>3, <1>4, <1>5

\* Face geometry from its ends, as its owner has them.
LEMMA SideEdgeGeometry ==
  ASSUME NEW s, Filled(s), NEW b \in DOMAIN s.blocks, NEW side \in Sides
  PROVE  \A n \in 0..(SideFaceCount(s.blocks[b], side) - 1) :
            LET g == EdgeGeometry(s, SideEdge(s, b, side, n))
                p == SideEnds(s, b, side, n)
            IN  /\ g.mid2 = Plus(p[1], p[2]) /\ g.area = Outward(p[1], p[2])
                /\ p[1] \in Points /\ p[2] \in Points
<1> TAKE n \in 0..(SideFaceCount(s.blocks[b], side) - 1)
<1>1. Shaped(s)
  BY DEF Filled
<1> DEFINE e == SideEdge(s, b, side, n)
           k == SideNumber(side)
           p == SideEnds(s, b, side, n)
<1>2a. PICK i : \E j : /\ IsCell(s, b, i, j)
                       /\ CellEdge(b, i, j, k) = e
                       /\ OwnNumber(e) = k
                       /\ <<Corners(s.blocks[b], i, j)[k], Corners(s.blocks[b], i, j)[NextCorner(k)]>> = p
  BY <1>1, SideCellFacts
<1>2. PICK j : /\ IsCell(s, b, i, j)
               /\ CellEdge(b, i, j, k) = e
               /\ OwnNumber(e) = k
               /\ <<Corners(s.blocks[b], i, j)[k], Corners(s.blocks[b], i, j)[NextCorner(k)]>> = p
  BY <1>2a
<1>3. k \in 1..4 /\ NextCorner(k) \in 1..4
  BY DEF SideNumber, NextCorner
<1> DEFINE q == Corners(s.blocks[b], i, j)
<1>4. q \in [1..4 -> Points]
  BY <1>2, CornersArePoints
<1>5. /\ EdgeGeometry(s, CellEdge(b, i, j, k)).mid2 = Plus(q[k], q[NextCorner(k)])
      /\ OwnNumber(CellEdge(b, i, j, k)) = k
           => EdgeGeometry(s, CellEdge(b, i, j, k)).area = Outward(q[k], q[NextCorner(k)])
  BY <1>2, <1>3, EdgeGeometryIs
<1>6. p[1] = q[k] /\ p[2] = q[NextCorner(k)]
  <2> HIDE DEF p, q, k
  <2>1. p = <<q[k], q[NextCorner(k)]>>
    BY <1>2 DEF q
  <2> QED BY <2>1
<1> HIDE DEF q, p, k, e
<1>7. EdgeGeometry(s, e).mid2 = Plus(p[1], p[2]) /\ EdgeGeometry(s, e).area = Outward(p[1], p[2])
  BY <1>2, <1>5, <1>6
<1> QED BY <1>3, <1>4, <1>6, <1>7 DEF p, e

\* The face of edge e is the k-th edge of a cell, seen from its owner or from its neighbour.
TouchesAt(s, e, b, i, j, k) ==
  LET p == Corners(s.blocks[b], i, j)[k]
      q == Corners(s.blocks[b], i, j)[NextCorner(k)]
  IN  /\ EdgeGeometry(s, e).mid2 = Plus(p, q)
      /\ \/ OwnerOf(s, e) = GlobalCell(s, b, i, j) /\ EdgeGeometry(s, e).area = Outward(p, q)
         \/ /\ NeighborOf(s, e) = GlobalCell(s, b, i, j)
            /\ InterfacesFace(s) => EdgeGeometry(s, e).area = Outward(q, p)

\* What the builder has checked implies that blocks have their vertices.
LEMMA JoinedIsFilled ==
  ASSUME NEW s, Joined(s)
  PROVE  Filled(s)
BY DEF Joined, Filled

\* Two edges joined by an interface have the same ends, in opposite order if the sides
\* face each other.
LEMMA AcrossGeometry ==
  ASSUME NEW s, Joined(s), NEW n \in DOMAIN s.interfaces, NEW d, IsEdge(s, d),
         SideOf(s, d) = s.interfaces[n].first
  PROVE  LET x == s.interfaces[n]
             p == SideEnds(s, x.second[1], x.second[2], AlongSide(Across(s, n, d)))
         IN  /\ EdgeGeometry(s, d).mid2 = Plus(p[1], p[2])
             /\ InterfacesFace(s) => EdgeGeometry(s, d).area = Outward(p[2], p[1])
<1> DEFINE x == s.interfaces[n]
           a == x.first[1]
           t == x.first[2]
           b == x.second[1]
           u == x.second[2]
           m == AlongSide(d)
           l == AlongSide(Across(s, n, d))
           F == SideFaceCount(s.blocks[a], t)
           p == SideEnds(s, a, t, m)
           q == SideEnds(s, b, u, l)
           fwd == RunsForward(t)
           bwd == RunsForward(u)
<1>1. /\ l = PartnerFace(s, x, m)
      /\ m \in 0..(F - 1)
      /\ d = SideEdge(s, a, t, m)
  BY AcrossFacts
<1>2. a \in DOMAIN s.blocks /\ t \in Sides /\ x.reversed \in BOOLEAN
  BY RefFacts
<1>3. Filled(s)
  BY JoinedIsFilled
<1>4. /\ EdgeGeometry(s, d).mid2 = Plus(p[1], p[2]) /\ EdgeGeometry(s, d).area = Outward(p[1], p[2])
      /\ p[1] \in Points /\ p[2] \in Points
  <2> HIDE DEF a, t, m, p
  <2>1. LET g == EdgeGeometry(s, SideEdge(s, a, t, m))
            r == SideEnds(s, a, t, m)
        IN  /\ g.mid2 = Plus(r[1], r[2]) /\ g.area = Outward(r[1], r[2])
            /\ r[1] \in Points /\ r[2] \in Points
    BY <1>1, <1>2, <1>3, SideEdgeGeometry DEF F
  <2> QED BY <1>1, <2>1 DEF p
<1> DEFINE V(k) == SideVertex(s.blocks[a], t, k)
           W(k) == SideVertex(s.blocks[b], u, k)
<1>5. /\ ~x.reversed => W(l) = V(m) /\ W(l + 1) = V(m + 1)
      /\ x.reversed => W(l) = V(m + 1) /\ W(l + 1) = V(m)
  <2>1. SameVertices(s, n, m)
    <3> HIDE DEF m
    <3> QED BY <1>1, PartnerFacts
  <2>2. /\ ~x.reversed => W(PartnerFace(s, x, m)) = V(m) /\ W(PartnerFace(s, x, m) + 1) = V(m + 1)
        /\ x.reversed => W(PartnerFace(s, x, m)) = V(m + 1) /\ W(PartnerFace(s, x, m) + 1) = V(m)
    <3> HIDE DEF m
    <3> QED BY <2>1 DEF SameVertices
  <2> HIDE DEF F, V, W, x, m, l
  <2> QED BY <1>1, <2>2
<1>6. /\ fwd => p[1] = V(m) /\ p[2] = V(m + 1)
      /\ ~fwd => p[1] = V(m + 1) /\ p[2] = V(m)
      /\ bwd => q[1] = W(l) /\ q[2] = W(l + 1)
      /\ ~bwd => q[1] = W(l + 1) /\ q[2] = W(l)
  BY DEF SideEnds
<1>7. InterfacesFace(s) => (x.reversed <=> (fwd = bwd))
  BY DEF InterfacesFace
<1>8. fwd \in BOOLEAN /\ bwd \in BOOLEAN
  BY DEF RunsForward
<1>10. Plus(p[1], p[2]) = Plus(p[2], p[1])
  <2> HIDE DEF p
  <2>1. p[1][1] \in Int /\ p[1][2] \in Int /\ p[2][1] \in Int /\ p[2][2] \in Int
    BY <1>4 DEF Points
  <2> QED BY <2>1 DEF Plus
<1> HIDE DEF x, p, q, V, W, m, l, fwd, bwd
<1>11. \/ q[1] = p[1] /\ q[2] = p[2]
       \/ q[1] = p[2] /\ q[2] = p[1]
  BY <1>2, <1>5, <1>6, <1>8
<1>12. InterfacesFace(s) => q[1] = p[2] /\ q[2] = p[1]
  BY <1>2, <1>5, <1>6, <1>7, <1>8
<1>13. /\ EdgeGeometry(s, d).mid2 = Plus(q[1], q[2])
       /\ InterfacesFace(s) => EdgeGeometry(s, d).area = Outward(q[2], q[1])
  BY <1>4, <1>10, <1>11, <1>12
<1> QED BY <1>13 DEF x, q, l

\* A face is where the edges are that it is the face of.
LEMMA ServesTouches ==
  ASSUME NEW s, Joined(s), NEW d, HasFace(s, d), NEW b, NEW i, NEW j, IsCell(s, b, i, j),
         NEW k \in 1..4, Serves(s, d, CellEdge(b, i, j, k))
  PROVE  TouchesAt(s, d, b, i, j, k)
<1> DEFINE e == CellEdge(b, i, j, k)
           c == Corners(s.blocks[b], i, j)
           p == c[k]
           q == c[NextCorner(k)]
<1>1. Shaped(s) /\ Filled(s) /\ IsEdge(s, d)
  BY JoinedIsFilled DEF Joined, HasFace
<1>2. IsEdge(s, e) /\ e.block = b
  BY <1>1, CellEdgeFacts
<1>3. \/ OwnerOf(s, e) = GlobalCell(s, b, i, j) /\ OwnNumber(e) = k
      \/ SideOf(s, e) = NoSide /\ NeighborOf(s, e) = GlobalCell(s, b, i, j)
  BY <1>1, CellBesideEdge
<1>4. CASE d = e
  <2>1. /\ EdgeGeometry(s, e).mid2 = Plus(p, q)
        /\ OwnNumber(e) = k => EdgeGeometry(s, e).area = Outward(p, q)
        /\ OwnNumber(e) # k => EdgeGeometry(s, e).area = Outward(q, p)
    BY <1>1, EdgeGeometryIs
  <2>2. CASE OwnNumber(e) # k
    <3> HIDE DEF e, c
    <3> QED BY <1>3, <1>4, <2>1, <2>2 DEF TouchesAt, c
  <2>3. CASE OwnNumber(e) = k
    <3>1a. PICK x : \E y : /\ IsCell(s, e.block, x, y)
                           /\ OwnerOf(s, e) = GlobalCell(s, e.block, x, y)
                           /\ CellEdge(e.block, x, y, OwnNumber(e)) = e
      BY <1>1, <1>2, OwnerFacts
    <3>1. PICK y : /\ IsCell(s, e.block, x, y)
                   /\ OwnerOf(s, e) = GlobalCell(s, e.block, x, y)
                   /\ CellEdge(e.block, x, y, OwnNumber(e)) = e
      BY <3>1a
    <3>2. CellEdge(b, x, y, k) = CellEdge(b, i, j, k)
      BY <1>2, <2>3, <3>1
    <3>3. x = i /\ y = j
      <4>1. i \in Int /\ j \in Int /\ x \in Int /\ y \in Int
        BY <1>1, <1>2, <3>1, ShapedFacts DEF IsCell
      <4>2. k = 1 \/ k = 2 \/ k = 3 \/ k = 4
        OBVIOUS
      <4>3. CellEdge(b, x, y, k).i = CellEdge(b, i, j, k).i /\ CellEdge(b, x, y, k).j = CellEdge(b, i, j, k).j
        BY <3>2
      <4> QED BY <4>1, <4>2, <4>3, EdgeParts DEF CellEdge
    <3>4. OwnerOf(s, e) = GlobalCell(s, b, i, j)
      BY <1>2, <3>1, <3>3
    <3> HIDE DEF e, c
    <3> QED BY <1>4, <2>1, <2>3, <3>4 DEF TouchesAt, c
  <2> QED BY <2>2, <2>3
<1>5. CASE d # e
  <2>1. PICK n \in DOMAIN s.interfaces : SideOf(s, d) = s.interfaces[n].first /\ Across(s, n, d) = e
    BY <1>5 DEF Serves
  <2> DEFINE x == s.interfaces[n]
             a == x.second[1]
             u == x.second[2]
             m == AlongSide(e)
  <2>2. SideOf(s, e) = x.second /\ NeighborOf(s, d) = OwnerOf(s, e)
    BY <1>1, <2>1, AcrossFacts
  <2>3. x.second = <<a, u>>
    BY RefFacts
  <2>4. SideOf(s, e) # NoSide
    <3> HIDE DEF x, e
    <3> QED BY <2>2, <2>3 DEF NoSide
  <2>5. OwnerOf(s, e) = GlobalCell(s, b, i, j) /\ OwnNumber(e) = k
    BY <1>3, <2>4
  <2>6. /\ a = e.block /\ a \in DOMAIN s.blocks /\ u \in Sides
        /\ m \in 0..(SideFaceCount(s.blocks[a], u) - 1)
        /\ e = SideEdge(s, a, u, m)
    BY <1>1, <1>2, <2>2, <2>4, EdgeOnSide
  <2>7a. PICK v : \E w : /\ IsCell(s, a, v, w)
                         /\ OwnerOf(s, SideEdge(s, a, u, m)) = GlobalCell(s, a, v, w)
                         /\ OwnNumber(SideEdge(s, a, u, m)) = SideNumber(u)
                         /\ <<Corners(s.blocks[a], v, w)[SideNumber(u)],
                              Corners(s.blocks[a], v, w)[NextCorner(SideNumber(u))]>> = SideEnds(s, a, u, m)
    <3> HIDE DEF a, u, m
    <3> QED BY <1>1, <2>6, SideCellFacts
  <2>7. PICK w : /\ IsCell(s, a, v, w)
                 /\ OwnerOf(s, SideEdge(s, a, u, m)) = GlobalCell(s, a, v, w)
                 /\ OwnNumber(SideEdge(s, a, u, m)) = SideNumber(u)
                 /\ <<Corners(s.blocks[a], v, w)[SideNumber(u)],
                      Corners(s.blocks[a], v, w)[NextCorner(SideNumber(u))]>> = SideEnds(s, a, u, m)
    BY <2>7a
  <2>8. a = b /\ v = i /\ w = j /\ SideNumber(u) = k
    <3>1. GlobalCell(s, b, i, j) = GlobalCell(s, a, v, w)
      BY <2>5, <2>6, <2>7
    <3>2. b = a /\ i = v /\ j = w
      BY <1>1, <2>7, <3>1, CellCornersFacts
    <3> QED BY <2>5, <2>6, <2>7, <3>2
  <2> DEFINE ends == SideEnds(s, a, u, m)
  <2>9. ends[1] = p /\ ends[2] = q
    <3>1. ends = <<p, q>>
      BY <2>7, <2>8
    <3> HIDE DEF ends, p, q
    <3> QED BY <3>1
  <2>10. /\ EdgeGeometry(s, d).mid2 = Plus(ends[1], ends[2])
         /\ InterfacesFace(s) => EdgeGeometry(s, d).area = Outward(ends[2], ends[1])
    BY <1>1, <2>1, AcrossGeometry
  <2> HIDE DEF ends, e, c
  <2> QED BY <2>2, <2>5, <2>9, <2>10 DEF TouchesAt, c
<1> QED BY <1>4, <1>5

\* Where a face is, it is the face of the edge there.
LEMMA TouchesServes ==
  ASSUME NEW s, Joined(s), CellsAreConvex(s), NEW d, HasFace(s, d), NEW b, NEW i, NEW j, IsCell(s, b, i, j),
         NEW k \in 1..4, TouchesAt(s, d, b, i, j, k)
  PROVE  Serves(s, d, CellEdge(b, i, j, k))
<1> DEFINE c == Corners(s.blocks[b], i, j)
<1>1. Shaped(s) /\ Filled(s) /\ IsEdge(s, d)
  BY JoinedIsFilled DEF Joined, HasFace
<1>2. c \in [1..4 -> Points]
  BY <1>1, CornersArePoints
<1>3. StrictlyConvex(c)
  BY DEF CellsAreConvex, IsCell
<1>4. ASSUME NEW m \in 1..4, TouchesAt(s, d, b, i, j, m) PROVE m = k
  <2>1. Plus(c[m], c[NextCorner(m)]) = Plus(c[k], c[NextCorner(k)])
    BY <1>4 DEF TouchesAt
  <2> HIDE DEF c
  <2> QED BY <1>2, <1>3, <2>1, MidpointsApart
<1>5. CASE OwnerOf(s, d) = GlobalCell(s, b, i, j)
  <2>1a. PICK x : \E y : /\ IsCell(s, d.block, x, y)
                         /\ OwnerOf(s, d) = GlobalCell(s, d.block, x, y)
                         /\ CellEdge(d.block, x, y, OwnNumber(d)) = d
    BY <1>1, OwnerFacts
  <2>1. PICK y : /\ IsCell(s, d.block, x, y)
                 /\ OwnerOf(s, d) = GlobalCell(s, d.block, x, y)
                 /\ CellEdge(d.block, x, y, OwnNumber(d)) = d
    BY <2>1a
  <2>2. d.block = b /\ x = i /\ y = j
    BY <1>1, <1>5, <2>1, CellCornersFacts
  <2>3. OwnNumber(d) \in 1..4 /\ CellEdge(b, i, j, OwnNumber(d)) = d
    BY <2>1, <2>2 DEF OwnNumber
  <2>4. Serves(s, d, CellEdge(b, i, j, OwnNumber(d)))
    BY <2>3 DEF Serves
  <2>5. OwnNumber(d) = k
    BY <1>4, <2>3, <2>4, ServesTouches
  <2> QED BY <2>4, <2>5
<1>6. CASE NeighborOf(s, d) = GlobalCell(s, b, i, j)
  <2>1. GlobalCell(s, b, i, j) # NoCell
    <3>1. GlobalCell(s, b, i, j) \in 1..Len(CellPlaces(s))
      BY <1>1, CellPlacesFacts
    <3> QED BY <3>1 DEF NoCell
  <2>2a. PICK a, x, y : \E m \in 1..4 : /\ IsCell(s, a, x, y)
                                        /\ NeighborOf(s, d) = GlobalCell(s, a, x, y)
                                        /\ Serves(s, d, CellEdge(a, x, y, m))
    BY <1>6, <2>1, NeighborServed
  <2>2. PICK m \in 1..4 : /\ IsCell(s, a, x, y)
                          /\ NeighborOf(s, d) = GlobalCell(s, a, x, y)
                          /\ Serves(s, d, CellEdge(a, x, y, m))
    BY <2>2a
  <2>3. a = b /\ x = i /\ y = j
    BY <1>1, <1>6, <2>2, CellCornersFacts
  <2>4. Serves(s, d, CellEdge(b, i, j, m))
    BY <2>2, <2>3
  <2>5. m = k
    BY <1>4, <2>4, ServesTouches
  <2> QED BY <2>4, <2>5
<1> QED BY <1>5, <1>6 DEF TouchesAt

--------------------------------------------------------------------------------
(* The faces of the mesh.                                                    *)

\* The face with this number is the k-th edge of cell c.
IsEdgeOfCell(s, faces, f, c, k) ==
  LET p == CellCorners(s)[c][k]
      q == CellCorners(s)[c][NextCorner(k)]
  IN  /\ faces[f].mid2 = Plus(p, q)
      /\ \/ faces[f].owner = c /\ faces[f].area = Outward(p, q)
         \/ faces[f].neighbor = c /\ (InterfacesFace(s) => faces[f].area = Outward(q, p))

\* Faces are made for the edges that get one, each for one.
LEMMA FacesFacts ==
  ASSUME NEW s, Shaped(s)
  PROVE  /\ DOMAIN Faces(s) = 1..Len(FaceEdges(s)) /\ Len(FaceEdges(s)) \in Nat
         /\ DOMAIN FaceEdges(s) = 1..Len(FaceEdges(s))
         /\ \A f \in DOMAIN Faces(s) :
               /\ HasFace(s, FaceEdges(s)[f])
               /\ Faces(s)[f] = [ owner    |-> OwnerOf(s, FaceEdges(s)[f]),
                                  neighbor |-> NeighborOf(s, FaceEdges(s)[f]),
                                  mid2     |-> EdgeGeometry(s, FaceEdges(s)[f]).mid2,
                                  area     |-> EdgeGeometry(s, FaceEdges(s)[f]).area ]
         /\ \A e : HasFace(s, e) => \E f \in DOMAIN Faces(s) : FaceEdges(s)[f] = e
         /\ \A f, g \in DOMAIN Faces(s) : FaceEdges(s)[f] = FaceEdges(s)[g] => f = g
<1> DEFINE edges == FaceEdges(s)
<1>1. /\ edges \in Seq(EdgeRecords)
      /\ \A f \in 1..Len(edges) : HasFace(s, edges[f])
      /\ \A e : HasFace(s, e) => \E f \in 1..Len(edges) : edges[f] = e
      /\ \A f, g \in 1..Len(edges) : edges[f] = edges[g] => f = g
  BY FaceEdgesFacts DEF HasFace
<1>2. Faces(s) = [f \in DOMAIN edges |-> [ owner    |-> OwnerOf(s, edges[f]),
                                           neighbor |-> NeighborOf(s, edges[f]),
                                           mid2     |-> EdgeGeometry(s, edges[f]).mid2,
                                           area     |-> EdgeGeometry(s, edges[f]).area ]]
  BY DEF Faces
<1> HIDE DEF edges
<1>3. DOMAIN edges = 1..Len(edges) /\ Len(edges) \in Nat
  BY <1>1
<1>4. DOMAIN Faces(s) = 1..Len(edges)
  BY <1>2, <1>3
<1>5. \A f \in DOMAIN Faces(s) :
         Faces(s)[f] = [ owner    |-> OwnerOf(s, edges[f]),
                         neighbor |-> NeighborOf(s, edges[f]),
                         mid2     |-> EdgeGeometry(s, edges[f]).mid2,
                         area     |-> EdgeGeometry(s, edges[f]).area ]
  BY <1>2, <1>3, <1>4
<1> QED BY <1>1, <1>3, <1>4, <1>5 DEF edges

\* Being an edge of a cell, by number and by place.
LEMMA IsEdgeOfCellIs ==
  ASSUME NEW s, Shaped(s), NEW f \in DOMAIN Faces(s), NEW b, NEW i, NEW j, IsCell(s, b, i, j), NEW k
  PROVE  IsEdgeOfCell(s, Faces(s), f, GlobalCell(s, b, i, j), k) <=> TouchesAt(s, FaceEdges(s)[f], b, i, j, k)
<1>1. CellCorners(s)[GlobalCell(s, b, i, j)] = Corners(s.blocks[b], i, j)
  BY CellCornersFacts
<1>2. /\ Faces(s)[f].owner = OwnerOf(s, FaceEdges(s)[f])
      /\ Faces(s)[f].neighbor = NeighborOf(s, FaceEdges(s)[f])
      /\ Faces(s)[f].mid2 = EdgeGeometry(s, FaceEdges(s)[f]).mid2
      /\ Faces(s)[f].area = EdgeGeometry(s, FaceEdges(s)[f]).area
  BY FacesFacts
<1> QED BY <1>1, <1>2 DEF IsEdgeOfCell, TouchesAt

\* Every edge of every cell is one face.
LEMMA EveryEdgeIsAFace ==
  ASSUME NEW s, Joined(s), CellsAreConvex(s)
  PROVE  \A c \in DOMAIN CellCorners(s) : \A k \in 1..4 :
            \E f \in DOMAIN Faces(s) : {g \in DOMAIN Faces(s) : IsEdgeOfCell(s, Faces(s), g, c, k)} = {f}
<1> TAKE c \in DOMAIN CellCorners(s)
<1> TAKE k \in 1..4
<1>0. Shaped(s)
  BY DEF Joined
<1>1. PICK b, i, j : IsCell(s, b, i, j) /\ c = GlobalCell(s, b, i, j)
  BY <1>0, CellCornersFacts
<1> DEFINE e == CellEdge(b, i, j, k)
<1>2. IsEdge(s, e)
  BY <1>0, <1>1, CellEdgeFacts
<1>3. PICK d : HasFace(s, d) /\ Serves(s, d, e)
  BY <1>2, EdgeIsServed
<1>4. PICK f \in DOMAIN Faces(s) : FaceEdges(s)[f] = d
  BY <1>0, <1>3, FacesFacts
<1>5. IsEdgeOfCell(s, Faces(s), f, c, k)
  <2>1. TouchesAt(s, d, b, i, j, k)
    BY <1>1, <1>3, ServesTouches
  <2> QED BY <1>0, <1>1, <1>4, <2>1, IsEdgeOfCellIs
<1>6. ASSUME NEW g \in DOMAIN Faces(s), IsEdgeOfCell(s, Faces(s), g, c, k) PROVE g = f
  <2> DEFINE x == FaceEdges(s)[g]
  <2>1. HasFace(s, x)
    BY <1>0, FacesFacts
  <2>2. TouchesAt(s, x, b, i, j, k)
    BY <1>0, <1>1, <1>6, IsEdgeOfCellIs
  <2>3. Serves(s, x, e)
    <3> HIDE DEF x
    <3> QED BY <1>1, <2>1, <2>2, TouchesServes
  <2>4. x = d
    <3> HIDE DEF x, e
    <3> QED BY <1>3, <2>1, <2>3, ServedByOne
  <2> QED BY <1>0, <1>4, <2>4, FacesFacts
<1> QED BY <1>5, <1>6

\* Every face is an edge of its cells.
LEMMA EveryFaceIsAnEdge ==
  ASSUME NEW s, Joined(s)
  PROVE  \A f \in DOMAIN Faces(s) :
            /\ Faces(s)[f].owner # NoCell
            /\ \A c \in {Faces(s)[f].owner, Faces(s)[f].neighbor} \ {NoCell} :
                  c \in DOMAIN CellCorners(s) /\ \E k \in 1..4 : IsEdgeOfCell(s, Faces(s), f, c, k)
<1> TAKE f \in DOMAIN Faces(s)
<1> DEFINE e == FaceEdges(s)[f]
<1>0. Shaped(s)
  BY DEF Joined
<1>1. HasFace(s, e) /\ Faces(s)[f].owner = OwnerOf(s, e) /\ Faces(s)[f].neighbor = NeighborOf(s, e)
  BY <1>0, FacesFacts
<1>2. ASSUME NEW b, NEW i, NEW j, NEW k \in 1..4, IsCell(s, b, i, j), Serves(s, e, CellEdge(b, i, j, k))
      PROVE  /\ GlobalCell(s, b, i, j) \in DOMAIN CellCorners(s)
             /\ \E m \in 1..4 : IsEdgeOfCell(s, Faces(s), f, GlobalCell(s, b, i, j), m)
  <2>1. TouchesAt(s, e, b, i, j, k)
    <3> HIDE DEF e
    <3> QED BY <1>1, <1>2, ServesTouches
  <2>2. IsEdgeOfCell(s, Faces(s), f, GlobalCell(s, b, i, j), k)
    BY <1>0, <1>2, <2>1, IsEdgeOfCellIs
  <2>3. GlobalCell(s, b, i, j) \in DOMAIN CellCorners(s)
    BY <1>0, <1>2, CellCornersFacts
  <2> QED BY <2>2, <2>3
<1> HIDE DEF e
<1>3a. PICK i : \E j : /\ IsCell(s, e.block, i, j)
                       /\ OwnerOf(s, e) = GlobalCell(s, e.block, i, j)
                       /\ CellEdge(e.block, i, j, OwnNumber(e)) = e
  BY <1>0, <1>1, OwnerFacts DEF HasFace
<1>3. PICK j : /\ IsCell(s, e.block, i, j)
               /\ OwnerOf(s, e) = GlobalCell(s, e.block, i, j)
               /\ CellEdge(e.block, i, j, OwnNumber(e)) = e
  BY <1>3a
<1>4. OwnNumber(e) \in 1..4 /\ Serves(s, e, CellEdge(e.block, i, j, OwnNumber(e)))
  BY <1>3 DEF OwnNumber, Serves
<1>5. /\ OwnerOf(s, e) \in DOMAIN CellCorners(s)
      /\ \E k \in 1..4 : IsEdgeOfCell(s, Faces(s), f, OwnerOf(s, e), k)
  BY <1>2, <1>3, <1>4
<1>6. NeighborOf(s, e) # NoCell =>
        /\ NeighborOf(s, e) \in DOMAIN CellCorners(s)
        /\ \E k \in 1..4 : IsEdgeOfCell(s, Faces(s), f, NeighborOf(s, e), k)
  BY <1>1, <1>2, NeighborServed
<1>7. OwnerOf(s, e) # NoCell
  <2>1. DOMAIN CellCorners(s) = 1..Len(CellPlaces(s))
    BY <1>0, CellCornersFacts
  <2> QED BY <1>5, <2>1 DEF NoCell
<1> QED BY <1>1, <1>5, <1>6, <1>7

--------------------------------------------------------------------------------
(* The patches.                                                              *)

\* The numbers of the faces of a side, as a patch lists them.
SideFaces(s, ref) ==
  FlattenSeq([ f \in DOMAIN FaceEdges(s) |-> IF SideOf(s, FaceEdges(s)[f]) = ref THEN << f >> ELSE << >> ])

\* They are in increasing order.
LEMMA SideFacesFacts ==
  ASSUME NEW s, Shaped(s), NEW ref
  PROVE  /\ SideFaces(s, ref) \in Seq(DOMAIN Faces(s))
         /\ Increasing(SideFaces(s, ref))
         /\ {SideFaces(s, ref)[n] : n \in 1..Len(SideFaces(s, ref))}
              = {f \in DOMAIN Faces(s) : SideOf(s, FaceEdges(s)[f]) = ref}
<1> DEFINE N == Len(FaceEdges(s))
           S == {f \in DOMAIN Faces(s) : SideOf(s, FaceEdges(s)[f]) = ref}
           F == FlattenSeq([f \in 1..N |-> IF f \in S THEN <<f>> ELSE << >>])
<1>1. DOMAIN Faces(s) = 1..N /\ N \in Nat /\ DOMAIN FaceEdges(s) = 1..N
  BY FacesFacts
<1>2. \A f \in 1..N : f \in S <=> SideOf(s, FaceEdges(s)[f]) = ref
  BY <1>1
<1>3. SideFaces(s, ref) = F
  <2> DEFINE part(f) == IF SideOf(s, FaceEdges(s)[f]) = ref THEN <<f>> ELSE << >>
             same(f) == IF f \in S THEN <<f>> ELSE << >>
  <2>1. \A f \in 1..N : part(f) = same(f)
    BY <1>2
  <2>2. SideFaces(s, ref) = FlattenSeq([f \in 1..N |-> part(f)])
    BY <1>1 DEF SideFaces
  <2>3. [f \in 1..N |-> part(f)] = [f \in 1..N |-> same(f)]
    <3> HIDE DEF part, same
    <3> QED BY <2>1
  <2> QED BY <2>2, <2>3
<1>4. F \in Seq(1..N) /\ Increasing(F) /\ {F[n] : n \in 1..Len(F)} = S \cap (1..N)
  <2> HIDE DEF S, N
  <2> QED BY <1>1, FlattenSelection
<1>5. S \cap (1..N) = S
  BY <1>1
<1> HIDE DEF F
<1> QED BY <1>1, <1>3, <1>4, <1>5

\* The faces of a patch, each in one place.
LEMMA PatchFacts ==
  ASSUME NEW s, Joined(s), NEW p \in DOMAIN s.patches
  PROVE  /\ Patches(s)[p] \in Seq(DOMAIN Faces(s))
         /\ \A n \in 1..Len(Patches(s)[p]) : \E m \in DOMAIN s.patches[p] :
               SideOf(s, FaceEdges(s)[Patches(s)[p][n]]) = s.patches[p][m]
         /\ \A f \in DOMAIN Faces(s) : \A m \in DOMAIN s.patches[p] :
               SideOf(s, FaceEdges(s)[f]) = s.patches[p][m] =>
                  \E n \in 1..Len(Patches(s)[p]) :
                     {k \in 1..Len(Patches(s)[p]) : Patches(s)[p][k] = f} = {n}
<1> DEFINE T == DOMAIN Faces(s)
           refs == s.patches[p]
           seqs == [m \in DOMAIN refs |-> SideFaces(s, refs[m])]
           F == FlattenSeq(seqs)
<1>0. Shaped(s)
  BY DEF Joined
<1>1. refs \in Seq(SideRefs) /\ DOMAIN refs = 1..Len(refs) /\ Len(refs) \in Nat
  <2>1. refs \in Seq(SideRefs)
    BY RefFacts
  <2> HIDE DEF refs
  <2> QED BY <2>1
<1>2. Patches(s)[p] = F
  BY DEF Patches, SideFaces
<1>3. \A m \in 1..Len(refs) : SideFaces(s, refs[m]) \in Seq(T)
  BY <1>0, SideFacesFacts
<1>4. /\ seqs \in Seq(Seq(T)) /\ Len(seqs) = Len(refs)
      /\ \A m \in 1..Len(refs) : seqs[m] = SideFaces(s, refs[m])
  <2> HIDE DEF T, refs
  <2> QED BY <1>1, <1>3
<1>m. \A m \in 1..Len(refs) : {seqs[m][n] : n \in 1..Len(seqs[m])} = {f \in T : SideOf(s, FaceEdges(s)[f]) = refs[m]}
  <2> TAKE m \in 1..Len(refs)
  <2>1. seqs[m] = SideFaces(s, refs[m])
    BY <1>4
  <2> HIDE DEF seqs, refs
  <2> QED BY <1>0, <2>1, SideFacesFacts
<1>i. \A m \in 1..Len(refs) : Increasing(seqs[m])
  <2> TAKE m \in 1..Len(refs)
  <2>1. seqs[m] = SideFaces(s, refs[m])
    BY <1>4
  <2> HIDE DEF seqs, refs
  <2> QED BY <1>0, <2>1, SideFacesFacts
<1>t. T \in SUBSET Nat
  BY <1>0, FacesFacts
<1>u. \A m, n \in 1..Len(refs) : refs[m] = refs[n] => m = n
  BY <1>1, UsedOnce
<1> HIDE DEF refs, seqs, T
<1>5. F \in Seq(T)
  BY <1>4, FlattenFacts
<1>6. ASSUME NEW n \in 1..Len(F) PROVE \E m \in DOMAIN refs : SideOf(s, FaceEdges(s)[F[n]]) = refs[m]
  <2>1. PICK m \in 1..Len(seqs) : \E j \in 1..Len(seqs[m]) : F[n] = seqs[m][j]
    BY <1>4, FlattenOnto
  <2>2. F[n] \in {seqs[m][j] : j \in 1..Len(seqs[m])}
    BY <2>1
  <2> HIDE DEF F
  <2>3. F[n] \in {f \in T : SideOf(s, FaceEdges(s)[f]) = refs[m]}
    BY <1>4, <1>m, <2>2
  <2> QED BY <1>1, <1>4, <2>1, <2>3
<1>7. ASSUME NEW f \in T, NEW m \in DOMAIN refs, SideOf(s, FaceEdges(s)[f]) = refs[m]
      PROVE  \E n \in 1..Len(F) : {k \in 1..Len(F) : F[k] = f} = {n}
  <2>1. m \in 1..Len(seqs) /\ f \in {seqs[m][j] : j \in 1..Len(seqs[m])}
    BY <1>1, <1>4, <1>m, <1>7
  <2>2. PICK j \in 1..Len(seqs[m]) : seqs[m][j] = f
    BY <2>1
  <2>3. ASSUME NEW c \in 1..Len(seqs), NEW k \in 1..Len(seqs[c]), seqs[c][k] = f
        PROVE  c = m /\ k = j
    <3>1. f \in {seqs[c][l] : l \in 1..Len(seqs[c])}
      BY <2>3
    <3>2. SideOf(s, FaceEdges(s)[f]) = refs[c]
      BY <1>4, <1>m, <3>1
    <3>3. c = m
      BY <1>1, <1>4, <1>7, <1>u, <3>2
    <3>4. k = j
      <4> DEFINE w == seqs[m]
      <4>1. Increasing(w) /\ w \in Seq(T)
        BY <1>4, <1>i, <2>1
      <4>2. k \in 1..Len(w) /\ j \in 1..Len(w) /\ w[k] = w[j]
        BY <2>2, <2>3, <3>3
      <4> HIDE DEF w
      <4>3. Len(w) \in Nat /\ w[k] \in Nat
        <5>1. Len(w) \in Nat /\ w[k] \in T
          BY <4>1, <4>2
        <5> QED BY <1>t, <5>1
      <4>4. k < j \/ j < k \/ k = j
        BY <4>2, <4>3
      <4>5. ~(w[k] < w[j]) /\ ~(w[j] < w[k])
        BY <4>2, <4>3
      <4> QED BY <4>1, <4>2, <4>4, <4>5 DEF Increasing
    <3> QED BY <3>3, <3>4
  <2>4. IsOnceIn(f, seqs)
    BY <2>1, <2>2, <2>3 DEF IsOnceIn
  <2> QED BY <1>4, <2>4, FlattenOnce
<1> QED BY <1>2, <1>5, <1>6, <1>7 DEF T, refs

\* How often a face is in a patch: once if it has no neighbour, and not at all otherwise.
LEMMA PatchCounts ==
  ASSUME NEW s, Joined(s), NEW m, m.patches = Patches(s), NEW f \in DOMAIN Faces(s)
  PROVE  PatchCount(m, f) = IF Faces(s)[f].neighbor = NoCell THEN 1 ELSE 0
<1> DEFINE e == FaceEdges(s)[f]
           P == DOMAIN s.patches
           places(p) == {k \in DOMAIN m.patches[p] : m.patches[p][k] = f}
           entries == UNION {{<<p, n>> : n \in {k \in DOMAIN m.patches[p] : m.patches[p][k] = f}} :
                               p \in DOMAIN m.patches}
<1>0. Shaped(s)
  BY DEF Joined
<1>1. HasFace(s, e) /\ Faces(s)[f].neighbor = NeighborOf(s, e)
  BY <1>0, FacesFacts
<1>2. DOMAIN m.patches = P /\ \A p \in P : m.patches[p] = Patches(s)[p]
  BY DEF Patches
<1>3. \A p \in P : DOMAIN m.patches[p] = 1..Len(Patches(s)[p])
  <2> TAKE p \in P
  <2> DEFINE w == Patches(s)[p]
  <2>1. w \in Seq(DOMAIN Faces(s))
    BY PatchFacts
  <2> HIDE DEF w
  <2>2. DOMAIN w = 1..Len(w)
    BY <2>1
  <2> QED BY <1>2, <2>2 DEF w
<1>4. PatchCount(m, f) = Cardinality(entries)
  BY DEF PatchCount
<1>5. \A p \in P : places(p) = {k \in 1..Len(Patches(s)[p]) : Patches(s)[p][k] = f}
  BY <1>2, <1>3
<1>6. entries = UNION {{<<p, n>> : n \in places(p)} : p \in P}
  BY <1>2
<1>7. ASSUME NEW p \in P, places(p) # {} PROVE \E k \in DOMAIN s.patches[p] : SideOf(s, e) = s.patches[p][k]
  <2>1. PICK n \in 1..Len(Patches(s)[p]) : Patches(s)[p][n] = f
    BY <1>5, <1>7
  <2> QED BY <2>1, PatchFacts
<1>8. ASSUME NEW p \in P, NEW k \in DOMAIN s.patches[p], SideOf(s, e) = s.patches[p][k]
      PROVE  \E n : places(p) = {n}
  <2>1. \E n \in 1..Len(Patches(s)[p]) : {l \in 1..Len(Patches(s)[p]) : Patches(s)[p][l] = f} = {n}
    BY <1>8, PatchFacts
  <2> QED BY <1>5, <2>1
<1> HIDE DEF places, entries, e
<1>9. CASE Faces(s)[f].neighbor = NoCell
  <2>1. IsEdge(s, e) /\ SideOf(s, e) # NoSide /\ ~IsFirst(s, SideOf(s, e)) /\ ~IsSecond(s, SideOf(s, e))
    BY <1>1, <1>9, NeighborServed DEF HasFace
  <2>2. SideOf(s, e) = <<e.block, SideOf(s, e)[2]>> /\ e.block \in DOMAIN s.blocks /\ SideOf(s, e)[2] \in Sides
    BY <1>0, <2>1, EdgeOnSide
  <2>3a. PICK p \in P : \E n \in DOMAIN s.patches[p] : s.patches[p][n] = SideOf(s, e)
    <3>1. IsNamed(s, <<e.block, SideOf(s, e)[2]>>)
      BY <2>2, UsedOnce
    <3>2. IsNamed(s, SideOf(s, e))
      BY <2>2, <3>1
    <3> QED BY <2>1, <3>2 DEF IsNamed
  <2>3. PICK k \in DOMAIN s.patches[p] : s.patches[p][k] = SideOf(s, e)
    BY <2>3a
  <2>4. PICK n : places(p) = {n}
    BY <1>8, <2>3
  <2>5. ASSUME NEW r \in P, r # p PROVE places(r) = {}
    <3> SUFFICES ASSUME places(r) # {} PROVE FALSE
      OBVIOUS
    <3>1. PICK l \in DOMAIN s.patches[r] : SideOf(s, e) = s.patches[r][l]
      BY <1>7
    <3> QED BY <2>3, <2>5, <3>1, UsedOnce
  <2>6. entries = {<<p, n>>}
    BY <1>6, <2>4, <2>5
  <2>7. Cardinality({<<p, n>>}) = 1
    BY FS_Singleton
  <2> QED BY <1>4, <1>9, <2>6, <2>7
<1>10. CASE Faces(s)[f].neighbor # NoCell
  <2>1. SideOf(s, e) = NoSide \/ IsFirst(s, SideOf(s, e))
    BY <1>1, <1>10, NeighborServed
  <2>2. ASSUME NEW p \in P PROVE places(p) = {}
    <3> SUFFICES ASSUME places(p) # {} PROVE FALSE
      OBVIOUS
    <3>1. PICK k \in DOMAIN s.patches[p] : SideOf(s, e) = s.patches[p][k]
      BY <1>7
    <3>2. SideOf(s, e) # NoSide
      <4> DEFINE ref == s.patches[p][k]
      <4>1. ref = <<ref[1], ref[2]>>
        BY RefFacts
      <4> HIDE DEF ref
      <4> QED BY <3>1, <4>1 DEF ref, NoSide
    <3>3. PICK n \in DOMAIN s.interfaces : s.interfaces[n].first = SideOf(s, e)
      BY <2>1, <3>2 DEF IsFirst
    <3> QED BY <3>1, <3>3, UsedOnce
  <2>3. entries = {}
    BY <1>6, <2>2
  <2>4. Cardinality({}) = 0
    BY FS_EmptySet
  <2> QED BY <1>4, <1>10, <2>3, <2>4
<1> QED BY <1>9, <1>10

\* The faces of a patch are those of its sides.
LEMMA PatchMids ==
  ASSUME NEW s, Joined(s), NEW p \in DOMAIN s.patches
  PROVE  { Faces(s)[f].mid2 : f \in ToSet(Patches(s)[p]) }
           = UNION { { Plus(SideVertex(s.blocks[ref[1]], ref[2], k - 1), SideVertex(s.blocks[ref[1]], ref[2], k)) :
                         k \in 1..SideFaceCount(s.blocks[ref[1]], ref[2]) } : ref \in ToSet(s.patches[p]) }
<1> DEFINE w == Patches(s)[p]
           refs == s.patches[p]
           V(ref, k) == SideVertex(s.blocks[ref[1]], ref[2], k)
           mids(ref) == { Plus(V(ref, k - 1), V(ref, k)) : k \in 1..SideFaceCount(s.blocks[ref[1]], ref[2]) }
<1>0. Shaped(s) /\ Filled(s)
  BY JoinedIsFilled DEF Joined
<1>1. \A f : f \in ToSet(w) <=> f \in DOMAIN Faces(s) /\ \E m \in DOMAIN refs : SideOf(s, FaceEdges(s)[f]) = refs[m]
  <2>1. w \in Seq(DOMAIN Faces(s))
    BY PatchFacts
  <2>2. /\ \A n \in 1..Len(w) : \E m \in DOMAIN refs : SideOf(s, FaceEdges(s)[w[n]]) = refs[m]
        /\ \A f \in DOMAIN Faces(s) : \A m \in DOMAIN refs :
              SideOf(s, FaceEdges(s)[f]) = refs[m] =>
                 \E n \in 1..Len(w) : {k \in 1..Len(w) : w[k] = f} = {n}
    BY PatchFacts
  <2> HIDE DEF w, refs
  <2>3. ToSet(w) = {w[n] : n \in 1..Len(w)} /\ \A n \in 1..Len(w) : w[n] \in DOMAIN Faces(s)
    BY <2>1 DEF ToSet
  <2>4. \A f \in DOMAIN Faces(s) : (\E n \in 1..Len(w) : {k \in 1..Len(w) : w[k] = f} = {n}) => f \in ToSet(w)
    BY <2>3
  <2> QED BY <2>2, <2>3, <2>4
<1>2. \A m \in DOMAIN refs : /\ refs[m] = <<refs[m][1], refs[m][2]>>
                             /\ refs[m][1] \in DOMAIN s.blocks /\ refs[m][2] \in Sides
  BY RefFacts
<1>3. ASSUME NEW m \in DOMAIN refs
      PROVE  ~IsSecond(s, refs[m])
  BY UsedOnce DEF IsSecond
<1>4. ASSUME NEW b \in DOMAIN s.blocks, NEW t \in Sides
      PROVE  \A n \in 0..(SideFaceCount(s.blocks[b], t) - 1) :
                EdgeGeometry(s, SideEdge(s, b, t, n)).mid2
                  = Plus(SideVertex(s.blocks[b], t, n), SideVertex(s.blocks[b], t, n + 1))
  <2> TAKE n \in 0..(SideFaceCount(s.blocks[b], t) - 1)
  <2> DEFINE q == SideEnds(s, b, t, n)
  <2>1. /\ EdgeGeometry(s, SideEdge(s, b, t, n)).mid2 = Plus(q[1], q[2])
        /\ q[1] \in Points /\ q[2] \in Points
    BY <1>0, SideEdgeGeometry
  <2>2. Plus(q[1], q[2]) = Plus(q[2], q[1])
    <3> HIDE DEF q
    <3>1. q[1][1] \in Int /\ q[1][2] \in Int /\ q[2][1] \in Int /\ q[2][2] \in Int
      BY <2>1 DEF Points
    <3> QED BY <3>1 DEF Plus
  <2>3. \/ q[1] = SideVertex(s.blocks[b], t, n) /\ q[2] = SideVertex(s.blocks[b], t, n + 1)
        \/ q[2] = SideVertex(s.blocks[b], t, n) /\ q[1] = SideVertex(s.blocks[b], t, n + 1)
    BY DEF SideEnds
  <2> HIDE DEF q
  <2> QED BY <2>1, <2>2, <2>3
<1>5. \A b \in DOMAIN s.blocks, t \in Sides : SideFaceCount(s.blocks[b], t) \in Nat
  BY <1>0, ShapedFacts DEF SideFaceCount
<1> HIDE DEF w, refs
<1>6. ASSUME NEW f \in ToSet(w) PROVE \E ref \in ToSet(refs) : Faces(s)[f].mid2 \in mids(ref)
  <2> DEFINE e == FaceEdges(s)[f]
  <2>1. PICK m \in DOMAIN refs : SideOf(s, e) = refs[m]
    BY <1>1
  <2>2. HasFace(s, e) /\ Faces(s)[f].mid2 = EdgeGeometry(s, e).mid2
    BY <1>0, <1>1, FacesFacts
  <2> DEFINE b == refs[m][1]
             t == refs[m][2]
             n == AlongSide(e)
  <2>3. SideOf(s, e) # NoSide
    <3>1. SideOf(s, e) = <<b, t>>
      BY <1>2, <2>1
    <3> HIDE DEF e
    <3> QED BY <3>1 DEF NoSide
  <2>4. /\ n \in 0..(SideFaceCount(s.blocks[b], t) - 1) /\ e = SideEdge(s, b, t, n)
        /\ b \in DOMAIN s.blocks /\ t \in Sides
    <3>1. /\ e.block = SideOf(s, e)[1]
          /\ AlongSide(e) \in 0..(SideFaceCount(s.blocks[e.block], SideOf(s, e)[2]) - 1)
          /\ e = SideEdge(s, e.block, SideOf(s, e)[2], AlongSide(e))
      BY <1>0, <2>2, <2>3, EdgeOnSide DEF HasFace
    <3> HIDE DEF e
    <3> QED BY <1>2, <2>1, <3>1
  <2>5. EdgeGeometry(s, e).mid2 = Plus(V(refs[m], n), V(refs[m], n + 1))
    <3> HIDE DEF e, n
    <3>1. EdgeGeometry(s, SideEdge(s, b, t, n)).mid2
            = Plus(SideVertex(s.blocks[b], t, n), SideVertex(s.blocks[b], t, n + 1))
      BY <1>4, <2>4
    <3> QED BY <2>4, <3>1
  <2>6. n + 1 \in 1..SideFaceCount(s.blocks[b], t) /\ (n + 1) - 1 = n
    <3>1. SideFaceCount(s.blocks[b], t) \in Nat
      BY <1>5, <2>4
    <3> HIDE DEF n, b, t
    <3> QED BY <2>4, <3>1
  <2> HIDE DEF e, n
  <2>7. Faces(s)[f].mid2 \in mids(refs[m])
    <3>1. Faces(s)[f].mid2 = Plus(V(refs[m], (n + 1) - 1), V(refs[m], n + 1))
      BY <2>2, <2>5, <2>6
    <3> HIDE DEF V
    <3> QED BY <2>6, <3>1
  <2> HIDE DEF mids
  <2> QED BY <2>7 DEF ToSet
<1>7. ASSUME NEW ref \in ToSet(refs), NEW v \in mids(ref) PROVE \E f \in ToSet(w) : v = Faces(s)[f].mid2
  <2>1. PICK m \in DOMAIN refs : ref = refs[m]
    BY DEF ToSet
  <2>2. PICK k \in 1..SideFaceCount(s.blocks[ref[1]], ref[2]) : v = Plus(V(ref, k - 1), V(ref, k))
    OBVIOUS
  <2> DEFINE b == ref[1]
             t == ref[2]
             e == SideEdge(s, b, t, k - 1)
  <2>3. ref = <<b, t>> /\ b \in DOMAIN s.blocks /\ t \in Sides /\ ~IsSecond(s, ref)
    BY <1>2, <1>3, <2>1
  <2>4. k - 1 \in 0..(SideFaceCount(s.blocks[b], t) - 1) /\ (k - 1) + 1 = k
    <3>1. SideFaceCount(s.blocks[b], t) \in Nat
      BY <1>5, <2>3
    <3> QED BY <2>2, <3>1
  <2>5. IsPlaced(s, b, t, k - 1)
    <3> HIDE DEF b, t
    <3> QED BY <1>0, <2>3, <2>4, SideEdgeFacts
  <2>6. IsEdge(s, e) /\ SideOf(s, e) = ref
    BY <2>3, <2>5 DEF IsPlaced
  <2>7. EdgeGeometry(s, e).mid2 = Plus(V(ref, k - 1), V(ref, k))
    <3> DEFINE l == k - 1
    <3>0. l \in 0..(SideFaceCount(s.blocks[b], t) - 1) /\ l + 1 = k
      BY <2>4
    <3> HIDE DEF l, b, t
    <3>1. EdgeGeometry(s, SideEdge(s, b, t, l)).mid2
            = Plus(SideVertex(s.blocks[b], t, l), SideVertex(s.blocks[b], t, l + 1))
      BY <1>4, <2>3, <3>0
    <3> QED BY <3>0, <3>1 DEF l, b, t
  <2> HIDE DEF e, V
  <2>8. HasFace(s, e)
    BY <2>3, <2>6 DEF HasFace
  <2>9. PICK f \in DOMAIN Faces(s) : FaceEdges(s)[f] = e
    BY <1>0, <2>8, FacesFacts
  <2>10. Faces(s)[f].mid2 = EdgeGeometry(s, e).mid2
    BY <1>0, <2>9, FacesFacts
  <2>11. f \in ToSet(w)
    BY <1>1, <2>1, <2>6, <2>9
  <2> QED BY <2>2, <2>7, <2>10, <2>11
<1>8. { Faces(s)[f].mid2 : f \in ToSet(w) } = UNION { mids(ref) : ref \in ToSet(refs) }
  <2> HIDE DEF mids
  <2> QED BY <1>6, <1>7
<1> QED BY <1>8 DEF w, refs

--------------------------------------------------------------------------------
(* One block with the four usual patches.                                    *)

\* A block's edges by their numbers.
EdgesAreNumbered(E, b, nx, ny) ==
  LET p == ny * (nx + 1)
      q == (ny + 1) * nx
  IN  /\ p \in Nat /\ q \in Nat
      /\ DOMAIN E = 1..(p + q)
      /\ \A n \in 1..p :
            /\ E[n] = Edge(b, "vertical", (n - 1) % (nx + 1), (n - 1) \div (nx + 1))
            /\ (n - 1) % (nx + 1) \in 0..nx /\ (n - 1) \div (nx + 1) \in 0..(ny - 1)
      /\ \A n \in 1..q :
            /\ E[p + n] = Edge(b, "horizontal", (n - 1) % nx, (n - 1) \div nx)
            /\ (n - 1) % nx \in 0..(nx - 1) /\ (n - 1) \div nx \in 0..ny
      /\ \A i \in 0..nx, j \in 0..(ny - 1) :
            /\ j * (nx + 1) + i + 1 \in 1..p
            /\ E[j * (nx + 1) + i + 1] = Edge(b, "vertical", i, j)
      /\ \A i \in 0..(nx - 1), j \in 0..ny :
            /\ j * nx + i + 1 \in 1..q
            /\ E[p + (j * nx + i + 1)] = Edge(b, "horizontal", i, j)

\* A block's edges have the numbers of their faces within the block.
LEMMA BlockEdgeAt ==
  ASSUME NEW s, Shaped(s), NEW b \in DOMAIN s.blocks
  PROVE  EdgesAreNumbered(BlockEdges(s, b), b, s.blocks[b].nx, s.blocks[b].ny)
<1> DEFINE nx == s.blocks[b].nx
           ny == s.blocks[b].ny
           p == ny * (nx + 1)
           q == (ny + 1) * nx
           V == [n \in 1..p |-> Edge(b, "vertical", (n - 1) % (nx + 1), (n - 1) \div (nx + 1))]
           H == [n \in 1..q |-> Edge(b, "horizontal", (n - 1) % nx, (n - 1) \div nx)]
           E == BlockEdges(s, b)
<1>1. nx \in Nat /\ ny \in Nat /\ nx > 0 /\ ny > 0 /\ b \in Nat
  BY ShapedFacts
<1>2. E = V \o H
  BY DEF BlockEdges, Edge
<1> HIDE DEF nx, ny, E
<1>3. p \in Nat /\ q \in Nat /\ nx + 1 \in Nat /\ nx + 1 > 0 /\ ny + 1 \in Nat
  BY <1>1
<1>4. /\ \A n \in 1..p : V[n] = Edge(b, "vertical", (n - 1) % (nx + 1), (n - 1) \div (nx + 1))
      /\ \A n \in 1..q : H[n] = Edge(b, "horizontal", (n - 1) % nx, (n - 1) \div nx)
  OBVIOUS
<1>5. /\ DOMAIN E = 1..(p + q)
      /\ \A n \in 1..p : E[n] = V[n]
      /\ \A n \in 1..q : E[p + n] = H[n]
  <2> DEFINE T == {V[n] : n \in 1..p} \cup {H[n] : n \in 1..q}
  <2>1. V \in Seq(T) /\ Len(V) = p
    <3>1. V = [n \in 1..p |-> V[n]] /\ \A n \in 1..p : V[n] \in T
      OBVIOUS
    <3> HIDE DEF V, T, p
    <3> QED BY <1>3, <3>1, IsSequence
  <2>2. H \in Seq(T) /\ Len(H) = q
    <3>1. H = [n \in 1..q |-> H[n]] /\ \A n \in 1..q : H[n] \in T
      OBVIOUS
    <3> HIDE DEF H, T, q
    <3> QED BY <1>3, <3>1, IsSequence
  <2> HIDE DEF V, H, T, p, q
  <2>3. Len(V \o H) = p + q /\ DOMAIN (V \o H) = 1..(p + q)
    BY <2>1, <2>2
  <2>4. \A n \in 1..p : (V \o H)[n] = V[n]
    BY <1>3, <2>1, <2>2
  <2>5. \A n \in 1..q : (V \o H)[p + n] = H[n]
    BY <1>3, <2>1, <2>2
  <2> QED BY <1>2, <2>3, <2>4, <2>5
<1>6. ASSUME NEW n \in 1..p
      PROVE  (n - 1) % (nx + 1) \in 0..nx /\ (n - 1) \div (nx + 1) \in 0..(ny - 1)
  <2> DEFINE w == nx + 1
  <2>1. w \in Nat /\ w > 0 /\ n \in 1..(w * ny)
    BY <1>1, <1>3
  <2> HIDE DEF w
  <2>2. (n - 1) % w \in 0..(w - 1) /\ (n - 1) \div w \in 0..(ny - 1)
    BY <1>1, <2>1, CellIndex
  <2>3. w - 1 = nx
    BY <1>1 DEF w
  <2> QED BY <2>2, <2>3 DEF w
<1>7. ASSUME NEW n \in 1..q
      PROVE  (n - 1) % nx \in 0..(nx - 1) /\ (n - 1) \div nx \in 0..ny
  <2> DEFINE w == ny + 1
  <2>1. w \in Nat /\ n \in 1..(nx * w)
    BY <1>1, <1>3
  <2>3. w - 1 = ny
    BY <1>1
  <2> HIDE DEF w
  <2>2. (n - 1) % nx \in 0..(nx - 1) /\ (n - 1) \div nx \in 0..(w - 1)
    BY <1>1, <2>1, CellIndex
  <2> QED BY <2>2, <2>3
<1>8. ASSUME NEW i \in 0..nx, NEW j \in 0..(ny - 1)
      PROVE  /\ j * (nx + 1) + i + 1 \in 1..p
             /\ E[j * (nx + 1) + i + 1] = Edge(b, "vertical", i, j)
  <2> DEFINE w == nx + 1
             c == j * w + i + 1
  <2>1. w \in Nat /\ w > 0 /\ i \in 0..(w - 1) /\ j \in Nat
    BY <1>1
  <2>2. w * ny = p
    BY <1>1
  <2> HIDE DEF w
  <2>3. c \in 1..(w * ny)
    BY <1>1, <2>1, RowPlace
  <2>4. (j * w + i) % w = i /\ (j * w + i) \div w = j
    BY <2>1, RowColumn
  <2>5. c - 1 = j * w + i
    <3>1. j * w \in Int /\ i \in Int
      BY <2>1
    <3> QED BY <3>1
  <2> HIDE DEF c, V, p
  <2>6. c \in 1..p /\ E[c] = Edge(b, "vertical", (c - 1) % w, (c - 1) \div w)
    BY <1>4, <1>5, <2>2, <2>3 DEF w
  <2>7. E[c] = Edge(b, "vertical", i, j)
    BY <2>4, <2>5, <2>6
  <2> QED BY <2>6, <2>7 DEF c, w
<1>9. ASSUME NEW i \in 0..(nx - 1), NEW j \in 0..ny
      PROVE  /\ j * nx + i + 1 \in 1..q
             /\ E[p + (j * nx + i + 1)] = Edge(b, "horizontal", i, j)
  <2> DEFINE w == ny + 1
             c == j * nx + i + 1
  <2>1. w \in Nat /\ j \in 0..(w - 1) /\ j \in Nat
    BY <1>1
  <2>2. nx * w = q
    BY <1>1
  <2> HIDE DEF w
  <2>3. c \in 1..(nx * w)
    BY <1>1, <2>1, RowPlace
  <2>4. (j * nx + i) % nx = i /\ (j * nx + i) \div nx = j
    BY <1>1, <2>1, RowColumn
  <2>5. c - 1 = j * nx + i
    <3>1. j * nx \in Int /\ i \in Int
      BY <1>1, <2>1
    <3> QED BY <3>1
  <2> HIDE DEF c, H, p, q
  <2>6. c \in 1..q /\ E[p + c] = Edge(b, "horizontal", (c - 1) % nx, (c - 1) \div nx)
    BY <1>4, <1>5, <2>2, <2>3
  <2>7. E[p + c] = Edge(b, "horizontal", i, j)
    BY <2>4, <2>5, <2>6
  <2> QED BY <2>6, <2>7 DEF c
<1> HIDE DEF V, H
<1>10. /\ \A n \in 1..p :
             /\ E[n] = Edge(b, "vertical", (n - 1) % (nx + 1), (n - 1) \div (nx + 1))
             /\ (n - 1) % (nx + 1) \in 0..nx /\ (n - 1) \div (nx + 1) \in 0..(ny - 1)
       /\ \A n \in 1..q :
             /\ E[p + n] = Edge(b, "horizontal", (n - 1) % nx, (n - 1) \div nx)
             /\ (n - 1) % nx \in 0..(nx - 1) /\ (n - 1) \div nx \in 0..ny
  <2> HIDE DEF p, q
  <2> QED BY <1>4, <1>5, <1>6, <1>7
<1>11. EdgesAreNumbered(E, b, nx, ny)
  BY <1>3, <1>5, <1>8, <1>9, <1>10 DEF EdgesAreNumbered
<1> QED BY <1>11 DEF nx, ny, E

\* Sequences over a subset.
LEMMA SeqOfSubset ==
  ASSUME NEW D, NEW T, D \subseteq T
  PROVE  Seq(D) \subseteq Seq(T)
<1> SUFFICES ASSUME NEW w \in Seq(D) PROVE w \in Seq(T)
  OBVIOUS
<1>1. Len(w) \in Nat /\ w = [k \in 1..Len(w) |-> w[k]] /\ \A k \in 1..Len(w) : w[k] \in D
  OBVIOUS
<1>2. \A k \in 1..Len(w) : w[k] \in T
  BY <1>1
<1> QED BY <1>1, <1>2, IsSequence

\* The list of a side's faces, if their numbers increase along the side.
LEMMA SideFacesAre ==
  ASSUME NEW s, Shaped(s), NEW b \in DOMAIN s.blocks, NEW side \in Sides,
         NEW w \in Seq(DOMAIN Faces(s)), Increasing(w), Len(w) = SideFaceCount(s.blocks[b], side),
         \A k \in 1..Len(w) : FaceEdges(s)[w[k]] = SideEdge(s, b, side, k - 1)
  PROVE  SideFaces(s, <<b, side>>) = w
<1> DEFINE ref == <<b, side>>
           v == SideFaces(s, ref)
           F == SideFaceCount(s.blocks[b], side)
<1>1. /\ v \in Seq(DOMAIN Faces(s)) /\ Increasing(v)
      /\ {v[n] : n \in 1..Len(v)} = {f \in DOMAIN Faces(s) : SideOf(s, FaceEdges(s)[f]) = ref}
  <2> HIDE DEF ref
  <2> QED BY SideFacesFacts
<1>2. Len(w) \in Nat /\ \A k \in 1..Len(w) : w[k] \in DOMAIN Faces(s)
  OBVIOUS
<1>r. ref[1] = b /\ ref[2] = side
  OBVIOUS
<1>n. ref # NoSide
  BY DEF NoSide
<1>3. \A k \in 1..Len(w) : SideOf(s, FaceEdges(s)[w[k]]) = ref
  <2> TAKE k \in 1..Len(w)
  <2> DEFINE l == k - 1
  <2>1. l \in 0..(F - 1)
    BY <1>2
  <2> HIDE DEF l
  <2>2. IsPlaced(s, b, side, l)
    BY <2>1, SideEdgeFacts
  <2>3. SideOf(s, SideEdge(s, b, side, l)) = ref
    BY <2>2 DEF IsPlaced
  <2>4. FaceEdges(s)[w[k]] = SideEdge(s, b, side, l)
    BY DEF l
  <2> HIDE DEF ref
  <2> QED BY <2>3, <2>4
<1> HIDE DEF v, ref
<1>4. ASSUME NEW f \in DOMAIN Faces(s), SideOf(s, FaceEdges(s)[f]) = ref
      PROVE  \E k \in 1..Len(w) : w[k] = f
  <2> DEFINE e == FaceEdges(s)[f]
             n == AlongSide(e)
  <2>1. IsEdge(s, e)
    BY FacesFacts DEF HasFace
  <2> HIDE DEF e
  <2>2. n \in 0..(F - 1) /\ e = SideEdge(s, b, side, n)
    <3>1. SideOf(s, e) = ref
      BY <1>4 DEF e
    <3> QED BY <1>r, <1>n, <2>1, <3>1, EdgeOnSide
  <2> HIDE DEF n
  <2>3. n + 1 \in 1..Len(w) /\ (n + 1) - 1 = n
    BY <1>2, <2>2
  <2>4. FaceEdges(s)[w[n + 1]] = FaceEdges(s)[f]
    <3>1. FaceEdges(s)[w[n + 1]] = SideEdge(s, b, side, (n + 1) - 1)
      BY <2>3
    <3> QED BY <2>2, <2>3, <3>1 DEF e
  <2>5. w[n + 1] = f
    BY <1>2, <2>3, <2>4, FacesFacts
  <2> QED BY <2>3, <2>5
<1>5. {w[n] : n \in 1..Len(w)} = {v[n] : n \in 1..Len(v)}
  <2> DEFINE S == {f \in DOMAIN Faces(s) : SideOf(s, FaceEdges(s)[f]) = ref}
             W == {w[n] : n \in 1..Len(w)}
  <2>1. ASSUME NEW x \in W PROVE x \in S
    <3>1. PICK k \in 1..Len(w) : x = w[k]
      OBVIOUS
    <3> QED BY <1>2, <1>3, <3>1
  <2>2. ASSUME NEW x \in S PROVE x \in W
    <3>1. \E k \in 1..Len(w) : w[k] = x
      BY <1>4
    <3> QED BY <3>1
  <2>3. W = S
    BY <2>1, <2>2
  <2> QED BY <1>1, <2>3
<1>6. w \in Seq(Nat) /\ v \in Seq(Nat)
  <2> DEFINE D == DOMAIN Faces(s)
  <2>1. D \subseteq Nat
    BY FacesFacts
  <2>2. w \in Seq(D) /\ v \in Seq(D)
    BY <1>1
  <2> HIDE DEF D
  <2>3. Seq(D) \subseteq Seq(Nat)
    BY <2>1, SeqOfSubset
  <2> QED BY <2>2, <2>3
<1>7. v = w
  BY <1>1, <1>5, <1>6, IncreasingUnique
<1> QED BY <1>7 DEF v, ref

\* One block that is joined to nothing and has the four usual patches.
IsOneBlock(s) ==
  /\ Filled(s)
  /\ Len(s.blocks) = 1
  /\ DOMAIN s.interfaces = {}
  /\ s.patches = FourPatches

\* One block by itself has no interfaces.
LEMMA OneBlockFacts ==
  ASSUME NEW s, IsOneBlock(s)
  PROVE  /\ Shaped(s) /\ DOMAIN s.blocks = {1} /\ 1 \in DOMAIN s.blocks
         /\ s.blocks[1].nx \in Nat /\ s.blocks[1].nx > 0
         /\ s.blocks[1].ny \in Nat /\ s.blocks[1].ny > 0
         /\ s.blocks = <<s.blocks[1]>>
         /\ \A ref : ~IsFirst(s, ref) /\ ~IsSecond(s, ref)
<1>1. Shaped(s) /\ s.blocks \in Seq(Blocks) /\ Len(s.blocks) = 1
  BY DEF IsOneBlock, Filled, Shaped
<1>2. DOMAIN s.blocks = {1} /\ 1 \in DOMAIN s.blocks /\ s.blocks = <<s.blocks[1]>>
  BY <1>1
<1>3. \A ref : ~IsFirst(s, ref) /\ ~IsSecond(s, ref)
  BY DEF IsFirst, IsSecond, IsOneBlock
<1> QED BY <1>1, <1>2, <1>3, ShapedFacts

\* Its cells are numbered row by row.
LEMMA OneBlockCells ==
  ASSUME NEW s, IsOneBlock(s)
  PROVE  LET nx == s.blocks[1].nx
             ny == s.blocks[1].ny
         IN  /\ CellPlaces(s) = [c \in 1..(nx * ny) |-> <<1, (c - 1) % nx, (c - 1) \div nx>>]
             /\ \A i \in 0..(nx - 1), j \in 0..(ny - 1) : GlobalCell(s, 1, i, j) = j * nx + i + 1
<1> DEFINE nx == s.blocks[1].nx
           ny == s.blocks[1].ny
           q == [c \in 1..(nx * ny) |-> <<1, (c - 1) % nx, (c - 1) \div nx>>]
<1>1. /\ Shaped(s) /\ DOMAIN s.blocks = {1}
      /\ nx \in Nat /\ nx > 0 /\ ny \in Nat /\ ny > 0
  BY OneBlockFacts
<1>2. CellPlaces(s) = FlattenSeq(<<q>>)
  <2>1. [ b \in DOMAIN s.blocks |->
           [ c \in 1..(s.blocks[b].nx * s.blocks[b].ny) |->
               <<b, (c - 1) % s.blocks[b].nx, (c - 1) \div s.blocks[b].nx>> ] ]
          = [b \in {1} |-> q]
    BY <1>1
  <2> HIDE DEF q
  <2>2. [b \in {1} |-> q] = <<q>>
    OBVIOUS
  <2> QED BY <2>1, <2>2 DEF CellPlaces
<1>3. nx * ny \in Nat
  BY <1>1
<1>4. q = [c \in 1..(nx * ny) |-> q[c]]
  OBVIOUS
<1>q. \A c \in 1..(nx * ny) : q[c] = <<1, (c - 1) % nx, (c - 1) \div nx>>
  OBVIOUS
<1>g. s.blocks[1].nx = nx /\ s.blocks[1].ny = ny
  OBVIOUS
<1> HIDE DEF q, nx, ny
<1>5. CellPlaces(s) = q /\ Len(q) = nx * ny
  <2> DEFINE T == {q[c] : c \in 1..(nx * ny)}
  <2>1. \A c \in 1..(nx * ny) : q[c] \in T
    OBVIOUS
  <2> HIDE DEF T
  <2>2. q \in Seq(T) /\ Len(q) = nx * ny
    BY <1>3, <1>4, <2>1, IsSequence
  <2>3. FlattenSeq(<<q>>) = q
    BY <2>2, FlattenOne
  <2> QED BY <1>2, <2>2, <2>3
<1>6. ASSUME NEW i \in 0..(nx - 1), NEW j \in 0..(ny - 1)
      PROVE  GlobalCell(s, 1, i, j) = j * nx + i + 1
  <2> DEFINE c == GlobalCell(s, 1, i, j)
  <2>1. IsCell(s, 1, i, j)
    BY <1>1, <1>g DEF IsCell
  <2>2. c \in 1..Len(CellPlaces(s)) /\ CellPlaces(s)[c] = <<1, i, j>>
    BY <1>1, <2>1, CellPlacesFacts
  <2> HIDE DEF c
  <2>3. c \in 1..(nx * ny) /\ q[c] = <<1, i, j>>
    BY <1>5, <2>2
  <2>4. (c - 1) % nx = i /\ (c - 1) \div nx = j
    <3>1. <<1, (c - 1) % nx, (c - 1) \div nx>> = <<1, i, j>>
      BY <1>q, <2>3
    <3> QED BY <3>1
  <2>5. c = ((c - 1) \div nx) * nx + ((c - 1) % nx) + 1
    BY <1>1, <2>3, CellIndex
  <2>6. c = j * nx + i + 1
    BY <2>4, <2>5
  <2> QED BY <2>6 DEF c
<1> QED BY <1>5, <1>6 DEF q, nx, ny

\* Each of its edges has a face.
LEMMA OneBlockEdges ==
  ASSUME NEW s, IsOneBlock(s)
  PROVE  FaceEdges(s) = BlockEdges(s, 1)
<1> DEFINE E == BlockEdges(s, 1)
           all == FlattenSeq([ b \in DOMAIN s.blocks |-> BlockEdges(s, b) ])
<1>1. Shaped(s) /\ DOMAIN s.blocks = {1} /\ \A ref : ~IsSecond(s, ref)
  BY OneBlockFacts
<1>2. E \in Seq(EdgeRecords)
  BY <1>1, BlockEdgesFacts
<1>3. all = FlattenSeq(<<E>>)
  <2>1. [ b \in DOMAIN s.blocks |-> BlockEdges(s, b) ] = [b \in {1} |-> E]
    BY <1>1
  <2>2. [b \in {1} |-> E] = <<E>>
    OBVIOUS
  <2> QED BY <2>1, <2>2
<1>4. all = E
  <2> HIDE DEF E
  <2>1. FlattenSeq(<<E>>) = E
    BY <1>2, FlattenOne
  <2> QED BY <1>3, <2>1
<1>5. FaceEdges(s) = FlattenSeq([n \in DOMAIN all |-> <<all[n]>>])
  <2>1. FaceEdges(s) = FlattenSeq([ n \in DOMAIN all |->
            IF IsSecond(s, SideOf(s, all[n])) THEN << >> ELSE << all[n] >> ])
    BY DEF FaceEdges
  <2> HIDE DEF all
  <2>2. [ n \in DOMAIN all |-> IF IsSecond(s, SideOf(s, all[n])) THEN << >> ELSE << all[n] >> ]
          = [n \in DOMAIN all |-> <<all[n]>>]
    <3>1. \A n \in DOMAIN all : ~IsSecond(s, SideOf(s, all[n]))
      BY <1>1
    <3> QED BY <3>1
  <2> QED BY <2>1, <2>2
<1>6. FlattenSeq([n \in DOMAIN E |-> <<E[n]>>]) = E
  <2> HIDE DEF E
  <2> QED BY <1>2, FlattenSingletons
<1> HIDE DEF all, E
<1>7. FaceEdges(s) = E
  BY <1>4, <1>5, <1>6
<1> QED BY <1>7 DEF E

\* The faces of its edges are those buildStructuredMesh gives them.
LEMMA OneBlockFace ==
  ASSUME NEW s, IsOneBlock(s)
  PROVE  LET nx == s.blocks[1].nx
             ny == s.blocks[1].ny
         IN  /\ \A i \in 0..nx, j \in 0..(ny - 1) :
                   LET e == Edge(1, "vertical", i, j)
                   IN  /\ OwnerOf(s, e) = j * nx + (IF i = 0 THEN 0 ELSE i - 1) + 1
                       /\ NeighborOf(s, e) = IF i \in {0, nx} THEN NoCell ELSE j * nx + i + 1
                       /\ EdgeGeometry(s, e) =
                            VerticalEdgeFace(Vertex(s.blocks[1], i, j), Vertex(s.blocks[1], i, j + 1), i = 0)
             /\ \A i \in 0..(nx - 1), j \in 0..ny :
                   LET e == Edge(1, "horizontal", i, j)
                   IN  /\ OwnerOf(s, e) = (IF j = 0 THEN 0 ELSE j - 1) * nx + i + 1
                       /\ NeighborOf(s, e) = IF j \in {0, ny} THEN NoCell ELSE j * nx + i + 1
                       /\ EdgeGeometry(s, e) =
                            HorizontalEdgeFace(Vertex(s.blocks[1], i, j), Vertex(s.blocks[1], i + 1, j), j = 0)
<1> DEFINE nx == s.blocks[1].nx
           ny == s.blocks[1].ny
<1>1. /\ Shaped(s) /\ DOMAIN s.blocks = {1}
      /\ nx \in Nat /\ nx > 0 /\ ny \in Nat /\ ny > 0
      /\ \A ref : ~IsFirst(s, ref)
  BY OneBlockFacts
<1>2. \A i \in 0..(nx - 1), j \in 0..(ny - 1) : GlobalCell(s, 1, i, j) = j * nx + i + 1
  BY OneBlockCells
<1>3. ASSUME NEW i \in 0..nx, NEW j \in 0..(ny - 1)
      PROVE  LET e == Edge(1, "vertical", i, j)
             IN  /\ OwnerOf(s, e) = j * nx + (IF i = 0 THEN 0 ELSE i - 1) + 1
                 /\ NeighborOf(s, e) = IF i \in {0, nx} THEN NoCell ELSE j * nx + i + 1
                 /\ EdgeGeometry(s, e) =
                      VerticalEdgeFace(Vertex(s.blocks[1], i, j), Vertex(s.blocks[1], i, j + 1), i = 0)
  <2> DEFINE e == Edge(1, "vertical", i, j)
  <2>1. e.block = 1 /\ e.kind = "vertical" /\ e.i = i /\ e.j = j
    BY EdgeParts
  <2>2. IsEdge(s, e)
    BY <1>1, IsEdgeIs
  <2> HIDE DEF e
  <2>3. SideOf(s, e) = IF i = 0 THEN <<1, "left">> ELSE IF i = nx THEN <<1, "right">> ELSE NoSide
    BY <1>1, <2>1, <2>2, SideOfIs
  <2>4. EdgeGeometry(s, e) =
          VerticalEdgeFace(Vertex(s.blocks[1], i, j), Vertex(s.blocks[1], i, j + 1), i = 0)
    BY <2>1 DEF EdgeGeometry
  <2>5. AlongSide(e) = j
    BY <2>1 DEF AlongSide
  <2>6. CASE i = 0
    <3>1. SideOf(s, e) = <<1, "left">> /\ SideOf(s, e) # NoSide
      BY <2>3, <2>6 DEF NoSide
    <3>2. SideCell(s.blocks[1], "left", j) = <<0, j>>
      BY DEF SideCell
    <3>3. OwnerOf(s, e) = GlobalCell(s, 1, 0, j)
      BY <2>1, <2>5, <3>1, <3>2 DEF OwnerOf
    <3>4. NeighborOf(s, e) = NoCell
      BY <1>1, <3>1 DEF NeighborOf
    <3>5. GlobalCell(s, 1, 0, j) = j * nx + 0 + 1
      <4>1. 0 \in 0..(nx - 1)
        BY <1>1
      <4> QED BY <1>2, <4>1
    <3> HIDE DEF nx, ny
    <3> QED BY <2>4, <2>6, <3>3, <3>4, <3>5 DEF e
  <2>7. CASE i = nx
    <3>1. SideOf(s, e) = <<1, "right">> /\ SideOf(s, e) # NoSide /\ i # 0
      BY <1>1, <2>3, <2>7 DEF NoSide
    <3>2. SideCell(s.blocks[1], "right", j) = <<nx - 1, j>>
      BY DEF SideCell
    <3>3. OwnerOf(s, e) = GlobalCell(s, 1, nx - 1, j)
      BY <2>1, <2>5, <3>1, <3>2 DEF OwnerOf
    <3>4. NeighborOf(s, e) = NoCell
      BY <1>1, <3>1 DEF NeighborOf
    <3>5. GlobalCell(s, 1, nx - 1, j) = j * nx + (nx - 1) + 1
      <4>1. nx - 1 \in 0..(nx - 1)
        BY <1>1
      <4> QED BY <1>2, <4>1
    <3> HIDE DEF nx, ny
    <3> QED BY <2>4, <2>7, <3>1, <3>3, <3>4, <3>5 DEF e
  <2>8. CASE i # 0 /\ i # nx
    <3>1. SideOf(s, e) = NoSide
      BY <2>3, <2>8
    <3>3. OwnerOf(s, e) = GlobalCell(s, 1, i - 1, j)
      BY <2>1, <3>1 DEF OwnerOf
    <3>4. NeighborOf(s, e) = GlobalCell(s, 1, i, j)
      BY <2>1, <3>1 DEF NeighborOf
    <3>5. GlobalCell(s, 1, i - 1, j) = j * nx + (i - 1) + 1 /\ GlobalCell(s, 1, i, j) = j * nx + i + 1
      <4>1. i - 1 \in 0..(nx - 1) /\ i \in 0..(nx - 1)
        BY <1>1, <2>8
      <4> QED BY <1>2, <4>1
    <3> HIDE DEF nx, ny
    <3> QED BY <2>4, <2>8, <3>3, <3>4, <3>5 DEF e
  <2> QED BY <2>6, <2>7, <2>8
<1>4. ASSUME NEW i \in 0..(nx - 1), NEW j \in 0..ny
      PROVE  LET e == Edge(1, "horizontal", i, j)
             IN  /\ OwnerOf(s, e) = (IF j = 0 THEN 0 ELSE j - 1) * nx + i + 1
                 /\ NeighborOf(s, e) = IF j \in {0, ny} THEN NoCell ELSE j * nx + i + 1
                 /\ EdgeGeometry(s, e) =
                      HorizontalEdgeFace(Vertex(s.blocks[1], i, j), Vertex(s.blocks[1], i + 1, j), j = 0)
  <2> DEFINE e == Edge(1, "horizontal", i, j)
  <2>1. e.block = 1 /\ e.kind = "horizontal" /\ e.i = i /\ e.j = j
    BY EdgeParts
  <2>2. IsEdge(s, e)
    BY <1>1, IsEdgeIs
  <2> HIDE DEF e
  <2>3. SideOf(s, e) = IF j = 0 THEN <<1, "bottom">> ELSE IF j = ny THEN <<1, "top">> ELSE NoSide
    BY <1>1, <2>1, <2>2, SideOfIs
  <2>4. EdgeGeometry(s, e) =
          HorizontalEdgeFace(Vertex(s.blocks[1], i, j), Vertex(s.blocks[1], i + 1, j), j = 0)
    BY <2>1 DEF EdgeGeometry
  <2>5. AlongSide(e) = i
    BY <2>1 DEF AlongSide
  <2>6. CASE j = 0
    <3>1. SideOf(s, e) = <<1, "bottom">> /\ SideOf(s, e) # NoSide
      BY <2>3, <2>6 DEF NoSide
    <3>2. SideCell(s.blocks[1], "bottom", i) = <<i, 0>>
      BY DEF SideCell
    <3>3. OwnerOf(s, e) = GlobalCell(s, 1, i, 0)
      BY <2>1, <2>5, <3>1, <3>2 DEF OwnerOf
    <3>4. NeighborOf(s, e) = NoCell
      BY <1>1, <3>1 DEF NeighborOf
    <3>5. GlobalCell(s, 1, i, 0) = 0 * nx + i + 1
      <4>1. 0 \in 0..(ny - 1)
        BY <1>1
      <4> QED BY <1>2, <4>1
    <3> HIDE DEF nx, ny
    <3> QED BY <2>4, <2>6, <3>3, <3>4, <3>5 DEF e
  <2>7. CASE j = ny
    <3>1. SideOf(s, e) = <<1, "top">> /\ SideOf(s, e) # NoSide /\ j # 0
      BY <1>1, <2>3, <2>7 DEF NoSide
    <3>2. SideCell(s.blocks[1], "top", i) = <<i, ny - 1>>
      BY DEF SideCell
    <3>3. OwnerOf(s, e) = GlobalCell(s, 1, i, ny - 1)
      BY <2>1, <2>5, <3>1, <3>2 DEF OwnerOf
    <3>4. NeighborOf(s, e) = NoCell
      BY <1>1, <3>1 DEF NeighborOf
    <3>5. GlobalCell(s, 1, i, ny - 1) = (ny - 1) * nx + i + 1
      <4>1. ny - 1 \in 0..(ny - 1)
        BY <1>1
      <4> QED BY <1>2, <4>1
    <3> HIDE DEF nx, ny
    <3> QED BY <2>4, <2>7, <3>1, <3>3, <3>4, <3>5 DEF e
  <2>8. CASE j # 0 /\ j # ny
    <3>1. SideOf(s, e) = NoSide
      BY <2>3, <2>8
    <3>3. OwnerOf(s, e) = GlobalCell(s, 1, i, j - 1)
      BY <2>1, <3>1 DEF OwnerOf
    <3>4. NeighborOf(s, e) = GlobalCell(s, 1, i, j)
      BY <2>1, <3>1 DEF NeighborOf
    <3>5. GlobalCell(s, 1, i, j - 1) = (j - 1) * nx + i + 1 /\ GlobalCell(s, 1, i, j) = j * nx + i + 1
      <4>1. j - 1 \in 0..(ny - 1) /\ j \in 0..(ny - 1)
        BY <1>1, <2>8
      <4> QED BY <1>2, <4>1
    <3> HIDE DEF nx, ny
    <3> QED BY <2>4, <2>8, <3>3, <3>4, <3>5 DEF e
  <2> QED BY <2>6, <2>7, <2>8
<1> QED BY <1>3, <1>4

\* A list of faces with places i, j of the edges of a side, in order.
LEMMA OneBlockSide ==
  ASSUME NEW s, IsOneBlock(s), NEW side \in Sides, NEW n \in Nat, NEW w,
         n = SideFaceCount(s.blocks[1], side), w = [k \in 1..n |-> w[k]],
         \A k \in 1..n : w[k] \in DOMAIN Faces(s) /\ FaceEdges(s)[w[k]] = SideEdge(s, 1, side, k - 1),
         \A k, l \in 1..n : k < l => w[k] < w[l]
  PROVE  SideFaces(s, <<1, side>>) = w
<1>1. Shaped(s) /\ 1 \in DOMAIN s.blocks
  BY OneBlockFacts
<1>2. w \in Seq(DOMAIN Faces(s)) /\ Len(w) = n
  BY IsSequence
<1>3. Increasing(w)
  BY <1>2 DEF Increasing
<1>4. \A k \in 1..Len(w) : FaceEdges(s)[w[k]] = SideEdge(s, 1, side, k - 1)
  BY <1>2
<1> QED BY <1>1, <1>2, <1>3, <1>4, SideFacesAre

\* The sides of a block by itself have the face numbers of the four patches of
\* buildStructuredMesh.
LEMMA OneBlockPatches ==
  ASSUME NEW s, IsOneBlock(s)
  PROVE  LET nx == s.blocks[1].nx
             ny == s.blocks[1].ny
             count == ny * (nx + 1)
         IN  /\ SideFaces(s, <<1, "left">>) = [ j \in 1..ny |-> (j - 1) * (nx + 1) + 1 ]
             /\ SideFaces(s, <<1, "right">>) = [ j \in 1..ny |-> j * (nx + 1) ]
             /\ SideFaces(s, <<1, "bottom">>) = [ i \in 1..nx |-> count + i ]
             /\ SideFaces(s, <<1, "top">>) = [ i \in 1..nx |-> count + ny * nx + i ]
<1> DEFINE nx == s.blocks[1].nx
           ny == s.blocks[1].ny
           p == ny * (nx + 1)
           q == (ny + 1) * nx
           E == BlockEdges(s, 1)
<1>1. /\ Shaped(s) /\ DOMAIN s.blocks = {1} /\ 1 \in DOMAIN s.blocks
      /\ nx \in Nat /\ nx > 0 /\ ny \in Nat /\ ny > 0
  BY OneBlockFacts
<1>2. FaceEdges(s) = E
  BY OneBlockEdges
<1>3. /\ p \in Nat /\ q \in Nat
      /\ DOMAIN E = 1..(p + q)
      /\ \A i \in 0..nx, j \in 0..(ny - 1) :
            /\ j * (nx + 1) + i + 1 \in 1..p
            /\ E[j * (nx + 1) + i + 1] = Edge(1, "vertical", i, j)
      /\ \A i \in 0..(nx - 1), j \in 0..ny :
            /\ j * nx + i + 1 \in 1..q
            /\ E[p + (j * nx + i + 1)] = Edge(1, "horizontal", i, j)
  <2>1. EdgesAreNumbered(E, 1, nx, ny)
    BY <1>1, BlockEdgeAt
  <2> HIDE DEF E, nx, ny
  <2> QED BY <2>1 DEF EdgesAreNumbered
<1>4. DOMAIN Faces(s) = 1..(p + q)
  BY <1>2, <1>3 DEF Faces
<1>5. /\ SideFaceCount(s.blocks[1], "left") = ny /\ SideFaceCount(s.blocks[1], "right") = ny
      /\ SideFaceCount(s.blocks[1], "bottom") = nx /\ SideFaceCount(s.blocks[1], "top") = nx
  BY DEF SideFaceCount
<1>6. \A n : /\ SideEdge(s, 1, "left", n) = Edge(1, "vertical", 0, n)
             /\ SideEdge(s, 1, "right", n) = Edge(1, "vertical", nx, n)
             /\ SideEdge(s, 1, "bottom", n) = Edge(1, "horizontal", n, 0)
             /\ SideEdge(s, 1, "top", n) = Edge(1, "horizontal", n, ny)
  BY DEF SideEdge
<1>7. /\ "left" \in Sides /\ "right" \in Sides /\ "bottom" \in Sides /\ "top" \in Sides
  BY DEF Sides
<1> HIDE DEF nx, ny, E
<1>l. SideFaces(s, <<1, "left">>) = [ j \in 1..ny |-> (j - 1) * (nx + 1) + 1 ]
  <2> DEFINE w == [ j \in 1..ny |-> (j - 1) * (nx + 1) + 1 ]
  <2>1. ASSUME NEW k \in 1..ny
        PROVE  w[k] \in DOMAIN Faces(s) /\ FaceEdges(s)[w[k]] = SideEdge(s, 1, "left", k - 1)
    <3>1. k - 1 \in 0..(ny - 1) /\ 0 \in 0..nx
      BY <1>1
    <3>2. (k - 1) * (nx + 1) + 0 + 1 = (k - 1) * (nx + 1) + 1
      <4>1. (k - 1) * (nx + 1) \in Int
        BY <1>1
      <4> QED BY <4>1
    <3>3. /\ (k - 1) * (nx + 1) + 0 + 1 \in 1..p
          /\ E[(k - 1) * (nx + 1) + 0 + 1] = Edge(1, "vertical", 0, k - 1)
      BY <1>3, <3>1
    <3>4. w[k] = (k - 1) * (nx + 1) + 1
      OBVIOUS
    <3> HIDE DEF p, q, w
    <3>5. w[k] \in 1..p /\ E[w[k]] = Edge(1, "vertical", 0, k - 1)
      BY <3>2, <3>3, <3>4
    <3> QED BY <1>2, <1>3, <1>4, <1>6, <3>5
  <2>2. ASSUME NEW k \in 1..ny, NEW l \in 1..ny, k < l PROVE w[k] < w[l]
    BY <1>1, <2>2
  <2>3. w = [k \in 1..ny |-> w[k]]
    OBVIOUS
  <2> HIDE DEF w, p, q
  <2>4. SideFaces(s, <<1, "left">>) = w
    BY <1>1, <1>5, <1>7, <2>1, <2>2, <2>3, OneBlockSide
  <2> QED BY <2>4 DEF w
<1>r. SideFaces(s, <<1, "right">>) = [ j \in 1..ny |-> j * (nx + 1) ]
  <2> DEFINE w == [ j \in 1..ny |-> j * (nx + 1) ]
  <2>1. ASSUME NEW k \in 1..ny
        PROVE  w[k] \in DOMAIN Faces(s) /\ FaceEdges(s)[w[k]] = SideEdge(s, 1, "right", k - 1)
    <3>1. k - 1 \in 0..(ny - 1) /\ nx \in 0..nx
      BY <1>1
    <3>2. (k - 1) * (nx + 1) + nx + 1 = k * (nx + 1)
      BY <1>1
    <3>3. /\ (k - 1) * (nx + 1) + nx + 1 \in 1..p
          /\ E[(k - 1) * (nx + 1) + nx + 1] = Edge(1, "vertical", nx, k - 1)
      BY <1>3, <3>1
    <3>4. w[k] = k * (nx + 1)
      OBVIOUS
    <3> HIDE DEF p, q, w
    <3>5. w[k] \in 1..p /\ E[w[k]] = Edge(1, "vertical", nx, k - 1)
      BY <3>2, <3>3, <3>4
    <3> QED BY <1>2, <1>3, <1>4, <1>6, <3>5
  <2>2. ASSUME NEW k \in 1..ny, NEW l \in 1..ny, k < l PROVE w[k] < w[l]
    BY <1>1, <2>2
  <2>3. w = [k \in 1..ny |-> w[k]]
    OBVIOUS
  <2> HIDE DEF w, p, q
  <2>4. SideFaces(s, <<1, "right">>) = w
    BY <1>1, <1>5, <1>7, <2>1, <2>2, <2>3, OneBlockSide
  <2> QED BY <2>4 DEF w
<1>b. SideFaces(s, <<1, "bottom">>) = [ i \in 1..nx |-> p + i ]
  <2> DEFINE w == [ i \in 1..nx |-> p + i ]
  <2>1. ASSUME NEW k \in 1..nx
        PROVE  w[k] \in DOMAIN Faces(s) /\ FaceEdges(s)[w[k]] = SideEdge(s, 1, "bottom", k - 1)
    <3>1. k - 1 \in 0..(nx - 1) /\ 0 \in 0..ny
      BY <1>1
    <3>2. 0 * nx + (k - 1) + 1 = k
      BY <1>1
    <3>3. /\ 0 * nx + (k - 1) + 1 \in 1..q
          /\ E[p + (0 * nx + (k - 1) + 1)] = Edge(1, "horizontal", k - 1, 0)
      BY <1>3, <3>1
    <3>4. w[k] = p + k
      OBVIOUS
    <3> HIDE DEF p, q, w
    <3>5. k \in 1..q /\ E[w[k]] = Edge(1, "horizontal", k - 1, 0)
      BY <3>2, <3>3, <3>4
    <3>6. w[k] \in 1..(p + q)
      BY <1>3, <3>4, <3>5
    <3> QED BY <1>2, <1>3, <1>4, <1>6, <3>5, <3>6
  <2>2. ASSUME NEW k \in 1..nx, NEW l \in 1..nx, k < l PROVE w[k] < w[l]
    <3> HIDE DEF p
    <3> QED BY <1>1, <1>3, <2>2
  <2>3. w = [k \in 1..nx |-> w[k]]
    OBVIOUS
  <2> HIDE DEF w, p, q
  <2>4. SideFaces(s, <<1, "bottom">>) = w
    BY <1>1, <1>5, <1>7, <2>1, <2>2, <2>3, OneBlockSide
  <2> QED BY <2>4 DEF w
<1>t. SideFaces(s, <<1, "top">>) = [ i \in 1..nx |-> p + ny * nx + i ]
  <2> DEFINE w == [ i \in 1..nx |-> p + ny * nx + i ]
  <2>0. ny * nx \in Nat
    BY <1>1
  <2>1. ASSUME NEW k \in 1..nx
        PROVE  w[k] \in DOMAIN Faces(s) /\ FaceEdges(s)[w[k]] = SideEdge(s, 1, "top", k - 1)
    <3>1. k - 1 \in 0..(nx - 1) /\ ny \in 0..ny
      BY <1>1
    <3>2. p + (ny * nx + (k - 1) + 1) = p + ny * nx + k
      <4> HIDE DEF p
      <4> QED BY <1>3, <2>0
    <3>3. /\ ny * nx + (k - 1) + 1 \in 1..q
          /\ E[p + (ny * nx + (k - 1) + 1)] = Edge(1, "horizontal", k - 1, ny)
      BY <1>3, <3>1
    <3>4. w[k] = p + ny * nx + k
      OBVIOUS
    <3> HIDE DEF p, q, w
    <3>5. E[w[k]] = Edge(1, "horizontal", k - 1, ny)
      BY <3>2, <3>3, <3>4
    <3>6. w[k] \in 1..(p + q)
      BY <1>3, <2>0, <3>3, <3>4
    <3> QED BY <1>2, <1>3, <1>4, <1>6, <3>5, <3>6
  <2>2. ASSUME NEW k \in 1..nx, NEW l \in 1..nx, k < l PROVE w[k] < w[l]
    <3> HIDE DEF p
    <3> QED BY <1>1, <1>3, <2>0, <2>2
  <2>3. w = [k \in 1..nx |-> w[k]]
    OBVIOUS
  <2> HIDE DEF w, p, q
  <2>4. SideFaces(s, <<1, "top">>) = w
    BY <1>1, <1>5, <1>7, <2>1, <2>2, <2>3, OneBlockSide
  <2> QED BY <2>4 DEF w
<1> QED BY <1>l, <1>r, <1>b, <1>t DEF nx, ny

\* A block by itself has the faces that buildStructuredMesh makes, in its order.
LEMMA OneBlockFaces ==
  ASSUME NEW s, IsOneBlock(s)
  PROVE  Faces(s) = StructuredMesh(s.blocks[1]).faces
<1> DEFINE block == s.blocks[1]
           nx == block.nx
           ny == block.ny
           p == ny * (nx + 1)
           q == (ny + 1) * nx
           cell(i, j) == j * nx + i + 1
           face(owner, neighbor, g) ==
               [owner |-> owner, neighbor |-> neighbor, mid2 |-> g.mid2, area |-> g.area]
           vertical(i, j) ==
               face(cell(IF i = 0 THEN 0 ELSE i - 1, j),
                    IF i \in {0, nx} THEN NoCell ELSE cell(i, j),
                    VerticalEdgeFace(Vertex(block, i, j), Vertex(block, i, j + 1), i = 0))
           horizontal(i, j) ==
               face(cell(i, IF j = 0 THEN 0 ELSE j - 1),
                    IF j \in {0, ny} THEN NoCell ELSE cell(i, j),
                    HorizontalEdgeFace(Vertex(block, i, j), Vertex(block, i + 1, j), j = 0))
           V == [ n \in 1..p |-> vertical((n - 1) % (nx + 1), (n - 1) \div (nx + 1)) ]
           H == [ n \in 1..q |-> horizontal((n - 1) % nx, (n - 1) \div nx) ]
           E == BlockEdges(s, 1)
           F == Faces(s)
           of(e) == [ owner |-> OwnerOf(s, e), neighbor |-> NeighborOf(s, e),
                      mid2 |-> EdgeGeometry(s, e).mid2, area |-> EdgeGeometry(s, e).area ]
<1>0. StructuredMesh(s.blocks[1]).faces = V \o H
  BY DEF StructuredMesh
<1>1. /\ Shaped(s) /\ DOMAIN s.blocks = {1} /\ 1 \in DOMAIN s.blocks
  BY OneBlockFacts
<1>2. FaceEdges(s) = E
  BY OneBlockEdges
<1>3. /\ p \in Nat /\ q \in Nat
      /\ DOMAIN E = 1..(p + q)
      /\ \A n \in 1..p :
            /\ E[n] = Edge(1, "vertical", (n - 1) % (nx + 1), (n - 1) \div (nx + 1))
            /\ (n - 1) % (nx + 1) \in 0..nx /\ (n - 1) \div (nx + 1) \in 0..(ny - 1)
      /\ \A n \in 1..q :
            /\ E[p + n] = Edge(1, "horizontal", (n - 1) % nx, (n - 1) \div nx)
            /\ (n - 1) % nx \in 0..(nx - 1) /\ (n - 1) \div nx \in 0..ny
  <2>1. EdgesAreNumbered(E, 1, nx, ny)
    BY <1>1, BlockEdgeAt
  <2> HIDE DEF E, nx, ny
  <2> QED BY <2>1 DEF EdgesAreNumbered
<1>4. F = [f \in DOMAIN E |-> of(E[f])]
  BY <1>2 DEF Faces
<1>5. \A i \in 0..nx, j \in 0..(ny - 1) : of(Edge(1, "vertical", i, j)) = vertical(i, j)
  <2> TAKE i \in 0..nx, j \in 0..(ny - 1)
  <2> DEFINE e == Edge(1, "vertical", i, j)
  <2>1. /\ OwnerOf(s, e) = j * nx + (IF i = 0 THEN 0 ELSE i - 1) + 1
        /\ NeighborOf(s, e) = IF i \in {0, nx} THEN NoCell ELSE j * nx + i + 1
        /\ EdgeGeometry(s, e) =
             VerticalEdgeFace(Vertex(s.blocks[1], i, j), Vertex(s.blocks[1], i, j + 1), i = 0)
    BY OneBlockFace
  <2> HIDE DEF e
  <2>2. of(e) = vertical(i, j)
    BY <2>1
  <2> QED BY <2>2 DEF e
<1>6. \A i \in 0..(nx - 1), j \in 0..ny : of(Edge(1, "horizontal", i, j)) = horizontal(i, j)
  <2> TAKE i \in 0..(nx - 1), j \in 0..ny
  <2> DEFINE e == Edge(1, "horizontal", i, j)
  <2>1. /\ OwnerOf(s, e) = (IF j = 0 THEN 0 ELSE j - 1) * nx + i + 1
        /\ NeighborOf(s, e) = IF j \in {0, ny} THEN NoCell ELSE j * nx + i + 1
        /\ EdgeGeometry(s, e) =
             HorizontalEdgeFace(Vertex(s.blocks[1], i, j), Vertex(s.blocks[1], i + 1, j), j = 0)
    BY OneBlockFace
  <2> HIDE DEF e
  <2>2. of(e) = horizontal(i, j)
    BY <2>1
  <2> QED BY <2>2 DEF e
<1>7. /\ DOMAIN V = 1..p /\ DOMAIN H = 1..q
      /\ \A n \in 1..p : V[n] = vertical((n - 1) % (nx + 1), (n - 1) \div (nx + 1))
      /\ \A n \in 1..q : H[n] = horizontal((n - 1) % nx, (n - 1) \div nx)
      /\ V = [n \in 1..p |-> V[n]] /\ H = [n \in 1..q |-> H[n]]
  OBVIOUS
<1> HIDE DEF V, H, E, F, p, q, nx, ny, block, vertical, horizontal, of
<1>8. \A n \in 1..p : n \in DOMAIN E /\ F[n] = V[n]
  <2> TAKE n \in 1..p
  <2>1. n \in DOMAIN E
    BY <1>3
  <2>2. F[n] = of(E[n])
    BY <1>4, <2>1
  <2> DEFINE i == (n - 1) % (nx + 1)
             j == (n - 1) \div (nx + 1)
  <2>3. E[n] = Edge(1, "vertical", i, j) /\ i \in 0..nx /\ j \in 0..(ny - 1) /\ V[n] = vertical(i, j)
    BY <1>3, <1>7
  <2> HIDE DEF i, j
  <2> QED BY <1>5, <2>1, <2>2, <2>3
<1>9. \A n \in 1..q : p + n \in DOMAIN E /\ F[p + n] = H[n]
  <2> TAKE n \in 1..q
  <2>1. p + n \in DOMAIN E
    BY <1>3
  <2>2. F[p + n] = of(E[p + n])
    BY <1>4, <2>1
  <2> DEFINE i == (n - 1) % nx
             j == (n - 1) \div nx
  <2>3. E[p + n] = Edge(1, "horizontal", i, j) /\ i \in 0..(nx - 1) /\ j \in 0..ny /\ H[n] = horizontal(i, j)
    BY <1>3, <1>7
  <2> HIDE DEF i, j
  <2> QED BY <1>6, <2>1, <2>2, <2>3
<1>10. V \o H = F
  <2> DEFINE T == {V[n] : n \in 1..p} \cup {H[n] : n \in 1..q}
  <2>1. /\ \A n \in 1..p : V[n] \in T
        /\ \A n \in 1..q : H[n] \in T
    OBVIOUS
  <2> HIDE DEF T
  <2>2. V \in Seq(T) /\ Len(V) = p /\ H \in Seq(T) /\ Len(H) = q
    BY <1>3, <1>7, <2>1, IsSequence
  <2>3. V \o H \in Seq(T) /\ Len(V \o H) = p + q /\ DOMAIN (V \o H) = 1..(p + q)
    BY <2>2
  <2>4. \A n \in 1..(p + q) : (V \o H)[n] = IF n <= p THEN V[n] ELSE H[n - p]
    BY <1>3, <2>2
  <2>5. \A n \in 1..(p + q) : (V \o H)[n] = F[n]
    <3> TAKE n \in 1..(p + q)
    <3>1. CASE n <= p
      <4>1. n \in 1..p
        BY <1>3, <3>1
      <4>2. (V \o H)[n] = V[n]
        BY <2>4, <3>1
      <4>3. F[n] = V[n]
        BY <1>8, <4>1
      <4> QED BY <4>2, <4>3
    <3>2. CASE ~(n <= p)
      <4>1. n - p \in 1..q /\ p + (n - p) = n
        BY <1>3, <3>2
      <4> QED BY <1>9, <2>4, <3>2, <4>1
    <3> QED BY <3>1, <3>2
  <2>6. F = [n \in 1..(p + q) |-> F[n]]
    <3>1. DOMAIN F = 1..(p + q)
      BY <1>3, <1>4
    <3> QED BY <1>4, <3>1
  <2>7. V \o H = [n \in 1..(p + q) |-> (V \o H)[n]]
    <3> DEFINE W == V \o H
    <3>1. W \in Seq(T) /\ Len(W) = p + q
      BY <2>3
    <3> HIDE DEF W
    <3>2. W = [n \in 1..(p + q) |-> W[n]]
      BY <3>1
    <3> QED BY <3>2 DEF W
  <2> QED BY <2>5, <2>6, <2>7
<1> QED BY <1>0, <1>10 DEF F

\* createMultiBlock2D and buildStructuredMesh make the same mesh of one block.
LEMMA StructuredIsMeshOf ==
  ASSUME NEW s, IsOneBlock(s)
  PROVE  MeshOf(s) = StructuredMesh(s.blocks[1])
<1> DEFINE block == s.blocks[1]
           nx == block.nx
           ny == block.ny
           count == ny * (nx + 1)
           M == StructuredMesh(block)
           S(side) == SideFaces(s, <<1, side>>)
<1>1. /\ Shaped(s) /\ DOMAIN s.blocks = {1} /\ 1 \in DOMAIN s.blocks /\ s.blocks = <<block>>
      /\ nx \in Nat /\ nx > 0 /\ ny \in Nat /\ ny > 0
  BY OneBlockFacts
<1>2. M = [cells |-> M.cells, faces |-> M.faces, patches |-> M.patches, grids |-> M.grids]
  BY DEF StructuredMesh
<1>3. M.grids = s.blocks
  BY <1>1 DEF StructuredMesh
<1>4. M.faces = Faces(s)
  BY OneBlockFaces
<1>5. M.cells = Cells(s)
  <2> DEFINE N == nx * ny
             P == CellPlaces(s)
  <2>1. P = [c \in 1..N |-> <<1, (c - 1) % nx, (c - 1) \div nx>>]
    BY OneBlockCells
  <2>2. M.cells = [ c \in 1..N |-> CellGeometry(Corners(block, (c - 1) % nx, (c - 1) \div nx)) ]
    BY DEF StructuredMesh
  <2>3. Cells(s) = [c \in DOMAIN P |-> CellGeometry(Corners(s.blocks[P[c][1]], P[c][2], P[c][3]))]
    BY DEF Cells, CellCorners
  <2> HIDE DEF P, N, M, nx, ny, block
  <2>4. DOMAIN P = 1..N
    BY <2>1
  <2>5. \A c \in 1..N : CellGeometry(Corners(s.blocks[P[c][1]], P[c][2], P[c][3]))
                          = CellGeometry(Corners(block, (c - 1) % nx, (c - 1) \div nx))
    <3> TAKE c \in 1..N
    <3> DEFINE i == (c - 1) % nx
               j == (c - 1) \div nx
    <3>1. P[c] = <<1, i, j>>
      BY <2>1
    <3> HIDE DEF i, j
    <3>2. P[c][1] = 1 /\ P[c][2] = i /\ P[c][3] = j /\ s.blocks[1] = block
      BY <3>1 DEF block
    <3> QED BY <3>2 DEF i, j
  <2> QED BY <2>2, <2>3, <2>4, <2>5
<1>6. M.patches = Patches(s)
  <2>1. M.patches = << S("left"), S("right"), S("bottom"), S("top") >>
    <3>1. M.patches = << [ j \in 1..ny |-> (j - 1) * (nx + 1) + 1 ],
                         [ j \in 1..ny |-> j * (nx + 1) ],
                         [ i \in 1..nx |-> count + i ],
                         [ i \in 1..nx |-> count + ny * nx + i ] >>
      BY DEF StructuredMesh
    <3>2. /\ S("left") = [ j \in 1..ny |-> (j - 1) * (nx + 1) + 1 ]
          /\ S("right") = [ j \in 1..ny |-> j * (nx + 1) ]
          /\ S("bottom") = [ i \in 1..nx |-> count + i ]
          /\ S("top") = [ i \in 1..nx |-> count + ny * nx + i ]
      BY OneBlockPatches
    <3> HIDE DEF S, M, count, nx, ny
    <3> QED BY <3>1, <3>2
  <2>2. Patches(s) = [p \in 1..4 |-> S(BlockSides[p])]
    <3> DEFINE L(p) == FlattenSeq([ n \in DOMAIN s.patches[p] |-> SideFaces(s, s.patches[p][n]) ])
    <3>1. Patches(s) = [p \in DOMAIN s.patches |-> L(p)]
      BY DEF Patches, SideFaces
    <3>2. DOMAIN s.patches = 1..4 /\ \A p \in 1..4 : s.patches[p] = << <<1, BlockSides[p]>> >>
      BY DEF IsOneBlock, FourPatches, BlockSides
    <3>3. \A p \in 1..4 : L(p) = S(BlockSides[p])
      <4> TAKE p \in 1..4
      <4> DEFINE r == <<1, BlockSides[p]>>
                 w == SideFaces(s, r)
      <4>1. s.patches[p] = <<r>>
        BY <3>2
      <4> HIDE DEF r
      <4>2. w \in Seq(DOMAIN Faces(s))
        BY <1>1, SideFacesFacts
      <4>3. [ n \in DOMAIN s.patches[p] |-> SideFaces(s, s.patches[p][n]) ] = <<w>>
        <5> HIDE DEF w
        <5>1. DOMAIN s.patches[p] = {1} /\ s.patches[p][1] = r
          BY <4>1
        <5>2. [ n \in DOMAIN s.patches[p] |-> SideFaces(s, s.patches[p][n]) ] = [n \in {1} |-> w]
          BY <5>1 DEF w
        <5>3. [n \in {1} |-> w] = <<w>>
          OBVIOUS
        <5> QED BY <5>2, <5>3
      <4> HIDE DEF w
      <4>4. L(p) = FlattenSeq(<<w>>)
        BY <4>3
      <4>5. FlattenSeq(<<w>>) = w
        BY <4>2, FlattenOne
      <4> QED BY <4>4, <4>5 DEF r, w
    <3> HIDE DEF L, S
    <3> QED BY <3>1, <3>2, <3>3
  <2>3. [p \in 1..4 |-> S(BlockSides[p])] = << S("left"), S("right"), S("bottom"), S("top") >>
    <3>1. BlockSides[1] = "left" /\ BlockSides[2] = "right" /\ BlockSides[3] = "bottom" /\ BlockSides[4] = "top"
      BY DEF BlockSides
    <3> HIDE DEF S
    <3> DEFINE f == [p \in 1..4 |-> S(BlockSides[p])]
    <3>2. f[1] = S("left") /\ f[2] = S("right") /\ f[3] = S("bottom") /\ f[4] = S("top")
      BY <3>1
    <3>3. f = [p \in 1..4 |-> f[p]]
      OBVIOUS
    <3> HIDE DEF f
    <3>4. f = <<f[1], f[2], f[3], f[4]>>
      BY <3>3
    <3> QED BY <3>2, <3>4 DEF f
  <2> QED BY <2>1, <2>2, <2>3
<1> HIDE DEF M
<1>7. MeshOf(s) = M
  BY <1>2, <1>3, <1>4, <1>5, <1>6 DEF MeshOf
<1> QED BY <1>7 DEF M

\* What is known of structured_quad files makes them one block.
LEMMA QuadIsOneBlock ==
  ASSUME NEW s, Filled(s), Len(s.blocks) = 1, s.interfaces = << >>, s.patches = FourPatches
  PROVE  IsOneBlock(s) /\ Joined(s)
<1>1. IsOneBlock(s)
  BY DEF IsOneBlock
<1>2. DOMAIN s.blocks = {1} /\ Shaped(s)
  BY <1>1, OneBlockFacts
<1>3. /\ DOMAIN s.patches = 1..4 /\ s.patches = [k \in 1..4 |-> << <<1, BlockSides[k]>> >>]
      /\ \A k \in 1..4 : s.patches[k] = << <<1, BlockSides[k]>> >>
      /\ DOMAIN BlockSides = 1..4
  BY DEF FourPatches, BlockSides
<1>4. \A k \in 1..4 : DOMAIN s.patches[k] = {1} /\ s.patches[k][1] = <<1, BlockSides[k]>>
  BY <1>3
<1>5. \A k, m \in 1..4 : BlockSides[k] = BlockSides[m] => k = m
  BY DEF BlockSides
<1>6. s.interfaces \in Seq(Interfaces) /\ DOMAIN s.interfaces = {}
  OBVIOUS
<1>7. s.patches \in Seq(Seq(SideRefs))
  <2>1. \A k \in 1..4 : BlockSides[k] \in ToSet(BlockSides)
    BY <1>3 DEF ToSet
  <2>2. \A k \in 1..4 : <<1, BlockSides[k]>> \in SideRefs
    BY <2>1 DEF SideRefs
  <2>3. \A k \in 1..4 : s.patches[k] \in Seq(SideRefs)
    <3> TAKE k \in 1..4
    <3> DEFINE r == <<1, BlockSides[k]>>
    <3>1. r \in SideRefs /\ s.patches[k] = <<r>>
      BY <1>3, <2>2
    <3> HIDE DEF r
    <3> QED BY <3>1
  <2>4. s.patches = [k \in 1..4 |-> s.patches[k]]
    BY <1>3
  <2> DEFINE P == s.patches
  <2> HIDE DEF P
  <2>5. P \in Seq(Seq(SideRefs))
    <3>1. P = [k \in 1..4 |-> P[k]] /\ \A k \in 1..4 : P[k] \in Seq(SideRefs)
      BY <2>3, <2>4 DEF P
    <3> QED BY <3>1, IsSequence
  <2> QED BY <2>5 DEF P
<1>8. SidesAreUsedOnce(s)
  <2>1. \A p \in DOMAIN s.patches :
          /\ s.patches[p] # << >>
          /\ \A n \in DOMAIN s.patches[p] : s.patches[p][n][1] \in DOMAIN s.blocks
    <3> TAKE p \in DOMAIN s.patches
    <3>1. p \in 1..4 /\ 1 \in DOMAIN s.patches[p] /\ DOMAIN s.patches[p] = {1}
      BY <1>3, <1>4
    <3>2. s.patches[p] # << >>
      <4> DEFINE q == s.patches[p]
      <4>1. 1 \in DOMAIN q
        BY <3>1
      <4> HIDE DEF q
      <4>2. q # << >>
        BY <4>1
      <4> QED BY <4>2 DEF q
    <3>3. s.patches[p][1][1] = 1
      BY <1>4, <3>1
    <3> QED BY <1>2, <3>1, <3>2, <3>3
  <2>2. ASSUME NEW b \in DOMAIN s.blocks, NEW k \in DOMAIN BlockSides
        PROVE  SideUses(s, <<b, BlockSides[k]>>) = {<<"patch", k, 1>>}
    <3> DEFINE ref == <<b, BlockSides[k]>>
               X == UNION { { <<"patch", p, n>> : n \in { m \in DOMAIN s.patches[p] : s.patches[p][m] = ref } } :
                    p \in DOMAIN s.patches }
    <3>1. SideUses(s, ref) = X
      BY <1>6 DEF SideUses
    <3>2. k \in 1..4 /\ b = 1
      BY <1>2, <1>3
    <3>3. ref = <<1, BlockSides[k]>> /\ \A p \in 1..4 : s.patches[p][1] = ref => p = k
      BY <1>4, <1>5, <3>2
    <3>4. s.patches[k][1] = ref
      BY <1>4, <3>2, <3>3
    <3> HIDE DEF ref
    <3>5. ASSUME NEW u \in X PROVE u = <<"patch", k, 1>>
      <4>1. PICK p \in DOMAIN s.patches :
               u \in { <<"patch", p, n>> : n \in { m \in DOMAIN s.patches[p] : s.patches[p][m] = ref } }
        OBVIOUS
      <4>2. PICK n \in DOMAIN s.patches[p] : s.patches[p][n] = ref /\ u = <<"patch", p, n>>
        BY <4>1
      <4>3. p \in 1..4 /\ n = 1
        BY <1>3, <1>4
      <4>4. p = k
        BY <3>3, <4>2, <4>3
      <4> QED BY <4>2, <4>3, <4>4
    <3>6. <<"patch", k, 1>> \in X
      <4> DEFINE Y == { <<"patch", k, n>> : n \in { m \in DOMAIN s.patches[k] : s.patches[k][m] = ref } }
      <4>1. 1 \in { m \in DOMAIN s.patches[k] : s.patches[k][m] = ref }
        BY <1>4, <3>2, <3>4
      <4>2. <<"patch", k, 1>> \in Y
        BY <4>1
      <4>3. k \in DOMAIN s.patches
        BY <1>3, <3>2
      <4> QED BY <4>2, <4>3
    <3> HIDE DEF X
    <3>7. X = {<<"patch", k, 1>>}
      BY <3>5, <3>6
    <3> QED BY <3>1, <3>7 DEF ref
  <2>3. \A b \in DOMAIN s.blocks, k \in DOMAIN BlockSides :
          LET uses == SideUses(s, <<b, BlockSides[k]>>)
          IN  \E use \in uses : uses = {use}
    <3> TAKE b \in DOMAIN s.blocks, k \in DOMAIN BlockSides
    <3> DEFINE u == <<"patch", k, 1>>
               uses == SideUses(s, <<b, BlockSides[k]>>)
    <3>1. uses = {u}
      BY <2>2
    <3> HIDE DEF u, uses
    <3>2. \E use \in uses : uses = {use}
      BY <3>1
    <3> QED BY <3>2 DEF uses
  <2> QED BY <1>6, <2>1, <2>3 DEF SidesAreUsedOnce
<1>9. InterfacesAreConformal(s)
  BY <1>6 DEF InterfacesAreConformal
<1>10. \A b \in DOMAIN s.blocks : Len(s.blocks[b].vertices) = (s.blocks[b].nx + 1) * (s.blocks[b].ny + 1)
  BY DEF Filled
<1> QED BY <1>1, <1>2, <1>6, <1>7, <1>8, <1>9, <1>10 DEF Joined

\* One block whose patches are the four usual ones has no interfaces.
LEMMA FourPatchesAlone ==
  ASSUME NEW s, Joined(s), Len(s.blocks) = 1, s.patches = FourPatches
  PROVE  IsOneBlock(s)
<1>1. Filled(s)
  BY DEF Joined, Filled
<1>2. DOMAIN s.interfaces = {}
  <2> SUFFICES ASSUME NEW m \in DOMAIN s.interfaces PROVE FALSE
    OBVIOUS
  <2> DEFINE r == s.interfaces[m].first
  <2>1. r = <<r[1], r[2]>> /\ r[1] \in DOMAIN s.blocks /\ r[2] \in Sides
    BY RefFacts
  <2>2. r[1] = 1
    <3>1. DOMAIN s.blocks = 1..1
      BY <1>1 DEF Filled, Shaped
    <3> QED BY <2>1, <3>1
  <2>3. PICK k \in DOMAIN BlockSides : BlockSides[k] = r[2]
    BY <2>1, SideNames
  <2>4. k \in DOMAIN s.patches /\ 1 \in DOMAIN s.patches[k] /\ s.patches[k][1] = <<1, BlockSides[k]>>
    BY DEF FourPatches
  <2>5. s.patches[k][1] = r
    BY <2>1, <2>2, <2>3, <2>4
  <2> QED BY <2>4, <2>5, UsedOnce
<1> QED BY <1>1, <1>2 DEF IsOneBlock

\* What the builders check of the files they accept.
IsBuilt(s) == Joined(s) /\ CellsAreConvex(s) /\ FacesJoinTwoCells(MeshOf(s))

\* What the readers make of mesh.json.
LEMMA FileFacts ==
  ASSUME NEW s \in Specs
  PROVE  /\ s = [type |-> s.type, box |-> s.box, blocks |-> s.blocks,
                 interfaces |-> s.interfaces, patches |-> s.patches]
         /\ s.blocks \in Seq(Blocks) /\ s.interfaces \in Seq(Interfaces)
         /\ s.patches \in Seq(Seq(SideRefs))
         /\ s.type = "structured_quad" =>
               Len(s.blocks) = 1 /\ s.interfaces = << >> /\ s.patches = FourPatches
<1>1. s \in MeshFiles
  BY MovingMeshAssumption
<1>2. s.type = "structured_quad" =>
        Len(s.blocks) = 1 /\ s.interfaces = << >> /\ s.patches = FourPatches
  BY MovingMeshAssumption
<1> QED BY <1>1, <1>2 DEF MeshFiles

\* What a structured_quad mesh's builder accepts has the shape the theorems need.
LEMMA QuadIsBuilt ==
  ASSUME NEW s \in Specs, s.type = "structured_quad", StructuredBuilds(s.blocks[1])
  PROVE  IsBuilt(s) /\ IsOneBlock(s) /\ MeshOf(s) = StructuredMesh(s.blocks[1])
<1> DEFINE nx == s.blocks[1].nx
           ny == s.blocks[1].ny
<1>1. /\ s.blocks \in Seq(Blocks) /\ Len(s.blocks) = 1
      /\ s.interfaces = << >> /\ s.patches = FourPatches
  BY FileFacts
<1>2. DOMAIN s.blocks = {1}
  BY <1>1
<1>3. Filled(s)
  BY <1>1, <1>2 DEF StructuredBuilds, Filled, Shaped
<1>4. IsOneBlock(s) /\ Joined(s)
  BY <1>1, <1>3, QuadIsOneBlock
<1>5. CellsAreConvex(s)
  BY <1>2 DEF StructuredBuilds, CellsAreConvex
<1>6. FacesJoinTwoCells(MeshOf(s))
  <2> SUFFICES ASSUME NEW f \in DOMAIN Faces(s) PROVE Faces(s)[f].owner # Faces(s)[f].neighbor
    BY DEF FacesJoinTwoCells, MeshOf
  <2> DEFINE e == FaceEdges(s)[f]
  <2>1. Faces(s)[f].owner = OwnerOf(s, e) /\ Faces(s)[f].neighbor = NeighborOf(s, e) /\ IsEdge(s, e)
    BY <1>3, FacesFacts DEF Filled, HasFace
  <2>2. nx \in Nat /\ nx > 0 /\ ny \in Nat /\ ny > 0 /\ Shaped(s)
    BY <1>4, OneBlockFacts
  <2> HIDE DEF e
  <2>3. /\ e = Edge(1, e.kind, e.i, e.j)
        /\ \/ e.kind = "vertical" /\ e.i \in 0..nx /\ e.j \in 0..(ny - 1)
           \/ e.kind = "horizontal" /\ e.i \in 0..(nx - 1) /\ e.j \in 0..ny
    <3>1. e = Edge(e.block, e.kind, e.i, e.j) /\ e.block \in DOMAIN s.blocks
      BY <2>1, <2>2, SideOfIs
    <3>2. e.block = 1
      BY <1>2, <3>1
    <3> QED BY <2>1, <3>1, <3>2 DEF IsEdge
  <2> DEFINE i == e.i
             j == e.j
  <2>4. CASE e.kind = "vertical"
    <3>1. e = Edge(1, "vertical", i, j) /\ i \in 0..nx /\ j \in 0..(ny - 1)
      BY <2>3, <2>4
    <3> HIDE DEF i, j
    <3>2. /\ OwnerOf(s, e) = j * nx + (IF i = 0 THEN 0 ELSE i - 1) + 1
          /\ NeighborOf(s, e) = IF i \in {0, nx} THEN NoCell ELSE j * nx + i + 1
      BY <1>4, <3>1, OneBlockFace
    <3>3. j * nx \in Nat
      BY <2>2, <3>1
    <3> HIDE DEF nx, ny
    <3>4. OwnerOf(s, e) # NeighborOf(s, e)
      BY <3>1, <3>2, <3>3 DEF NoCell
    <3> QED BY <2>1, <3>4
  <2>5. CASE e.kind = "horizontal"
    <3>1. e = Edge(1, "horizontal", i, j) /\ i \in 0..(nx - 1) /\ j \in 0..ny
      BY <2>3, <2>5
    <3> HIDE DEF i, j
    <3>2. /\ OwnerOf(s, e) = (IF j = 0 THEN 0 ELSE j - 1) * nx + i + 1
          /\ NeighborOf(s, e) = IF j \in {0, ny} THEN NoCell ELSE j * nx + i + 1
      BY <1>4, <3>1, OneBlockFace
    <3> HIDE DEF nx, ny
    <3>4. CASE j = 0
      BY <2>1, <2>2, <3>1, <3>2, <3>4 DEF NoCell
    <3>5. CASE j # 0
      <4>1. j - 1 \in Nat /\ (j - 1) * nx \in Nat /\ j * nx = (j - 1) * nx + nx
        BY <2>2, <3>1, <3>5
      <4>2. OwnerOf(s, e) # NeighborOf(s, e)
        BY <2>2, <3>1, <3>2, <3>5, <4>1 DEF NoCell
      <4> QED BY <2>1, <4>2
    <3>6. OwnerOf(s, e) # NeighborOf(s, e)
      BY <2>1, <3>4, <3>5
    <3> QED BY <2>1, <3>6
  <2> QED BY <2>3, <2>4, <2>5
<1> QED BY <1>4, <1>5, <1>6, StructuredIsMeshOf DEF IsBuilt

\* So does what createMultiBlock2D accepts.
LEMMA BlocksAreBuilt ==
  ASSUME NEW s \in Specs, Builds(s)
  PROVE  IsBuilt(s)
<1>1. /\ s.blocks \in Seq(Blocks) /\ s.interfaces \in Seq(Interfaces)
      /\ s.patches \in Seq(Seq(SideRefs))
  BY FileFacts
<1>2. Joined(s)
  BY <1>1 DEF Builds, BlocksAreWellFormed, Joined, Shaped
<1> QED BY <1>2 DEF Builds, IsBuilt

--------------------------------------------------------------------------------
(* Setting the geometry of a mesh.                                           *)

\* A mesh is made of cells, faces, patches and grids.
IsMesh(m) ==
  /\ m = [cells |-> m.cells, faces |-> m.faces, patches |-> m.patches, grids |-> m.grids]
  /\ m.faces = [f \in DOMAIN m.faces |->
                  [owner |-> m.faces[f].owner, neighbor |-> m.faces[f].neighbor,
                   mid2 |-> m.faces[f].mid2, area |-> m.faces[f].area]]
  /\ m.grids = [b \in DOMAIN m.grids |->
                  [nx |-> m.grids[b].nx, ny |-> m.grids[b].ny,
                   vertices |-> m.grids[b].vertices]]

\* A geometry that fits the mesh m.
Fits(g, m) ==
  g = [cells |-> g.cells,
       faces |-> [f \in DOMAIN m.faces |-> [mid2 |-> g.faces[f].mid2, area |-> g.faces[f].area]],
       grids |-> [b \in DOMAIN m.grids |-> g.grids[b]]]

\* What SetGeometry writes out.
LEMMA SetGeometryIs ==
  ASSUME NEW m, NEW g, IsMesh(m)
  PROVE  SetGeometry(m, g) =
           [cells |-> g.cells,
            faces |-> [f \in DOMAIN m.faces |->
                         [owner |-> m.faces[f].owner, neighbor |-> m.faces[f].neighbor,
                          mid2 |-> g.faces[f].mid2, area |-> g.faces[f].area]],
            patches |-> m.patches,
            grids |-> [b \in DOMAIN m.grids |->
                         [nx |-> m.grids[b].nx, ny |-> m.grids[b].ny, vertices |-> g.grids[b]]]]
<1> DEFINE faces == [f \in DOMAIN m.faces |-> [m.faces[f] EXCEPT !.mid2 = g.faces[f].mid2,
                                                                 !.area = g.faces[f].area]]
           grids == [b \in DOMAIN m.grids |-> [m.grids[b] EXCEPT !.vertices = g.grids[b]]]
           newFaces == [f \in DOMAIN m.faces |->
                         [owner |-> m.faces[f].owner, neighbor |-> m.faces[f].neighbor,
                          mid2 |-> g.faces[f].mid2, area |-> g.faces[f].area]]
           newGrids == [b \in DOMAIN m.grids |->
                         [nx |-> m.grids[b].nx, ny |-> m.grids[b].ny, vertices |-> g.grids[b]]]
<1>1. faces = newFaces
  <2> SUFFICES ASSUME NEW f \in DOMAIN m.faces PROVE faces[f] = newFaces[f]
    OBVIOUS
  <2>1. m.faces[f] = [owner |-> m.faces[f].owner, neighbor |-> m.faces[f].neighbor,
                      mid2 |-> m.faces[f].mid2, area |-> m.faces[f].area]
    BY DEF IsMesh
  <2>2. ASSUME NEW p, NEW a, NEW b, NEW c, NEW d, NEW u, NEW w,
               p = [owner |-> a, neighbor |-> b, mid2 |-> c, area |-> d]
        PROVE  [p EXCEPT !.mid2 = u, !.area = w] = [owner |-> a, neighbor |-> b, mid2 |-> u, area |-> w]
    <3> DEFINE q == [p EXCEPT !.mid2 = u]
               r == [q EXCEPT !.area = w]
    <3>1. q = [owner |-> a, neighbor |-> b, mid2 |-> u, area |-> d]
      BY <2>2
    <3>2. r = [owner |-> a, neighbor |-> b, mid2 |-> u, area |-> w]
      <4> HIDE DEF q
      <4> QED BY <3>1
    <3>3. [p EXCEPT !.mid2 = u, !.area = w] = r
      OBVIOUS
    <3> QED BY <3>2, <3>3
  <2>3. faces[f] = [m.faces[f] EXCEPT !.mid2 = g.faces[f].mid2, !.area = g.faces[f].area]
    OBVIOUS
  <2>4. newFaces[f] = [owner |-> m.faces[f].owner, neighbor |-> m.faces[f].neighbor,
                       mid2 |-> g.faces[f].mid2, area |-> g.faces[f].area]
    OBVIOUS
  <2> HIDE DEF faces, newFaces
  <2> QED BY <2>1, <2>2, <2>3, <2>4
<1>2. grids = newGrids
  <2> SUFFICES ASSUME NEW b \in DOMAIN m.grids PROVE grids[b] = newGrids[b]
    OBVIOUS
  <2>1. m.grids[b] = [nx |-> m.grids[b].nx, ny |-> m.grids[b].ny, vertices |-> m.grids[b].vertices]
    BY DEF IsMesh
  <2> QED BY <2>1
<1>3. SetGeometry(m, g) = [m EXCEPT !.cells = g.cells, !.faces = faces, !.grids = grids]
  BY DEF SetGeometry
<1> HIDE DEF faces, grids, newFaces, newGrids
<1>4. m = [cells |-> m.cells, faces |-> m.faces, patches |-> m.patches, grids |-> m.grids]
  BY DEF IsMesh
<1>5. SetGeometry(m, g) = [cells |-> g.cells, faces |-> faces, patches |-> m.patches, grids |-> grids]
  BY <1>3, <1>4
<1> QED BY <1>1, <1>2, <1>5 DEF newFaces, newGrids

\* A mesh that is given a geometry that fits has it, and keeps everything else.
LEMMA SetGeometryFacts ==
  ASSUME NEW m, NEW g, IsMesh(m), Fits(g, m)
  PROVE  /\ IsMesh(SetGeometry(m, g))
         /\ GeometryOf(SetGeometry(m, g)) = g
         /\ DOMAIN SetGeometry(m, g).faces = DOMAIN m.faces
         /\ DOMAIN SetGeometry(m, g).grids = DOMAIN m.grids
         /\ SetGeometry(m, g).cells = g.cells
         /\ \A h : SetGeometry(SetGeometry(m, g), h) = SetGeometry(m, h)
<1> DEFINE n == SetGeometry(m, g)
           faces == [f \in DOMAIN m.faces |->
                       [owner |-> m.faces[f].owner, neighbor |-> m.faces[f].neighbor,
                        mid2 |-> g.faces[f].mid2, area |-> g.faces[f].area]]
           grids == [b \in DOMAIN m.grids |->
                       [nx |-> m.grids[b].nx, ny |-> m.grids[b].ny, vertices |-> g.grids[b]]]
<1>1. n = [cells |-> g.cells, faces |-> faces, patches |-> m.patches, grids |-> grids]
  BY SetGeometryIs
<1>2. /\ DOMAIN faces = DOMAIN m.faces
      /\ \A f \in DOMAIN m.faces :
            /\ faces[f].owner = m.faces[f].owner /\ faces[f].neighbor = m.faces[f].neighbor
            /\ faces[f].mid2 = g.faces[f].mid2 /\ faces[f].area = g.faces[f].area
            /\ faces[f] = [owner |-> m.faces[f].owner, neighbor |-> m.faces[f].neighbor,
                           mid2 |-> g.faces[f].mid2, area |-> g.faces[f].area]
  OBVIOUS
<1>3. /\ DOMAIN grids = DOMAIN m.grids
      /\ \A b \in DOMAIN m.grids :
            /\ grids[b].nx = m.grids[b].nx /\ grids[b].ny = m.grids[b].ny
            /\ grids[b].vertices = g.grids[b]
            /\ grids[b] = [nx |-> m.grids[b].nx, ny |-> m.grids[b].ny, vertices |-> g.grids[b]]
  OBVIOUS
<1>a. faces = [f \in DOMAIN faces |-> faces[f]] /\ grids = [b \in DOMAIN grids |-> grids[b]]
  OBVIOUS
<1> HIDE DEF n, faces, grids
<1>4. n.cells = g.cells /\ n.faces = faces /\ n.patches = m.patches /\ n.grids = grids
  BY <1>1
<1>5. IsMesh(n)
  BY <1>1, <1>2, <1>3, <1>4, <1>a DEF IsMesh
<1>6. GeometryOf(n) = g
  <2>1. [f \in DOMAIN n.faces |-> [mid2 |-> n.faces[f].mid2, area |-> n.faces[f].area]]
          = [f \in DOMAIN m.faces |-> [mid2 |-> g.faces[f].mid2, area |-> g.faces[f].area]]
    BY <1>2, <1>4
  <2>2. [b \in DOMAIN n.grids |-> n.grids[b].vertices] = [b \in DOMAIN m.grids |-> g.grids[b]]
    BY <1>3, <1>4
  <2> QED BY <1>4, <2>1, <2>2 DEF GeometryOf, Fits
<1>7. ASSUME NEW h PROVE SetGeometry(n, h) = SetGeometry(m, h)
  <2>1. SetGeometry(n, h) =
           [cells |-> h.cells,
            faces |-> [f \in DOMAIN n.faces |->
                         [owner |-> n.faces[f].owner, neighbor |-> n.faces[f].neighbor,
                          mid2 |-> h.faces[f].mid2, area |-> h.faces[f].area]],
            patches |-> n.patches,
            grids |-> [b \in DOMAIN n.grids |->
                         [nx |-> n.grids[b].nx, ny |-> n.grids[b].ny, vertices |-> h.grids[b]]]]
    BY <1>5, SetGeometryIs
  <2>2. SetGeometry(m, h) =
           [cells |-> h.cells,
            faces |-> [f \in DOMAIN m.faces |->
                         [owner |-> m.faces[f].owner, neighbor |-> m.faces[f].neighbor,
                          mid2 |-> h.faces[f].mid2, area |-> h.faces[f].area]],
            patches |-> m.patches,
            grids |-> [b \in DOMAIN m.grids |->
                         [nx |-> m.grids[b].nx, ny |-> m.grids[b].ny, vertices |-> h.grids[b]]]]
    BY SetGeometryIs
  <2>3. [f \in DOMAIN n.faces |->
                         [owner |-> n.faces[f].owner, neighbor |-> n.faces[f].neighbor,
                          mid2 |-> h.faces[f].mid2, area |-> h.faces[f].area]]
        = [f \in DOMAIN m.faces |->
                         [owner |-> m.faces[f].owner, neighbor |-> m.faces[f].neighbor,
                          mid2 |-> h.faces[f].mid2, area |-> h.faces[f].area]]
    BY <1>2, <1>4
  <2>4. [b \in DOMAIN n.grids |->
                         [nx |-> n.grids[b].nx, ny |-> n.grids[b].ny, vertices |-> h.grids[b]]]
        = [b \in DOMAIN m.grids |->
                         [nx |-> m.grids[b].nx, ny |-> m.grids[b].ny, vertices |-> h.grids[b]]]
    BY <1>3, <1>4
  <2> QED BY <1>4, <2>1, <2>2, <2>3, <2>4
<1> QED BY <1>2, <1>3, <1>4, <1>5, <1>6, <1>7 DEF n

--------------------------------------------------------------------------------
(* What the builders make is a mesh; any geometry of its vertices fits it.   *)

\* The builders make meshes.
LEMMA BuiltIsMesh ==
  ASSUME NEW s, s.blocks \in Seq(Blocks)
  PROVE  IsMesh(MeshOf(s))
<1> DEFINE blocks == s.blocks
           edges == FaceEdges(s)
           face(e) == [ owner |-> OwnerOf(s, e), neighbor |-> NeighborOf(s, e),
                        mid2 |-> EdgeGeometry(s, e).mid2, area |-> EdgeGeometry(s, e).area ]
           m == MeshOf(s)
<1>1. blocks = [b \in DOMAIN blocks |->
                  [nx |-> blocks[b].nx, ny |-> blocks[b].ny, vertices |-> blocks[b].vertices]]
  <2>1. blocks \in Seq(Blocks)
    OBVIOUS
  <2> HIDE DEF blocks
  <2>2. blocks = [b \in DOMAIN blocks |-> blocks[b]] /\ \A b \in DOMAIN blocks : blocks[b] \in Blocks
    BY <2>1
  <2>3. \A b \in DOMAIN blocks :
          blocks[b] = [nx |-> blocks[b].nx, ny |-> blocks[b].ny, vertices |-> blocks[b].vertices]
    BY <2>2 DEF Blocks
  <2> QED BY <2>2, <2>3
<1>2. Faces(s) = [f \in DOMAIN edges |-> face(edges[f])]
  BY DEF Faces
<1>3. \A e : face(e) = [owner |-> face(e).owner, neighbor |-> face(e).neighbor,
                        mid2 |-> face(e).mid2, area |-> face(e).area]
  OBVIOUS
<1>4. m = [cells |-> Cells(s), faces |-> Faces(s), patches |-> Patches(s), grids |-> blocks]
  BY DEF MeshOf
<1> HIDE DEF face, edges, blocks, m
<1>5. Faces(s) = [f \in DOMAIN Faces(s) |->
                    [owner |-> Faces(s)[f].owner, neighbor |-> Faces(s)[f].neighbor,
                     mid2 |-> Faces(s)[f].mid2, area |-> Faces(s)[f].area]]
  BY <1>2, <1>3
<1>6. /\ m.cells = Cells(s) /\ m.faces = Faces(s) /\ m.patches = Patches(s) /\ m.grids = blocks
  BY <1>4
<1>7. IsMesh(m)
  BY <1>1, <1>4, <1>5, <1>6 DEF IsMesh
<1> QED BY <1>7 DEF m

\* The geometry of any vertices fits the mesh the topology was made from.
LEMMA GeometryFits ==
  ASSUME NEW m, NEW t, t = StructuredTopology(m), NEW vertices
  PROVE  /\ Fits(ComputeGeometry(t, vertices), m)
         /\ ComputeGeometry(t, vertices) # << >>
<1> DEFINE g == ComputeGeometry(t, vertices)
<1>1. DOMAIN t.faces = DOMAIN m.faces /\ DOMAIN t.blockVertexIds = DOMAIN m.grids
  BY DEF StructuredTopology
<1>2. g = [cells |-> g.cells, faces |-> g.faces, grids |-> g.grids]
  BY DEF ComputeGeometry
<1>3. g.faces = [f \in DOMAIN m.faces |-> [mid2 |-> g.faces[f].mid2, area |-> g.faces[f].area]]
  <2> DEFINE face(f) == EdgeFace(t.faces[f], vertices[t.faces[f].a], vertices[t.faces[f].b])
  <2>1. g.faces = [f \in DOMAIN t.faces |-> face(f)]
    BY DEF ComputeGeometry
  <2>2. \A f : face(f) = [mid2 |-> face(f).mid2, area |-> face(f).area]
    BY DEF EdgeFace, VerticalEdgeFace, HorizontalEdgeFace
  <2> HIDE DEF face, g
  <2> QED BY <1>1, <2>1, <2>2
<1>4. g.grids = [b \in DOMAIN m.grids |-> g.grids[b]]
  <2>1. g.grids = [ b \in DOMAIN t.blockVertexIds |->
                     [ n \in DOMAIN t.blockVertexIds[b] |-> vertices[t.blockVertexIds[b][n]] ] ]
    BY DEF ComputeGeometry
  <2> HIDE DEF g
  <2> QED BY <1>1, <2>1
<1>5. g # << >>
  <2>1. DOMAIN g = {"cells", "faces", "grids"}
    BY DEF ComputeGeometry
  <2>2. DOMAIN << >> = {}
    OBVIOUS
  <2> QED BY <2>1, <2>2
<1> HIDE DEF g
<1> QED BY <1>2, <1>3, <1>4, <1>5 DEF Fits, g

--------------------------------------------------------------------------------
(* Welding the vertices of the blocks.                                       *)

\* One vertex is welded to those before it.
Weld(welded, v) == IF Contains(welded, v) THEN welded ELSE Append(welded, v)

\* The recursion of WeldedVertices: g[n] is what the first n vertices weld to.
Welds(g, all) ==
  g = [n \in 0..Len(all) |-> IF n = 0 THEN << >> ELSE Weld(g[n - 1], all[n])]

\* The recursion that WeldedVertices is defined by has a solution.
LEMMA WeldExists ==
  ASSUME NEW T, NEW all \in Seq(T)
  PROVE  \E g : Welds(g, all)
<1> DEFINE Upto(m) == \E g : g = [n \in 0..m |-> IF n = 0 THEN << >> ELSE Weld(g[n - 1], all[n])]
           bad == {n \in Nat : ~Upto(n)}
<1>1. bad = {}
  <2> SUFFICES ASSUME bad # {} PROVE FALSE
    OBVIOUS
  <2>1. bad \in SUBSET Nat
    OBVIOUS
  <2>2. PICK m \in bad : \A k \in bad : m <= k
    <3> HIDE DEF bad
    <3> QED BY <2>1, LeastNatural
  <2>3. m \in Nat /\ ~Upto(m)
    OBVIOUS
  <2>4. CASE m = 0
    <3> DEFINE g == [n \in 0..m |-> << >>]
    <3>1. g = [n \in 0..m |-> IF n = 0 THEN << >> ELSE Weld(g[n - 1], all[n])]
      BY <2>4
    <3> QED BY <2>3, <3>1
  <2>5. CASE m > 0
    <3>1. m - 1 \in Nat /\ ~(m <= m - 1)
      BY <2>3, <2>5
    <3>2. Upto(m - 1)
      <4> HIDE DEF Upto
      <4> QED BY <2>2, <3>1
    <3>3. PICK g : g = [n \in 0..(m - 1) |-> IF n = 0 THEN << >> ELSE Weld(g[n - 1], all[n])]
      BY <3>2
    <3> DEFINE h == [n \in 0..m |-> IF n = 0 THEN << >> ELSE Weld(g[n - 1], all[n])]
    <3>4. \A n \in 0..(m - 1) : h[n] = g[n]
      <4> TAKE n \in 0..(m - 1)
      <4>1. n \in 0..m
        BY <2>3
      <4>2. g[n] = IF n = 0 THEN << >> ELSE Weld(g[n - 1], all[n])
        BY <3>3
      <4> QED BY <4>1, <4>2
    <3>5. \A n \in 0..m : n # 0 => n - 1 \in 0..(m - 1)
      BY <2>3
    <3>6. h = [n \in 0..m |-> IF n = 0 THEN << >> ELSE Weld(h[n - 1], all[n])]
      <4>1. \A n \in 0..m : n # 0 => h[n - 1] = g[n - 1]
        BY <3>4, <3>5
      <4>2. h = [n \in 0..m |-> IF n = 0 THEN << >> ELSE Weld(g[n - 1], all[n])]
        OBVIOUS
      <4> HIDE DEF h
      <4> QED BY <4>1, <4>2
    <3> HIDE DEF h
    <3> QED BY <2>3, <3>6
  <2> QED BY <2>3, <2>4, <2>5
<1>2. Len(all) \in Nat
  OBVIOUS
<1>3. Upto(Len(all))
  BY <1>1, <1>2
<1> QED BY <1>3 DEF Welds

\* The vertices of the blocks, block by block.
VertexLists(grids) == [b \in DOMAIN grids |-> grids[b].vertices]

\* Welding keeps one of each of the vertices.
LEMMA WeldedFacts ==
  ASSUME NEW T, NEW grids, VertexLists(grids) \in Seq(Seq(T))
  PROVE  /\ WeldedVertices(grids) \in Seq(T)
         /\ \A b \in DOMAIN grids : \A n \in 1..Len(grids[b].vertices) :
               \E k \in DOMAIN WeldedVertices(grids) :
                  WeldedVertices(grids)[k] = grids[b].vertices[n]
<1> DEFINE lists == VertexLists(grids)
           all == FlattenSeq(lists)
           weld[n \in 0..Len(all)] ==
             IF n = 0 THEN << >> ELSE LET welded == weld[n - 1] IN Weld(welded, all[n])
<1>1. /\ all \in Seq(T) /\ Len(all) \in Nat
      /\ \A b \in DOMAIN grids : \A n \in 1..Len(grids[b].vertices) :
            \E m \in 1..Len(all) : all[m] = grids[b].vertices[n]
  <2>1. ASSUME NEW seqs \in Seq(Seq(T))
        PROVE  /\ FlattenSeq(seqs) \in Seq(T)
               /\ \A i \in 1..Len(seqs) : \A j \in 1..Len(seqs[i]) :
                     \E n \in 1..Len(FlattenSeq(seqs)) : FlattenSeq(seqs)[n] = seqs[i][j]
    BY FlattenFacts
  <2>2. DOMAIN grids = DOMAIN lists /\ \A b \in DOMAIN grids : lists[b] = grids[b].vertices
    BY DEF VertexLists
  <2>3. lists \in Seq(Seq(T))
    OBVIOUS
  <2> HIDE DEF lists
  <2>4. DOMAIN lists = 1..Len(lists)
    BY <2>3
  <2>5. Len(all) \in Nat
    BY <2>1, <2>3
  <2>6. ASSUME NEW b \in DOMAIN grids, NEW n \in 1..Len(grids[b].vertices)
        PROVE  \E m \in 1..Len(all) : all[m] = grids[b].vertices[n]
    <3>1. b \in 1..Len(lists) /\ n \in 1..Len(lists[b])
      BY <2>2, <2>4
    <3>2. PICK m \in 1..Len(FlattenSeq(lists)) : FlattenSeq(lists)[m] = lists[b][n]
      BY <2>1, <2>3, <3>1
    <3> QED BY <2>2, <3>2
  <2> HIDE DEF all
  <2>7. FlattenSeq(lists) \in Seq(T)
    BY <2>1, <2>3
  <2> QED BY <2>5, <2>6, <2>7 DEF all
<1>2. Welds(weld, all)
  <2>1. \E g : Welds(g, all)
    BY <1>1, WeldExists
  <2>2. Welds(CHOOSE g : Welds(g, all), all)
    BY <2>1
  <2> QED BY <2>2 DEF weld, Welds
<1>3. WeldedVertices(grids) = weld[Len(all)]
  BY DEF WeldedVertices, VertexLists, Weld
<1> HIDE DEF lists, all, weld
<1>4. \A n \in 0..Len(all) : weld[n] = IF n = 0 THEN << >> ELSE Weld(weld[n - 1], all[n])
  BY <1>2 DEF Welds
<1> DEFINE Holds(n) == /\ weld[n] \in Seq(T)
                       /\ \A m \in 1..n : \E k \in 1..Len(weld[n]) : weld[n][k] = all[m]
           bad == {n \in 0..Len(all) : ~Holds(n)}
<1>5. bad = {}
  <2> SUFFICES ASSUME bad # {} PROVE FALSE
    OBVIOUS
  <2>1. bad \in SUBSET Nat
    BY <1>1
  <2>2. PICK n \in bad : \A k \in bad : n <= k
    <3> HIDE DEF bad
    <3> QED BY <2>1, LeastNatural
  <2>3. n \in 0..Len(all) /\ ~Holds(n)
    OBVIOUS
  <2>4. CASE n = 0
    <3>1. weld[n] = << >>
      BY <1>4, <2>3, <2>4
    <3> QED BY <2>3, <2>4, <3>1
  <2>5. CASE n # 0
    <3>1. n - 1 \in 0..Len(all) /\ ~(n <= n - 1) /\ n \in 1..Len(all)
      BY <1>1, <2>3, <2>5
    <3>2. Holds(n - 1)
      <4> HIDE DEF Holds
      <4> QED BY <2>2, <3>1
    <3> DEFINE a == weld[n - 1]
               c == weld[n]
               v == all[n]
    <3>3. c = Weld(a, v) /\ v \in T
      BY <1>1, <1>4, <2>3, <2>5, <3>1
    <3>4. a \in Seq(T) /\ \A m \in 1..(n - 1) : \E k \in 1..Len(a) : a[k] = all[m]
      BY <3>2
    <3> HIDE DEF a, c
    <3>5. /\ c \in Seq(T)
          /\ \A k \in 1..Len(a) : k \in 1..Len(c) /\ c[k] = a[k]
          /\ \E k \in 1..Len(c) : c[k] = v
      <4>1. CASE Contains(a, v)
        BY <3>3, <3>4, <4>1 DEF Weld, Contains
      <4>2. CASE ~Contains(a, v)
        <5>1. c = Append(a, v)
          BY <3>3, <4>2 DEF Weld
        <5>2. Len(c) = Len(a) + 1 /\ c[Len(a) + 1] = v /\ c \in Seq(T)
              /\ \A k \in 1..Len(a) : c[k] = a[k]
          BY <3>3, <3>4, <5>1
        <5>3. Len(a) \in Nat
          BY <3>4
        <5>4. Len(a) + 1 \in 1..Len(c) /\ \A k \in 1..Len(a) : k \in 1..Len(c)
          BY <5>2, <5>3
        <5> QED BY <5>2, <5>4
      <4> QED BY <4>1, <4>2
    <3>6. ASSUME NEW m \in 1..n PROVE \E k \in 1..Len(c) : c[k] = all[m]
      <4>1. CASE m = n
        BY <3>5, <4>1
      <4>2. CASE m # n
        <5>1. m \in 1..(n - 1)
          BY <3>1, <4>2
        <5>2. PICK k \in 1..Len(a) : a[k] = all[m]
          BY <3>4, <5>1
        <5> QED BY <3>5, <5>2
      <4> QED BY <4>1, <4>2
    <3>7. Holds(n)
      BY <3>5, <3>6 DEF c
    <3> QED BY <2>3, <3>7
  <2> QED BY <2>4, <2>5
<1>6. Len(all) \in 0..Len(all)
  BY <1>1
<1>7. Holds(Len(all))
  <2> HIDE DEF Holds
  <2> QED BY <1>5, <1>6
<1> DEFINE w == weld[Len(all)]
<1>8. w \in Seq(T) /\ \A m \in 1..Len(all) : \E k \in 1..Len(w) : w[k] = all[m]
  BY <1>7
<1> HIDE DEF w, Holds, bad
<1>9. DOMAIN w = 1..Len(w)
  BY <1>8
<1>10. WeldedVertices(grids) = w
  BY <1>3 DEF w
<1>11. ASSUME NEW b \in DOMAIN grids, NEW n \in 1..Len(grids[b].vertices)
       PROVE  \E k \in 1..Len(w) : w[k] = grids[b].vertices[n]
  BY <1>1, <1>8
<1> QED BY <1>8, <1>9, <1>10, <1>11

--------------------------------------------------------------------------------
(* Files of one shape: what does not depend on where the vertices are.       *)

\* The same blocks, joined in the same way, with their vertices elsewhere.
SameShape(s, r) ==
  /\ Shaped(s) /\ Shaped(r)
  /\ DOMAIN r.blocks = DOMAIN s.blocks
  /\ \A b \in DOMAIN s.blocks :
        r.blocks[b].nx = s.blocks[b].nx /\ r.blocks[b].ny = s.blocks[b].ny
  /\ r.interfaces = s.interfaces
  /\ r.patches = s.patches

\* Files of one shape have the same cells.
LEMMA SameCells ==
  ASSUME NEW s, NEW r, SameShape(s, r)
  PROVE  /\ CellPlaces(r) = CellPlaces(s)
         /\ \A b \in DOMAIN s.blocks : \A i, j : GlobalCell(r, b, i, j) = GlobalCell(s, b, i, j)
         /\ \A b, i, j : IsCell(r, b, i, j) <=> IsCell(s, b, i, j)
<1>1. /\ Shaped(s) /\ Shaped(r) /\ DOMAIN r.blocks = DOMAIN s.blocks
      /\ \A b \in DOMAIN s.blocks :
            r.blocks[b].nx = s.blocks[b].nx /\ r.blocks[b].ny = s.blocks[b].ny
  BY DEF SameShape
<1>2. /\ DOMAIN s.blocks = 1..Len(s.blocks) /\ Len(s.blocks) \in Nat
      /\ DOMAIN r.blocks = 1..Len(r.blocks) /\ Len(r.blocks) \in Nat
  BY <1>1, ShapedFacts
<1>3. Len(r.blocks) = Len(s.blocks)
  BY <1>1, <1>2
<1>4. CellPlaces(r) = CellPlaces(s)
  <2> DEFINE list(t, b) == [ c \in 1..(t.blocks[b].nx * t.blocks[b].ny) |->
                               <<b, (c - 1) % t.blocks[b].nx, (c - 1) \div t.blocks[b].nx>> ]
  <2>1. \A b \in DOMAIN s.blocks : list(r, b) = list(s, b)
    BY <1>1
  <2>2. /\ CellPlaces(r) = FlattenSeq([ b \in DOMAIN r.blocks |-> list(r, b) ])
        /\ CellPlaces(s) = FlattenSeq([ b \in DOMAIN s.blocks |-> list(s, b) ])
    BY DEF CellPlaces
  <2> HIDE DEF list
  <2>3. [ b \in DOMAIN r.blocks |-> list(r, b) ] = [ b \in DOMAIN s.blocks |-> list(s, b) ]
    BY <1>1, <2>1
  <2> QED BY <2>2, <2>3
<1>5. \A b \in 1..(Len(s.blocks) + 1) : CellOffset(r)[b] = CellOffset(s)[b]
  <2> DEFINE f == CellOffset(r)
             g == CellOffset(s)
             N == Len(s.blocks)
  <2>1. /\ f[1] = 0 /\ g[1] = 0
        /\ \A b \in 1..N : f[b + 1] = f[b] + r.blocks[b].nx * r.blocks[b].ny
        /\ \A b \in 1..N : g[b + 1] = g[b] + s.blocks[b].nx * s.blocks[b].ny
    BY <1>1, <1>3, OffsetSteps
  <2> HIDE DEF f, g
  <2>2. SameSteps(f, g, N)
    BY <1>1, <1>2, <2>1 DEF SameSteps
  <2>3. \A b \in 1..(N + 1) : f[b] = g[b]
    BY <1>2, <2>2, OffsetsUnique
  <2> QED BY <2>3 DEF f, g
<1>6. ASSUME NEW b \in DOMAIN s.blocks, NEW i, NEW j
      PROVE  GlobalCell(r, b, i, j) = GlobalCell(s, b, i, j)
  <2>1. CellOffset(r)[b] = CellOffset(s)[b]
    BY <1>2, <1>5
  <2> QED BY <1>1, <2>1 DEF GlobalCell
<1>7. ASSUME NEW b, NEW i, NEW j
      PROVE  IsCell(r, b, i, j) <=> IsCell(s, b, i, j)
  BY <1>1 DEF IsCell
<1> QED BY <1>4, <1>6, <1>7

\* They have the same edges on the same sides.
LEMMA SameEdges ==
  ASSUME NEW s, NEW r, SameShape(s, r)
  PROVE  /\ FaceEdges(r) = FaceEdges(s)
         /\ \A e : IsEdge(r, e) <=> IsEdge(s, e)
         /\ \A e : IsEdge(s, e) => SideOf(r, e) = SideOf(s, e)
         /\ \A ref : (IsFirst(r, ref) <=> IsFirst(s, ref)) /\ (IsSecond(r, ref) <=> IsSecond(s, ref))
<1>1. /\ Shaped(s) /\ Shaped(r) /\ DOMAIN r.blocks = DOMAIN s.blocks
      /\ \A b \in DOMAIN s.blocks :
            r.blocks[b].nx = s.blocks[b].nx /\ r.blocks[b].ny = s.blocks[b].ny
      /\ r.interfaces = s.interfaces
  BY DEF SameShape
<1>2. ASSUME NEW e PROVE IsEdge(r, e) <=> IsEdge(s, e)
  BY <1>1 DEF IsEdge
<1>3. ASSUME NEW e, IsEdge(s, e) PROVE SideOf(r, e) = SideOf(s, e)
  <2>1. e.block \in DOMAIN s.blocks
    BY <1>3 DEF IsEdge
  <2>2. s.blocks[e.block].nx = r.blocks[e.block].nx /\ s.blocks[e.block].ny = r.blocks[e.block].ny
    BY <1>1, <2>1
  <2> QED BY <2>2 DEF SideOf
<1>4. ASSUME NEW ref PROVE (IsFirst(r, ref) <=> IsFirst(s, ref)) /\ (IsSecond(r, ref) <=> IsSecond(s, ref))
  BY <1>1 DEF IsFirst, IsSecond
<1>5. FaceEdges(r) = FaceEdges(s)
  <2> DEFINE lists == [ b \in DOMAIN s.blocks |-> BlockEdges(s, b) ]
             all == FlattenSeq(lists)
             one(t, e) == IF IsSecond(t, SideOf(t, e)) THEN << >> ELSE << e >>
  <2>1. \A b \in DOMAIN s.blocks : BlockEdges(r, b) = BlockEdges(s, b)
    BY <1>1 DEF BlockEdges
  <2>2. [ b \in DOMAIN r.blocks |-> BlockEdges(r, b) ] = lists
    BY <1>1, <2>1
  <2>3. /\ FaceEdges(s) = FlattenSeq([ n \in DOMAIN all |-> one(s, all[n]) ])
        /\ FaceEdges(r) = FlattenSeq([ n \in DOMAIN all |-> one(r, all[n]) ])
    BY <2>2 DEF FaceEdges
  <2>4. \A n \in DOMAIN all : IsEdge(s, all[n])
    <3> DEFINE L == Len(s.blocks)
    <3>1. DOMAIN s.blocks = 1..L /\ L \in Nat
      BY <1>1, ShapedFacts
    <3>2. \A b \in 1..L : lists[b] = BlockEdges(s, b) /\ lists[b] \in Seq(EdgeRecords)
      BY <1>1, <3>1, BlockEdgesFacts
    <3>3. lists = [b \in 1..L |-> lists[b]]
      BY <3>1
    <3> HIDE DEF lists, L
    <3>4. lists \in Seq(Seq(EdgeRecords)) /\ Len(lists) = L
      BY <3>1, <3>2, <3>3, IsSequence
    <3>5. all \in Seq(EdgeRecords)
      BY <3>4, FlattenFacts
    <3> TAKE n \in DOMAIN all
    <3>6. n \in 1..Len(all)
      <4> HIDE DEF all
      <4> QED BY <3>5
    <3>7. PICK b \in 1..Len(lists) : \E j \in 1..Len(lists[b]) : all[n] = lists[b][j]
      BY <3>4, <3>6, FlattenOnto
    <3>8. PICK j \in 1..Len(lists[b]) : all[n] = lists[b][j]
      BY <3>7
    <3>9. b \in DOMAIN s.blocks /\ lists[b] = BlockEdges(s, b)
      BY <3>1, <3>2, <3>4
    <3>10. IsEdge(s, BlockEdges(s, b)[j])
      BY <1>1, <3>8, <3>9, BlockEdgesFacts
    <3> QED BY <3>8, <3>9, <3>10
  <2> HIDE DEF all, one
  <2>5. \A n \in DOMAIN all : one(r, all[n]) = one(s, all[n])
    BY <1>3, <1>4, <2>4 DEF one
  <2>6. [ n \in DOMAIN all |-> one(r, all[n]) ] = [ n \in DOMAIN all |-> one(s, all[n]) ]
    BY <2>5
  <2> QED BY <2>3, <2>6
<1> QED BY <1>2, <1>3, <1>4, <1>5

\* Owners, neighbours and patches.
LEMMA SameNeighbors ==
  ASSUME NEW s, NEW r, SameShape(s, r), Joined(s)
  PROVE  /\ \A e : IsEdge(s, e) => OwnerOf(r, e) = OwnerOf(s, e) /\ NeighborOf(r, e) = NeighborOf(s, e)
         /\ Patches(r) = Patches(s)
<1>1. /\ Shaped(s) /\ Shaped(r) /\ DOMAIN r.blocks = DOMAIN s.blocks
      /\ \A b \in DOMAIN s.blocks :
            r.blocks[b].nx = s.blocks[b].nx /\ r.blocks[b].ny = s.blocks[b].ny
      /\ r.interfaces = s.interfaces /\ r.patches = s.patches
  BY DEF SameShape
<1>2. /\ \A b \in DOMAIN s.blocks : \A side, n :
            SideCell(r.blocks[b], side, n) = SideCell(s.blocks[b], side, n)
      /\ \A b \in DOMAIN s.blocks : \A side :
            SideFaceCount(r.blocks[b], side) = SideFaceCount(s.blocks[b], side)
  BY <1>1 DEF SideCell, SideFaceCount
<1>3. ASSUME NEW e, IsEdge(s, e) PROVE OwnerOf(r, e) = OwnerOf(s, e)
  <2>1. e.block \in DOMAIN s.blocks /\ SideOf(r, e) = SideOf(s, e)
    BY <1>3, SameEdges DEF IsEdge
  <2> DEFINE cell(t) == IF SideOf(t, e) # NoSide THEN SideCell(t.blocks[e.block], SideOf(t, e)[2], AlongSide(e))
                        ELSE IF e.kind = "vertical" THEN <<e.i - 1, e.j>> ELSE <<e.i, e.j - 1>>
  <2>2. cell(r) = cell(s)
    BY <1>2, <2>1
  <2>3. /\ OwnerOf(r, e) = GlobalCell(r, e.block, cell(r)[1], cell(r)[2])
        /\ OwnerOf(s, e) = GlobalCell(s, e.block, cell(s)[1], cell(s)[2])
    BY DEF OwnerOf
  <2> HIDE DEF cell
  <2> QED BY <2>1, <2>2, <2>3, SameCells
<1>4. ASSUME NEW e, IsEdge(s, e) PROVE NeighborOf(r, e) = NeighborOf(s, e)
  <2>1. e.block \in DOMAIN s.blocks /\ SideOf(r, e) = SideOf(s, e)
    BY <1>4, SameEdges DEF IsEdge
  <2> DEFINE side == SideOf(s, e)
  <2>2. CASE side = NoSide
    <3>1. /\ NeighborOf(r, e) = GlobalCell(r, e.block, e.i, e.j)
          /\ NeighborOf(s, e) = GlobalCell(s, e.block, e.i, e.j)
      BY <2>1, <2>2 DEF NeighborOf
    <3> QED BY <2>1, <3>1, SameCells
  <2>3. CASE side # NoSide /\ ~IsFirst(s, side)
    <3>1. ~IsFirst(r, side)
      BY <2>3, SameEdges
    <3> QED BY <2>1, <2>3, <3>1 DEF NeighborOf
  <2>4. CASE side # NoSide /\ IsFirst(s, side)
    <3> DEFINE i == CHOOSE x \in ToSet(s.interfaces) : x.first = side
               b == i.second[1]
               cell(t) == SideCell(t.blocks[b], i.second[2], PartnerFace(t, i, AlongSide(e)))
    <3>1. IsFirst(r, side)
      BY <2>4, SameEdges
    <3>2. /\ NeighborOf(r, e) = GlobalCell(r, b, cell(r)[1], cell(r)[2])
          /\ NeighborOf(s, e) = GlobalCell(s, b, cell(s)[1], cell(s)[2])
      BY <1>1, <2>1, <2>4, <3>1 DEF NeighborOf
    <3>3. b \in DOMAIN s.blocks
      <4>1. \E x \in ToSet(s.interfaces) : x.first = side
        BY <2>4 DEF IsFirst, ToSet
      <4>2. i \in ToSet(s.interfaces)
        BY <4>1
      <4> HIDE DEF i
      <4>3. PICK n \in DOMAIN s.interfaces : i = s.interfaces[n]
        BY <4>2 DEF ToSet
      <4> QED BY <4>3, RefFacts
    <3> HIDE DEF i, side
    <3>4. PartnerFace(r, i, AlongSide(e)) = PartnerFace(s, i, AlongSide(e))
      BY <1>2, <3>3 DEF PartnerFace
    <3>5. cell(r) = cell(s)
      BY <1>2, <3>3, <3>4
    <3> HIDE DEF b, cell
    <3> QED BY <3>2, <3>3, <3>5, SameCells
  <2> QED BY <2>2, <2>3, <2>4
<1>5. Patches(r) = Patches(s)
  <2> DEFINE edges == FaceEdges(s)
             pick(t, p, n) == [ f \in DOMAIN edges |->
                                  IF SideOf(t, edges[f]) = s.patches[p][n] THEN << f >> ELSE << >> ]
  <2>1. /\ Patches(s) = [ p \in DOMAIN s.patches |->
              FlattenSeq([ n \in DOMAIN s.patches[p] |-> FlattenSeq(pick(s, p, n)) ]) ]
        /\ Patches(r) = [ p \in DOMAIN s.patches |->
              FlattenSeq([ n \in DOMAIN s.patches[p] |-> FlattenSeq(pick(r, p, n)) ]) ]
    <3>1. FaceEdges(r) = edges
      BY SameEdges
    <3> QED BY <1>1, <3>1 DEF Patches
  <2>2. \A f \in DOMAIN edges : SideOf(r, edges[f]) = SideOf(s, edges[f])
    <3>1. DOMAIN edges = 1..Len(edges) /\ \A f \in 1..Len(edges) : IsEdge(s, edges[f])
      BY <1>1, FacesFacts, FaceEdgesFacts
    <3> HIDE DEF edges
    <3> QED BY <3>1, SameEdges
  <2> HIDE DEF edges
  <2>3. \A p, n : pick(r, p, n) = pick(s, p, n)
    BY <2>2
  <2> HIDE DEF pick
  <2> QED BY <2>1, <2>3
<1> QED BY <1>3, <1>4, <1>5

--------------------------------------------------------------------------------
(* The vertex map of a mesh that was built.                                  *)

\* A block with the numbers of its vertices in place of them.
IdBlock(s, t, b) == [nx |-> s.blocks[b].nx, ny |-> s.blocks[b].ny, vertices |-> t.blockVertexIds[b]]

\* The vertex pair of an edge, with the builder's formula for its face.
EdgeSide(s, t, e) ==
  LET at(i, j) == Vertex(IdBlock(s, t, e.block), i, j)
  IN  IF e.kind = "vertical"
      THEN [a |-> at(e.i, e.j), b |-> at(e.i, e.j + 1), vertical |-> TRUE, negate |-> e.i = 0]
      ELSE [a |-> at(e.i, e.j), b |-> at(e.i + 1, e.j), vertical |-> FALSE, negate |-> e.j = 0]

\* The numbers of the blocks' vertices: one for each point.
NumbersVertices(s, t) ==
  /\ t.vertices \in Seq(Points)
  /\ DOMAIN t.blockVertexIds = DOMAIN s.blocks
  /\ t.blockVertexIds = [b \in DOMAIN s.blocks |-> t.blockVertexIds[b]]
  /\ \A b \in DOMAIN s.blocks :
        t.blockVertexIds[b] \in [DOMAIN s.blocks[b].vertices -> DOMAIN t.vertices]
  /\ \A b \in DOMAIN s.blocks : \A n \in DOMAIN s.blocks[b].vertices :
        t.vertices[t.blockVertexIds[b][n]] = s.blocks[b].vertices[n]
  /\ \A b, c \in DOMAIN s.blocks :
        \A n \in DOMAIN s.blocks[b].vertices, m \in DOMAIN s.blocks[c].vertices :
           s.blocks[b].vertices[n] = s.blocks[c].vertices[m]
             => t.blockVertexIds[b][n] = t.blockVertexIds[c][m]

\* The vertices of the cells and of the faces are those of the blocks' cells and edges.
IsTopology(s, t) ==
  /\ NumbersVertices(s, t)
  /\ DOMAIN t.cells = DOMAIN CellCorners(s)
  /\ \A b, i, j : IsCell(s, b, i, j) =>
        t.cells[GlobalCell(s, b, i, j)] = Corners(IdBlock(s, t, b), i, j)
  /\ DOMAIN t.faces = DOMAIN Faces(s)
  /\ \A f \in DOMAIN Faces(s) : t.faces[f] = EdgeSide(s, t, FaceEdges(s)[f])

\* structuredTopology gives each of the blocks' vertices the number of its point.
LEMMA VerticesAreNumbered ==
  ASSUME NEW s, Filled(s)
  PROVE  /\ NumbersVertices(s, StructuredTopology(MeshOf(s)))
         /\ StructuredTopology(MeshOf(s)).vertices = WeldedVertices(s.blocks)
         /\ \A b \in DOMAIN s.blocks : \A n \in DOMAIN s.blocks[b].vertices :
               StructuredTopology(MeshOf(s)).blockVertexIds[b][n]
                 = VertexId(WeldedVertices(s.blocks), s.blocks[b].vertices[n])
<1> DEFINE t == StructuredTopology(MeshOf(s))
           w == WeldedVertices(s.blocks)
           ids(b) == [ n \in DOMAIN s.blocks[b].vertices |-> VertexId(w, s.blocks[b].vertices[n]) ]
<1>1. MeshOf(s).grids = s.blocks
  BY DEF MeshOf
<1>2. t.vertices = w /\ t.blockVertexIds = [b \in DOMAIN s.blocks |-> ids(b)]
  BY <1>1 DEF StructuredTopology
<1>3. /\ DOMAIN s.blocks = 1..Len(s.blocks) /\ Len(s.blocks) \in Nat
      /\ \A b \in DOMAIN s.blocks : s.blocks[b].vertices \in Seq(Points)
  BY ShapedFacts DEF Filled
<1>4. VertexLists(s.blocks) \in Seq(Seq(Points))
  <2> DEFINE v == VertexLists(s.blocks)
  <2>1. v = [b \in DOMAIN s.blocks |-> v[b]] /\ \A b \in DOMAIN s.blocks : v[b] \in Seq(Points)
    BY <1>3 DEF VertexLists
  <2> HIDE DEF v
  <2>2. v = [b \in 1..Len(s.blocks) |-> v[b]] /\ \A b \in 1..Len(s.blocks) : v[b] \in Seq(Points)
    BY <1>3, <2>1
  <2>3. v \in Seq(Seq(Points))
    BY <1>3, <2>2, IsSequence
  <2> QED BY <2>3 DEF v
<1>5. /\ w \in Seq(Points)
      /\ \A b \in DOMAIN s.blocks : \A n \in 1..Len(s.blocks[b].vertices) :
            \E k \in DOMAIN w : w[k] = s.blocks[b].vertices[n]
  <2> DEFINE blocks == s.blocks
  <2> HIDE DEF w, ids, t, blocks
  <2>1. VertexLists(blocks) \in Seq(Seq(Points))
    BY <1>4 DEF blocks
  <2>2. /\ WeldedVertices(blocks) \in Seq(Points)
        /\ \A b \in DOMAIN blocks : \A n \in 1..Len(blocks[b].vertices) :
              \E k \in DOMAIN WeldedVertices(blocks) : WeldedVertices(blocks)[k] = blocks[b].vertices[n]
    BY <2>1, WeldedFacts
  <2> QED BY <2>2 DEF blocks, w
<1>6. \A b \in DOMAIN s.blocks : DOMAIN s.blocks[b].vertices = 1..Len(s.blocks[b].vertices)
  BY <1>3
<1> HIDE DEF t, w
<1>7. \A v : (\E k \in DOMAIN w : w[k] = v) => VertexId(w, v) \in DOMAIN w /\ w[VertexId(w, v)] = v
  BY DEF VertexId
<1>8. \A b \in DOMAIN s.blocks : \A n \in DOMAIN s.blocks[b].vertices :
        /\ VertexId(w, s.blocks[b].vertices[n]) \in DOMAIN w
        /\ w[VertexId(w, s.blocks[b].vertices[n])] = s.blocks[b].vertices[n]
  BY <1>5, <1>6, <1>7
<1>9. \A b \in DOMAIN s.blocks :
        /\ t.blockVertexIds[b] = ids(b)
        /\ \A n \in DOMAIN s.blocks[b].vertices : ids(b)[n] = VertexId(w, s.blocks[b].vertices[n])
        /\ ids(b) \in [DOMAIN s.blocks[b].vertices -> DOMAIN w]
  BY <1>2, <1>8
<1>10. DOMAIN t.blockVertexIds = DOMAIN s.blocks /\ t.blockVertexIds = [b \in DOMAIN s.blocks |-> t.blockVertexIds[b]]
  BY <1>2
<1> HIDE DEF ids
<1>11. NumbersVertices(s, t)
  <2>1. t.vertices \in Seq(Points)
    BY <1>2, <1>5
  <2>2. \A b \in DOMAIN s.blocks : \A n \in DOMAIN s.blocks[b].vertices :
          /\ t.blockVertexIds[b][n] = VertexId(w, s.blocks[b].vertices[n])
          /\ t.vertices[t.blockVertexIds[b][n]] = s.blocks[b].vertices[n]
    <3> TAKE b \in DOMAIN s.blocks
    <3> TAKE n \in DOMAIN s.blocks[b].vertices
    <3>1. t.blockVertexIds[b][n] = VertexId(w, s.blocks[b].vertices[n])
      BY <1>9
    <3>2. t.vertices[t.blockVertexIds[b][n]] = w[VertexId(w, s.blocks[b].vertices[n])]
      BY <1>2, <3>1
    <3> QED BY <1>8, <3>1, <3>2
  <2>3. \A b \in DOMAIN s.blocks :
          t.blockVertexIds[b] \in [DOMAIN s.blocks[b].vertices -> DOMAIN t.vertices]
    BY <1>2, <1>9
  <2>4. \A b, c \in DOMAIN s.blocks :
          \A n \in DOMAIN s.blocks[b].vertices, m \in DOMAIN s.blocks[c].vertices :
             s.blocks[b].vertices[n] = s.blocks[c].vertices[m]
               => t.blockVertexIds[b][n] = t.blockVertexIds[c][m]
    BY <2>2
  <2>5. \A b \in DOMAIN s.blocks : \A n \in DOMAIN s.blocks[b].vertices :
          t.vertices[t.blockVertexIds[b][n]] = s.blocks[b].vertices[n]
    BY <2>2
  <2> QED BY <1>10, <2>1, <2>3, <2>4, <2>5 DEF NumbersVertices
<1> QED BY <1>2, <1>9, <1>11 DEF t, w

\* A vertex of a block is one of its list.
LEMMA VertexIs ==
  ASSUME NEW s, Filled(s), NEW b \in DOMAIN s.blocks,
         NEW i \in 0..s.blocks[b].nx, NEW j \in 0..s.blocks[b].ny
  PROVE  /\ j * (s.blocks[b].nx + 1) + i + 1 \in DOMAIN s.blocks[b].vertices
         /\ \A ids : Vertex([nx |-> s.blocks[b].nx, ny |-> s.blocks[b].ny, vertices |-> ids], i, j)
                       = ids[j * (s.blocks[b].nx + 1) + i + 1]
         /\ Vertex(s.blocks[b], i, j) = s.blocks[b].vertices[j * (s.blocks[b].nx + 1) + i + 1]
<1>1. /\ s.blocks[b].nx \in Nat /\ s.blocks[b].ny \in Nat
      /\ s.blocks[b].vertices \in Seq(Points)
      /\ Len(s.blocks[b].vertices) = (s.blocks[b].nx + 1) * (s.blocks[b].ny + 1)
  BY ShapedFacts DEF Filled
<1>2. j * (s.blocks[b].nx + 1) + i + 1 \in 1..((s.blocks[b].nx + 1) * (s.blocks[b].ny + 1))
  BY <1>1, VertexIndex
<1>3. DOMAIN s.blocks[b].vertices = 1..Len(s.blocks[b].vertices)
  BY <1>1
<1> QED BY <1>1, <1>2, <1>3 DEF Vertex

\* The numbers of a cell's corners.
LEMMA CellIdsAre ==
  ASSUME NEW s, Filled(s), NEW b, NEW i, NEW j, IsCell(s, b, i, j)
  PROVE  LET t == StructuredTopology(MeshOf(s))
         IN  t.cells[GlobalCell(s, b, i, j)] = Corners(IdBlock(s, t, b), i, j)
<1> DEFINE t == StructuredTopology(MeshOf(s))
           w == WeldedVertices(s.blocks)
           c == GlobalCell(s, b, i, j)
           q == Corners(s.blocks[b], i, j)
           I == IdBlock(s, t, b)
<1>1. /\ CellCorners([blocks |-> s.blocks]) = CellCorners(s)
      /\ MeshOf(s).grids = s.blocks
  BY DEF MeshOf, CellCorners, CellPlaces
<1>2. t.cells = [ d \in DOMAIN CellCorners(s) |-> [ k \in 1..4 |-> VertexId(w, CellCorners(s)[d][k]) ] ]
  BY <1>1 DEF StructuredTopology
<1>3. c \in DOMAIN CellCorners(s) /\ CellCorners(s)[c] = q
  BY CellCornersFacts DEF Filled
<1>4. t.cells[c] = [ k \in 1..4 |-> VertexId(w, q[k]) ]
  BY <1>2, <1>3
<1>5. /\ b \in DOMAIN s.blocks /\ s.blocks[b].nx \in Nat /\ s.blocks[b].ny \in Nat
      /\ i \in 0..s.blocks[b].nx /\ i + 1 \in 0..s.blocks[b].nx
      /\ j \in 0..s.blocks[b].ny /\ j + 1 \in 0..s.blocks[b].ny
  BY ShapedFacts, SMTT(30) DEF IsCell, Filled
<1>6. \A m \in 0..s.blocks[b].nx, n \in 0..s.blocks[b].ny :
        Vertex(I, m, n) = VertexId(w, Vertex(s.blocks[b], m, n))
  <2> TAKE m \in 0..s.blocks[b].nx, n \in 0..s.blocks[b].ny
  <2> DEFINE x == n * (s.blocks[b].nx + 1) + m + 1
  <2>1. /\ x \in DOMAIN s.blocks[b].vertices
        /\ \A ids : Vertex([nx |-> s.blocks[b].nx, ny |-> s.blocks[b].ny, vertices |-> ids], m, n) = ids[x]
        /\ Vertex(s.blocks[b], m, n) = s.blocks[b].vertices[x]
    BY <1>5, VertexIs
  <2> HIDE DEF x
  <2>2. t.blockVertexIds[b][x] = VertexId(w, s.blocks[b].vertices[x])
    BY <1>5, <2>1, VerticesAreNumbered
  <2> QED BY <2>1, <2>2 DEF IdBlock
<1>7. /\ Vertex(I, i, j) = VertexId(w, Vertex(s.blocks[b], i, j))
      /\ Vertex(I, i + 1, j) = VertexId(w, Vertex(s.blocks[b], i + 1, j))
      /\ Vertex(I, i + 1, j + 1) = VertexId(w, Vertex(s.blocks[b], i + 1, j + 1))
      /\ Vertex(I, i, j + 1) = VertexId(w, Vertex(s.blocks[b], i, j + 1))
  BY <1>5, <1>6
<1>8. /\ q[1] = Vertex(s.blocks[b], i, j) /\ q[2] = Vertex(s.blocks[b], i + 1, j)
      /\ q[3] = Vertex(s.blocks[b], i + 1, j + 1) /\ q[4] = Vertex(s.blocks[b], i, j + 1)
  BY DEF Corners
<1>9. Corners(I, i, j) = << Vertex(I, i, j), Vertex(I, i + 1, j), Vertex(I, i + 1, j + 1), Vertex(I, i, j + 1) >>
  BY DEF Corners
<1> HIDE DEF I, q, w, c, t
<1>10. [ k \in 1..4 |-> VertexId(w, q[k]) ] = << VertexId(w, q[1]), VertexId(w, q[2]), VertexId(w, q[3]), VertexId(w, q[4]) >>
  OBVIOUS
<1>11. t.cells[c] = Corners(I, i, j)
  BY <1>4, <1>7, <1>8, <1>9, <1>10
<1> QED BY <1>11 DEF I, t, c

--------------------------------------------------------------------------------
(* The nearest side of a cell.                                               *)

\* Where CellSides has the k-th edge of a cell.
SidePlace(k) == IF k = 4 THEN 1 ELSE IF k = 2 THEN 2 ELSE IF k = 1 THEN 3 ELSE 4

\* Different points have a positive distance.
LEMMA DistanceIsPositive ==
  ASSUME NEW p \in Points, NEW q \in Points
  PROVE  /\ Dot(Minus(p, q), Minus(p, q)) \in Nat
         /\ Dot(Minus(p, q), Minus(p, q)) = 0 <=> p = q
<1> DEFINE x == p[1] - q[1]
           y == p[2] - q[2]
<1>1. /\ p[1] \in Int /\ p[2] \in Int /\ q[1] \in Int /\ q[2] \in Int
      /\ p = <<p[1], p[2]>> /\ q = <<q[1], q[2]>>
  BY DEF Points
<1>2. Dot(Minus(p, q), Minus(p, q)) = x * x + y * y
  BY DEF Dot, Minus
<1>3. x \in Int /\ y \in Int /\ (p = q <=> x = 0 /\ y = 0)
  <2>1. x \in Int /\ y \in Int /\ (x = 0 <=> p[1] = q[1]) /\ (y = 0 <=> p[2] = q[2])
    BY <1>1
  <2> QED BY <1>1, <2>1
<1> HIDE DEF x, y
<1>4. \A z \in Int : z * z \in Nat /\ (z * z = 0 <=> z = 0)
  OBVIOUS
<1>5. x * x \in Nat /\ y * y \in Nat /\ (x * x = 0 <=> x = 0) /\ (y * y = 0 <=> y = 0)
  BY <1>3, <1>4
<1> DEFINE xx == x * x
           yy == y * y
<1> HIDE DEF xx, yy
<1>6. xx \in Nat /\ yy \in Nat /\ (xx = 0 <=> x = 0) /\ (yy = 0 <=> y = 0)
      /\ Dot(Minus(p, q), Minus(p, q)) = xx + yy
  BY <1>2, <1>5 DEF xx, yy
<1> QED BY <1>3, <1>6

\* Of the sides of a convex cell, that whose midpoint is the face's is the nearest.
LEMMA NearestIs ==
  ASSUME NEW c, NEW w, NEW face, NEW q \in [1..4 -> Points], StrictlyConvex(q),
         \A k \in 1..4 : w[c[k]] = q[k],
         NEW k \in 1..4, face.mid2 = Plus(q[k], q[NextCorner(k)])
  PROVE  NearestSide(CellSides(c), w, face) = CellSides(c)[SidePlace(k)]
<1> DEFINE sides == CellSides(c)
           mid(n) == Plus(q[n], q[NextCorner(n)])
           end(m) == Plus(w[sides[m].a], w[sides[m].b])
           distance(m) == Dot(Minus(end(m), face.mid2), Minus(end(m), face.mid2))
           nearest(m) == \A n \in 1..4 : \/ distance(m) < distance(n)
                                         \/ distance(m) = distance(n) /\ m <= n
<1>1. NextCorner(1) = 2 /\ NextCorner(2) = 3 /\ NextCorner(3) = 4 /\ NextCorner(4) = 1
  BY DEF NextCorner
<1>2. \A n \in 1..4 : mid(n) \in Points
  <2> TAKE n \in 1..4
  <2>1. NextCorner(n) \in 1..4
    BY DEF NextCorner
  <2>2. q[n] \in Points /\ q[NextCorner(n)] \in Points
    BY <2>1
  <2> QED BY <2>2 DEF Plus, Points
<1>3. \A x, y \in Points : Plus(x, y) = Plus(y, x)
  BY DEF Plus, Points
<1>4. /\ end(1) = mid(4) /\ end(2) = mid(2) /\ end(3) = mid(1) /\ end(4) = mid(3)
  <2>1. /\ sides[1].a = c[1] /\ sides[1].b = c[4] /\ sides[2].a = c[2] /\ sides[2].b = c[3]
        /\ sides[3].a = c[1] /\ sides[3].b = c[2] /\ sides[4].a = c[4] /\ sides[4].b = c[3]
    BY DEF CellSides
  <2>2. q[1] \in Points /\ q[2] \in Points /\ q[3] \in Points /\ q[4] \in Points
    OBVIOUS
  <2>3. w[c[1]] = q[1] /\ w[c[2]] = q[2] /\ w[c[3]] = q[3] /\ w[c[4]] = q[4]
    OBVIOUS
  <2>4. Plus(q[1], q[4]) = Plus(q[4], q[1]) /\ Plus(q[4], q[3]) = Plus(q[3], q[4])
    BY <1>3, <2>2
  <2> HIDE DEF sides
  <2> QED BY <1>1, <2>1, <2>3, <2>4
<1>5. \A m \in 1..4 : \E n \in 1..4 : end(m) = mid(n) /\ m = SidePlace(n)
  <2>1. SidePlace(4) = 1 /\ SidePlace(2) = 2 /\ SidePlace(1) = 3 /\ SidePlace(3) = 4
    BY DEF SidePlace
  <2> HIDE DEF mid, end
  <2> QED BY <1>4, <2>1
<1>6. \A n \in 1..4 : mid(n) = face.mid2 => n = k
  BY MidpointsApart
<1>7. SidePlace(k) \in 1..4 /\ end(SidePlace(k)) = mid(k) /\ mid(k) = face.mid2
  <2>1. SidePlace(4) = 1 /\ SidePlace(2) = 2 /\ SidePlace(1) = 3 /\ SidePlace(3) = 4
    BY DEF SidePlace
  <2>2. mid(k) = face.mid2
    OBVIOUS
  <2> HIDE DEF mid, end
  <2> QED BY <1>4, <2>1, <2>2
<1>8. \A m \in 1..4 : distance(m) \in Nat /\ (distance(m) = 0 <=> end(m) = face.mid2)
  <2> TAKE m \in 1..4
  <2>1. end(m) \in Points /\ face.mid2 \in Points
    <3> HIDE DEF mid, end
    <3> QED BY <1>2, <1>5, <1>7
  <2> HIDE DEF end
  <2> QED BY <2>1, DistanceIsPositive
<1> HIDE DEF distance, end, mid
<1>9. \A m \in 1..4 : m # SidePlace(k) => distance(m) > 0
  <2> TAKE m \in 1..4
  <2> HAVE m # SidePlace(k)
  <2>1. end(m) # face.mid2
    BY <1>5, <1>6
  <2> QED BY <1>8, <2>1
<1>10. distance(SidePlace(k)) = 0
  BY <1>7, <1>8
<1>11. nearest(SidePlace(k))
  <2> TAKE n \in 1..4
  <2> QED BY <1>7, <1>8, <1>9, <1>10
<1>12. \A m \in 1..4 : nearest(m) => m = SidePlace(k)
  BY <1>7, <1>8, <1>9, <1>10
<1>13. NearestSide(sides, w, face) = sides[CHOOSE m \in 1..4 : nearest(m)]
  BY DEF NearestSide, nearest, distance, end
<1> HIDE DEF nearest
<1>14. (CHOOSE m \in 1..4 : nearest(m)) = SidePlace(k)
  BY <1>7, <1>11, <1>12
<1> QED BY <1>13, <1>14

\* structuredTopology finds the edge of each face, whose side of which cell it is.
LEMMA FaceSidesAre ==
  ASSUME NEW s, Joined(s), CellsAreConvex(s), NEW f \in DOMAIN Faces(s)
  PROVE  LET t == StructuredTopology(MeshOf(s))
         IN  t.faces[f] = EdgeSide(s, t, FaceEdges(s)[f])
<1> DEFINE t == StructuredTopology(MeshOf(s))
           e == FaceEdges(s)[f]
           face == Faces(s)[f]
<1>1. Filled(s) /\ Shaped(s)
  BY JoinedIsFilled DEF Joined
<1>2. /\ IsEdge(s, e) /\ face.owner = OwnerOf(s, e) /\ face.mid2 = EdgeGeometry(s, e).mid2
  BY <1>1, FacesFacts DEF HasFace
<1>3. t.faces[f] = NearestSide(CellSides(t.cells[face.owner]), t.vertices, face)
  BY DEF StructuredTopology, MeshOf
<1> HIDE DEF e, face
<1> DEFINE b == e.block
           k == OwnNumber(e)
<1>4. PICK i, j : /\ IsCell(s, b, i, j) /\ OwnerOf(s, e) = GlobalCell(s, b, i, j)
                  /\ CellEdge(b, i, j, k) = e
  BY <1>1, <1>2, OwnerFacts
<1>5. k \in 1..4
  BY DEF OwnNumber
<1> DEFINE q == Corners(s.blocks[b], i, j)
           c == Corners(IdBlock(s, t, b), i, j)
           I == IdBlock(s, t, b)
<1> HIDE DEF k, b
<1>6. face.mid2 = Plus(q[k], q[NextCorner(k)])
  BY <1>1, <1>2, <1>4, <1>5, EdgeGeometryIs
<1>7. q \in [1..4 -> Points] /\ StrictlyConvex(q)
  BY <1>1, <1>4, CornersArePoints DEF CellsAreConvex, IsCell
<1>8. t.cells[face.owner] = c
  BY <1>1, <1>2, <1>4, CellIdsAre
<1>9. \A m \in 1..4 : t.vertices[c[m]] = q[m]
  <2>1. /\ b \in DOMAIN s.blocks /\ s.blocks[b].nx \in Nat /\ s.blocks[b].ny \in Nat
        /\ i \in 0..s.blocks[b].nx /\ i + 1 \in 0..s.blocks[b].nx
        /\ j \in 0..s.blocks[b].ny /\ j + 1 \in 0..s.blocks[b].ny
    BY <1>1, <1>4, ShapedFacts, SMTT(30) DEF IsCell
  <2>2. \A m \in 0..s.blocks[b].nx, n \in 0..s.blocks[b].ny :
           t.vertices[Vertex(I, m, n)] = Vertex(s.blocks[b], m, n)
    <3> TAKE m \in 0..s.blocks[b].nx, n \in 0..s.blocks[b].ny
    <3> DEFINE x == n * (s.blocks[b].nx + 1) + m + 1
    <3>1. /\ x \in DOMAIN s.blocks[b].vertices
          /\ \A ids : Vertex([nx |-> s.blocks[b].nx, ny |-> s.blocks[b].ny, vertices |-> ids], m, n) = ids[x]
          /\ Vertex(s.blocks[b], m, n) = s.blocks[b].vertices[x]
      BY <1>1, <2>1, VertexIs
    <3> HIDE DEF x, t
    <3>2. NumbersVertices(s, t)
      BY <1>1, VerticesAreNumbered DEF t
    <3>3. t.vertices[t.blockVertexIds[b][x]] = s.blocks[b].vertices[x]
      BY <2>1, <3>1, <3>2 DEF NumbersVertices
    <3> QED BY <3>1, <3>3 DEF IdBlock
  <2>3. /\ t.vertices[Vertex(I, i, j)] = Vertex(s.blocks[b], i, j)
        /\ t.vertices[Vertex(I, i + 1, j)] = Vertex(s.blocks[b], i + 1, j)
        /\ t.vertices[Vertex(I, i + 1, j + 1)] = Vertex(s.blocks[b], i + 1, j + 1)
        /\ t.vertices[Vertex(I, i, j + 1)] = Vertex(s.blocks[b], i, j + 1)
    BY <2>1, <2>2
  <2>4. c[1] = Vertex(I, i, j) /\ c[2] = Vertex(I, i + 1, j)
        /\ c[3] = Vertex(I, i + 1, j + 1) /\ c[4] = Vertex(I, i, j + 1)
    BY DEF Corners
  <2>5. q[1] = Vertex(s.blocks[b], i, j) /\ q[2] = Vertex(s.blocks[b], i + 1, j)
        /\ q[3] = Vertex(s.blocks[b], i + 1, j + 1) /\ q[4] = Vertex(s.blocks[b], i, j + 1)
    BY DEF Corners
  <2> HIDE DEF c, q, I, t
  <2>6. t.vertices[c[1]] = q[1] /\ t.vertices[c[2]] = q[2] /\ t.vertices[c[3]] = q[3] /\ t.vertices[c[4]] = q[4]
    BY <2>3, <2>4, <2>5
  <2> QED BY <2>6
<1> HIDE DEF t, q
<1>10. t.faces[f] = CellSides(c)[SidePlace(k)]
  <2> HIDE DEF c
  <2> QED BY <1>3, <1>5, <1>6, <1>7, <1>8, <1>9, NearestIs
<1>11. /\ CellSides(c)[1] = [a |-> Vertex(I, i, j), b |-> Vertex(I, i, j + 1), vertical |-> TRUE, negate |-> TRUE]
       /\ CellSides(c)[2] = [a |-> Vertex(I, i + 1, j), b |-> Vertex(I, i + 1, j + 1), vertical |-> TRUE, negate |-> FALSE]
       /\ CellSides(c)[3] = [a |-> Vertex(I, i, j), b |-> Vertex(I, i + 1, j), vertical |-> FALSE, negate |-> TRUE]
       /\ CellSides(c)[4] = [a |-> Vertex(I, i, j + 1), b |-> Vertex(I, i + 1, j + 1), vertical |-> FALSE, negate |-> FALSE]
  BY DEF CellSides, Corners
<1>12. i \in Nat /\ j \in Nat
  BY <1>1, <1>4, ShapedFacts DEF IsCell
<1>13. EdgeSide(s, t, e)
         = IF e.kind = "vertical"
           THEN [a |-> Vertex(I, e.i, e.j), b |-> Vertex(I, e.i, e.j + 1), vertical |-> TRUE, negate |-> e.i = 0]
           ELSE [a |-> Vertex(I, e.i, e.j), b |-> Vertex(I, e.i + 1, e.j), vertical |-> FALSE, negate |-> e.j = 0]
  BY DEF EdgeSide, b
<1> HIDE DEF I, c
<1>14. ASSUME k = 4 PROVE t.faces[f] = EdgeSide(s, t, e)
  <2>1. e = Edge(b, "vertical", i, j) /\ SidePlace(k) = 1
    BY <1>4, <1>14 DEF CellEdge, SidePlace
  <2>2. e.kind = "vertical" /\ e.i = i /\ e.j = j
    BY <2>1, EdgeParts
  <2>3. e.i = 0
    BY <1>14, <2>2 DEF k, OwnNumber
  <2> QED BY <1>10, <1>11, <1>13, <2>1, <2>2, <2>3
<1>15. ASSUME k = 2 PROVE t.faces[f] = EdgeSide(s, t, e)
  <2>1. e = Edge(b, "vertical", i + 1, j) /\ SidePlace(k) = 2
    BY <1>4, <1>15 DEF CellEdge, SidePlace
  <2>2. e.kind = "vertical" /\ e.i = i + 1 /\ e.j = j
    BY <2>1, EdgeParts
  <2>3. e.i # 0
    BY <1>12, <2>2
  <2> QED BY <1>10, <1>11, <1>13, <2>1, <2>2, <2>3
<1>16. ASSUME k = 1 PROVE t.faces[f] = EdgeSide(s, t, e)
  <2>1. e = Edge(b, "horizontal", i, j) /\ SidePlace(k) = 3
    BY <1>4, <1>16 DEF CellEdge, SidePlace
  <2>2. e.kind = "horizontal" /\ e.i = i /\ e.j = j
    BY <2>1, EdgeParts
  <2>3. e.j = 0
    BY <1>16, <2>2 DEF k, OwnNumber
  <2> QED BY <1>10, <1>11, <1>13, <2>1, <2>2, <2>3
<1>17. ASSUME k = 3 PROVE t.faces[f] = EdgeSide(s, t, e)
  <2>1. e = Edge(b, "horizontal", i, j + 1) /\ SidePlace(k) = 4
    BY <1>4, <1>17 DEF CellEdge, SidePlace
  <2>2. e.kind = "horizontal" /\ e.i = i /\ e.j = j + 1
    BY <2>1, EdgeParts
  <2>3. e.j # 0
    BY <1>12, <2>2
  <2> QED BY <1>10, <1>11, <1>13, <2>1, <2>2, <2>3
<1>18. t.faces[f] = EdgeSide(s, t, e)
  BY <1>5, <1>14, <1>15, <1>16, <1>17
<1> QED BY <1>18 DEF t, e

\* The vertex map of a mesh that was built.
LEMMA TopologyIs ==
  ASSUME NEW s, Joined(s), CellsAreConvex(s)
  PROVE  IsTopology(s, StructuredTopology(MeshOf(s)))
<1> DEFINE t == StructuredTopology(MeshOf(s))
<1>1. Filled(s)
  BY JoinedIsFilled
<1>2. DOMAIN t.cells = DOMAIN CellCorners(s) /\ DOMAIN t.faces = DOMAIN Faces(s)
  <2>1. CellCorners([blocks |-> s.blocks]) = CellCorners(s)
    BY DEF CellCorners, CellPlaces
  <2> QED BY <2>1 DEF StructuredTopology, MeshOf
<1>3. NumbersVertices(s, t)
  BY <1>1, VerticesAreNumbered
<1>4. \A b, i, j : IsCell(s, b, i, j) =>
        t.cells[GlobalCell(s, b, i, j)] = Corners(IdBlock(s, t, b), i, j)
  BY <1>1, CellIdsAre
<1>5. \A f \in DOMAIN Faces(s) : t.faces[f] = EdgeSide(s, t, FaceEdges(s)[f])
  BY FaceSidesAre
<1> HIDE DEF t
<1>6. IsTopology(s, t)
  BY <1>2, <1>3, <1>4, <1>5 DEF IsTopology
<1> QED BY <1>6 DEF t

--------------------------------------------------------------------------------
(* The file a mesh would be built from with its vertices elsewhere.          *)

\* A block with the vertices at v.
MovedBlock(s, t, v, b) ==
  [nx |-> s.blocks[b].nx, ny |-> s.blocks[b].ny,
   vertices |-> [n \in DOMAIN t.blockVertexIds[b] |-> v[t.blockVertexIds[b][n]]]]

\* The file r is the file s with the vertices at v.
Rebuilt(s, r, t, v) ==
  /\ r.blocks = [b \in DOMAIN s.blocks |-> MovedBlock(s, t, v, b)]
  /\ r.interfaces = s.interfaces
  /\ r.patches = s.patches

\* Places that are vertices of a block.
IsPlace(s, b, i, j) == b \in DOMAIN s.blocks /\ i \in 0..s.blocks[b].nx /\ j \in 0..s.blocks[b].ny

\* A vertex of a block, its number, and where it is moved to.
LEMMA NumbersAre ==
  ASSUME NEW s, Filled(s), NEW t, NumbersVertices(s, t)
  PROVE  /\ \A b, i, j : IsPlace(s, b, i, j) =>
               /\ Vertex(IdBlock(s, t, b), i, j) \in DOMAIN t.vertices
               /\ t.vertices[Vertex(IdBlock(s, t, b), i, j)] = Vertex(s.blocks[b], i, j)
               /\ \A v : Vertex(MovedBlock(s, t, v, b), i, j) = v[Vertex(IdBlock(s, t, b), i, j)]
         /\ \A b, i, j, c, k, l :
               /\ IsPlace(s, b, i, j) /\ IsPlace(s, c, k, l)
               /\ Vertex(s.blocks[b], i, j) = Vertex(s.blocks[c], k, l)
               => Vertex(IdBlock(s, t, b), i, j) = Vertex(IdBlock(s, t, c), k, l)
<1> DEFINE at(b, i, j) == j * (s.blocks[b].nx + 1) + i + 1
<1>1. ASSUME NEW b, NEW i, NEW j, IsPlace(s, b, i, j)
      PROVE  /\ b \in DOMAIN s.blocks
             /\ at(b, i, j) \in DOMAIN s.blocks[b].vertices
             /\ Vertex(IdBlock(s, t, b), i, j) = t.blockVertexIds[b][at(b, i, j)]
             /\ Vertex(s.blocks[b], i, j) = s.blocks[b].vertices[at(b, i, j)]
             /\ \A v : Vertex(MovedBlock(s, t, v, b), i, j)
                         = [n \in DOMAIN t.blockVertexIds[b] |-> v[t.blockVertexIds[b][n]]][at(b, i, j)]
  <2>1. b \in DOMAIN s.blocks /\ i \in 0..s.blocks[b].nx /\ j \in 0..s.blocks[b].ny
    BY <1>1 DEF IsPlace
  <2>2. /\ at(b, i, j) \in DOMAIN s.blocks[b].vertices
        /\ \A ids : Vertex([nx |-> s.blocks[b].nx, ny |-> s.blocks[b].ny, vertices |-> ids], i, j)
                      = ids[at(b, i, j)]
        /\ Vertex(s.blocks[b], i, j) = s.blocks[b].vertices[at(b, i, j)]
    BY <2>1, VertexIs
  <2> HIDE DEF at
  <2> QED BY <2>1, <2>2 DEF IdBlock, MovedBlock
<1> HIDE DEF at
<1>2. /\ \A b \in DOMAIN s.blocks : \A n \in DOMAIN s.blocks[b].vertices :
            /\ n \in DOMAIN t.blockVertexIds[b] /\ t.blockVertexIds[b][n] \in DOMAIN t.vertices
            /\ t.vertices[t.blockVertexIds[b][n]] = s.blocks[b].vertices[n]
      /\ \A b, c \in DOMAIN s.blocks :
            \A n \in DOMAIN s.blocks[b].vertices, m \in DOMAIN s.blocks[c].vertices :
               s.blocks[b].vertices[n] = s.blocks[c].vertices[m]
                 => t.blockVertexIds[b][n] = t.blockVertexIds[c][m]
  BY DEF NumbersVertices
<1>3. ASSUME NEW b, NEW i, NEW j, IsPlace(s, b, i, j)
      PROVE  /\ Vertex(IdBlock(s, t, b), i, j) \in DOMAIN t.vertices
             /\ t.vertices[Vertex(IdBlock(s, t, b), i, j)] = Vertex(s.blocks[b], i, j)
             /\ \A v : Vertex(MovedBlock(s, t, v, b), i, j) = v[Vertex(IdBlock(s, t, b), i, j)]
  <2> DEFINE n == at(b, i, j)
  <2>1. /\ b \in DOMAIN s.blocks /\ n \in DOMAIN s.blocks[b].vertices
        /\ Vertex(IdBlock(s, t, b), i, j) = t.blockVertexIds[b][n]
        /\ Vertex(s.blocks[b], i, j) = s.blocks[b].vertices[n]
        /\ \A v : Vertex(MovedBlock(s, t, v, b), i, j)
                    = [x \in DOMAIN t.blockVertexIds[b] |-> v[t.blockVertexIds[b][x]]][n]
    BY <1>1, <1>3
  <2> HIDE DEF n
  <2>2. /\ n \in DOMAIN t.blockVertexIds[b] /\ t.blockVertexIds[b][n] \in DOMAIN t.vertices
        /\ t.vertices[t.blockVertexIds[b][n]] = s.blocks[b].vertices[n]
    BY <1>2, <2>1
  <2>3. ASSUME NEW v PROVE Vertex(MovedBlock(s, t, v, b), i, j) = v[Vertex(IdBlock(s, t, b), i, j)]
    <3>1. Vertex(MovedBlock(s, t, v, b), i, j)
            = [x \in DOMAIN t.blockVertexIds[b] |-> v[t.blockVertexIds[b][x]]][n]
      BY <2>1
    <3>2. [x \in DOMAIN t.blockVertexIds[b] |-> v[t.blockVertexIds[b][x]]][n] = v[t.blockVertexIds[b][n]]
      BY <2>2
    <3> QED BY <2>1, <3>1, <3>2
  <2> QED BY <2>1, <2>2, <2>3
<1>4. ASSUME NEW b, NEW i, NEW j, NEW c, NEW k, NEW l, IsPlace(s, b, i, j), IsPlace(s, c, k, l),
             Vertex(s.blocks[b], i, j) = Vertex(s.blocks[c], k, l)
      PROVE  Vertex(IdBlock(s, t, b), i, j) = Vertex(IdBlock(s, t, c), k, l)
  BY <1>1, <1>2, <1>4
<1> QED BY <1>3, <1>4

\* The place of a vertex of a side.
SidePoint(s, b, side, k) ==
  IF side = "bottom" THEN <<k, 0>>
  ELSE IF side = "top" THEN <<k, s.blocks[b].ny>>
  ELSE IF side = "left" THEN <<0, k>>
  ELSE <<s.blocks[b].nx, k>>

\* A vertex of a side is one of the block.
LEMMA SideVertexIs ==
  ASSUME NEW s, Shaped(s), NEW b \in DOMAIN s.blocks, NEW side \in Sides
  PROVE  \A k \in 0..SideFaceCount(s.blocks[b], side) :
            LET p == SidePoint(s, b, side, k)
            IN  /\ IsPlace(s, b, p[1], p[2])
                /\ \A x : x.nx = s.blocks[b].nx /\ x.ny = s.blocks[b].ny =>
                      SideVertex(x, side, k) = Vertex(x, p[1], p[2])
<1> TAKE k \in 0..SideFaceCount(s.blocks[b], side)
<1>1. s.blocks[b].nx \in Nat /\ s.blocks[b].ny \in Nat
  BY ShapedFacts
<1>2. side \in {"left", "right", "bottom", "top"}
  BY DEF Sides
<1> DEFINE p == SidePoint(s, b, side, k)
<1>3. CASE side = "bottom"
  <2>1. p[1] = k /\ p[2] = 0 /\ SideFaceCount(s.blocks[b], side) = s.blocks[b].nx
    BY <1>3 DEF SidePoint, SideFaceCount
  <2>2. \A x : SideVertex(x, side, k) = Vertex(x, k, 0)
    BY <1>3 DEF SideVertex
  <2> HIDE DEF p
  <2> QED BY <1>1, <2>1, <2>2 DEF IsPlace, p
<1>4. CASE side = "top"
  <2>1. p[1] = k /\ p[2] = s.blocks[b].ny /\ SideFaceCount(s.blocks[b], side) = s.blocks[b].nx
    BY <1>4 DEF SidePoint, SideFaceCount
  <2>2. \A x : SideVertex(x, side, k) = Vertex(x, k, x.ny)
    BY <1>4 DEF SideVertex
  <2> HIDE DEF p
  <2> QED BY <1>1, <2>1, <2>2 DEF IsPlace, p
<1>5. CASE side = "left"
  <2>1. p[1] = 0 /\ p[2] = k /\ SideFaceCount(s.blocks[b], side) = s.blocks[b].ny
    BY <1>5 DEF SidePoint, SideFaceCount
  <2>2. \A x : SideVertex(x, side, k) = Vertex(x, 0, k)
    BY <1>5 DEF SideVertex
  <2> HIDE DEF p
  <2> QED BY <1>1, <2>1, <2>2 DEF IsPlace, p
<1>6. CASE side = "right"
  <2>1. p[1] = s.blocks[b].nx /\ p[2] = k /\ SideFaceCount(s.blocks[b], side) = s.blocks[b].ny
    BY <1>6 DEF SidePoint, SideFaceCount
  <2>2. \A x : SideVertex(x, side, k) = Vertex(x, x.nx, k)
    BY <1>6 DEF SideVertex
  <2> HIDE DEF p
  <2> QED BY <1>1, <2>1, <2>2 DEF IsPlace, p
<1> QED BY <1>2, <1>3, <1>4, <1>5, <1>6

\* The rebuilt file has the same blocks, with points for vertices.
LEMMA RebuiltIsFilled ==
  ASSUME NEW s, Filled(s), NEW t, NumbersVertices(s, t),
         NEW v \in [DOMAIN t.vertices -> Points], NEW r, Rebuilt(s, r, t, v)
  PROVE  SameShape(s, r) /\ Filled(r)
<1> DEFINE N == Len(s.blocks)
<1>1. /\ DOMAIN s.blocks = 1..N /\ N \in Nat
      /\ \A b \in DOMAIN s.blocks : /\ s.blocks[b].nx \in Nat /\ s.blocks[b].nx > 0
                                    /\ s.blocks[b].ny \in Nat /\ s.blocks[b].ny > 0
                                    /\ s.blocks[b].vertices \in Seq(Points)
      /\ Shaped(s)
  BY ShapedFacts DEF Filled
<1>2. ASSUME NEW b \in DOMAIN s.blocks
      PROVE  /\ r.blocks[b] = MovedBlock(s, t, v, b)
             /\ MovedBlock(s, t, v, b) \in Blocks
             /\ Len(MovedBlock(s, t, v, b).vertices) = Len(s.blocks[b].vertices)
  <2> DEFINE L == Len(s.blocks[b].vertices)
             w == [n \in DOMAIN t.blockVertexIds[b] |-> v[t.blockVertexIds[b][n]]]
  <2>1. r.blocks[b] = MovedBlock(s, t, v, b)
    BY DEF Rebuilt
  <2>2. t.blockVertexIds[b] \in [1..L -> DOMAIN t.vertices] /\ L \in Nat
    <3> DEFINE u == s.blocks[b].vertices
    <3>1. t.blockVertexIds[b] \in [DOMAIN u -> DOMAIN t.vertices]
      BY DEF NumbersVertices
    <3>2. u \in Seq(Points)
      BY <1>1
    <3> HIDE DEF u
    <3>3. DOMAIN u = 1..Len(u) /\ Len(u) \in Nat
      BY <3>2
    <3>4. L = Len(u)
      BY DEF u
    <3> HIDE DEF L
    <3> QED BY <3>1, <3>3, <3>4
  <2> HIDE DEF L
  <2>3. w = [n \in 1..L |-> w[n]] /\ \A n \in 1..L : w[n] \in Points
    BY <2>2
  <2> HIDE DEF w
  <2>4. w \in Seq(Points) /\ Len(w) = L
    BY <2>2, <2>3, IsSequence
  <2>5. MovedBlock(s, t, v, b) = [nx |-> s.blocks[b].nx, ny |-> s.blocks[b].ny, vertices |-> w]
    BY DEF MovedBlock, w
  <2>6. MovedBlock(s, t, v, b) \in Blocks
    BY <1>1, <2>4, <2>5 DEF Blocks, Points
  <2> QED BY <2>1, <2>4, <2>5, <2>6 DEF L
<1>3. /\ r.blocks = [b \in 1..N |-> r.blocks[b]]
      /\ \A b \in 1..N : r.blocks[b] \in Blocks
      /\ \A b \in 1..N : r.blocks[b].nx = s.blocks[b].nx /\ r.blocks[b].ny = s.blocks[b].ny
  <2>1. r.blocks = [b \in DOMAIN s.blocks |-> MovedBlock(s, t, v, b)]
    BY DEF Rebuilt
  <2>2. \A b \in 1..N : r.blocks[b] \in Blocks
    BY <1>1, <1>2
  <2>3. \A b \in 1..N : r.blocks[b].nx = s.blocks[b].nx /\ r.blocks[b].ny = s.blocks[b].ny
    <3>1. \A b : MovedBlock(s, t, v, b).nx = s.blocks[b].nx /\ MovedBlock(s, t, v, b).ny = s.blocks[b].ny
      BY DEF MovedBlock
    <3>2. \A b \in 1..N : r.blocks[b] = MovedBlock(s, t, v, b)
      BY <1>1, <1>2
    <3> QED BY <3>1, <3>2
  <2> HIDE DEF N
  <2>4. r.blocks = [b \in 1..N |-> r.blocks[b]]
    BY <1>1, <2>1
  <2> QED BY <2>2, <2>3, <2>4
<1> HIDE DEF N
<1>4. r.blocks \in Seq(Blocks) /\ Len(r.blocks) = N /\ DOMAIN r.blocks = DOMAIN s.blocks
  <2>1. r.blocks \in Seq(Blocks) /\ Len(r.blocks) = N
    BY <1>1, <1>3, IsSequence
  <2>2. DOMAIN r.blocks = 1..N
    BY <1>3
  <2> QED BY <1>1, <2>1, <2>2
<1>5. Shaped(r)
  BY <1>1, <1>3, <1>4 DEF Shaped
<1>6. SameShape(s, r)
  BY <1>1, <1>3, <1>4, <1>5 DEF SameShape, Rebuilt
<1>7. Filled(r)
  BY <1>1, <1>2, <1>3, <1>4, <1>5 DEF Filled
<1> QED BY <1>6, <1>7

\* Vertices that are one stay one: the rebuilt file is joined as the file is.
LEMMA RebuiltIsJoined ==
  ASSUME NEW s, Joined(s), NEW t, NumbersVertices(s, t),
         NEW v \in [DOMAIN t.vertices -> Points], NEW r, Rebuilt(s, r, t, v)
  PROVE  Joined(r)
<1>1. Filled(s) /\ Shaped(s)
  BY JoinedIsFilled DEF Joined
<1>2. /\ SameShape(s, r) /\ Filled(r)
  BY <1>1, RebuiltIsFilled
<1>3. /\ DOMAIN r.blocks = DOMAIN s.blocks /\ r.interfaces = s.interfaces /\ r.patches = s.patches
      /\ \A b \in DOMAIN s.blocks : r.blocks[b].nx = s.blocks[b].nx /\ r.blocks[b].ny = s.blocks[b].ny
      /\ \A b \in DOMAIN s.blocks : r.blocks[b] = MovedBlock(s, t, v, b)
  BY <1>2 DEF SameShape, Rebuilt
<1>4. SidesAreUsedOnce(r)
  <2>1. SidesAreUsedOnce(s)
    BY DEF Joined
  <2>2. \A ref : SideUses(r, ref) = SideUses(s, ref)
    BY <1>3 DEF SideUses
  <2> QED BY <1>3, <2>1, <2>2 DEF SidesAreUsedOnce
<1>5. InterfacesAreConformal(r)
  <2> SUFFICES ASSUME NEW n \in DOMAIN s.interfaces
               PROVE  LET i == s.interfaces[n]
                          a == r.blocks[i.first[1]]
                          b == r.blocks[i.second[1]]
                          faces == SideFaceCount(a, i.first[2])
                      IN  /\ SideFaceCount(b, i.second[2]) = faces
                          /\ \A k \in 0..faces :
                                SideVertex(a, i.first[2], k)
                                  = SideVertex(b, i.second[2], IF i.reversed THEN faces - k ELSE k)
    BY <1>3 DEF InterfacesAreConformal
  <2> DEFINE i == s.interfaces[n]
             A == i.first[1]
             p == i.first[2]
             B == i.second[1]
             q == i.second[2]
             F == SideFaceCount(s.blocks[A], p)
             to(k) == IF i.reversed THEN F - k ELSE k
  <2>1. A \in DOMAIN s.blocks /\ B \in DOMAIN s.blocks /\ p \in Sides /\ q \in Sides /\ i.reversed \in BOOLEAN
    BY RefFacts
  <2>2. /\ SideFaceCount(s.blocks[B], q) = F
        /\ \A k \in 0..F : SideVertex(s.blocks[A], p, k) = SideVertex(s.blocks[B], q, to(k))
    BY DEF Joined, InterfacesAreConformal
  <2>3. SideFaceCount(r.blocks[A], p) = F /\ SideFaceCount(r.blocks[B], q) = F
    BY <1>3, <2>1, <2>2 DEF SideFaceCount
  <2>4. F \in Nat
    BY <1>1, <2>1, ShapedFacts DEF SideFaceCount
  <2> HIDE DEF A, B, p, q, F, i
  <2>5. ASSUME NEW k \in 0..F
        PROVE  SideVertex(r.blocks[A], p, k) = SideVertex(r.blocks[B], q, to(k))
    <3>1. to(k) \in 0..F
      BY <2>4
    <3> HIDE DEF to
    <3> DEFINE x == SidePoint(s, A, p, k)
               y == SidePoint(s, B, q, to(k))
    <3>2. /\ IsPlace(s, A, x[1], x[2])
          /\ \A z : z.nx = s.blocks[A].nx /\ z.ny = s.blocks[A].ny =>
                SideVertex(z, p, k) = Vertex(z, x[1], x[2])
      BY <1>1, <2>1, SideVertexIs DEF F
    <3>3. /\ IsPlace(s, B, y[1], y[2])
          /\ \A z : z.nx = s.blocks[B].nx /\ z.ny = s.blocks[B].ny =>
                SideVertex(z, q, to(k)) = Vertex(z, y[1], y[2])
      <4>1. to(k) \in 0..SideFaceCount(s.blocks[B], q)
        BY <2>2, <3>1
      <4> QED BY <1>1, <2>1, <4>1, SideVertexIs
    <3> HIDE DEF x, y
    <3>4. Vertex(s.blocks[A], x[1], x[2]) = Vertex(s.blocks[B], y[1], y[2])
      BY <2>2, <3>2, <3>3
    <3>5. Vertex(IdBlock(s, t, A), x[1], x[2]) = Vertex(IdBlock(s, t, B), y[1], y[2])
      BY <1>1, <3>2, <3>3, <3>4, NumbersAre
    <3>6. /\ Vertex(MovedBlock(s, t, v, A), x[1], x[2]) = v[Vertex(IdBlock(s, t, A), x[1], x[2])]
          /\ Vertex(MovedBlock(s, t, v, B), y[1], y[2]) = v[Vertex(IdBlock(s, t, B), y[1], y[2])]
      BY <1>1, <3>2, <3>3, NumbersAre
    <3>7. /\ SideVertex(r.blocks[A], p, k) = Vertex(r.blocks[A], x[1], x[2])
          /\ SideVertex(r.blocks[B], q, to(k)) = Vertex(r.blocks[B], y[1], y[2])
      BY <1>3, <2>1, <3>2, <3>3
    <3> QED BY <1>3, <2>1, <3>5, <3>6, <3>7
  <2> QED BY <2>3, <2>5 DEF A, B, p, q, i
<1> QED BY <1>2, <1>3, <1>4, <1>5 DEF Joined, Filled

--------------------------------------------------------------------------------
(* The mesh with its vertices moved is that of the rebuilt file.             *)

\* Its cells have the corners of the rebuilt cells.
LEMMA RebuiltCells ==
  ASSUME NEW s, Joined(s), NEW t, IsTopology(s, t),
         NEW v \in [DOMAIN t.vertices -> Points], NEW r, Rebuilt(s, r, t, v)
  PROVE  /\ DOMAIN CellCorners(r) = DOMAIN t.cells
         /\ \A c \in DOMAIN t.cells : CellAt(t, v, c) = CellCorners(r)[c]
<1>1. Filled(s) /\ Shaped(s) /\ NumbersVertices(s, t)
  BY JoinedIsFilled DEF Joined, IsTopology
<1>2. SameShape(s, r) /\ Shaped(r)
  BY <1>1, RebuiltIsFilled DEF SameShape
<1>3. /\ DOMAIN CellCorners(s) = 1..Len(CellPlaces(s))
      /\ DOMAIN CellCorners(r) = 1..Len(CellPlaces(r))
      /\ CellPlaces(r) = CellPlaces(s)
  BY <1>1, <1>2, CellCornersFacts, SameCells
<1>4. DOMAIN CellCorners(r) = DOMAIN t.cells
  BY <1>3 DEF IsTopology
<1>5. ASSUME NEW c \in DOMAIN t.cells PROVE CellAt(t, v, c) = CellCorners(r)[c]
  <2>1. c \in DOMAIN CellCorners(s)
    BY DEF IsTopology
  <2>2. PICK b, i, j : IsCell(s, b, i, j) /\ c = GlobalCell(s, b, i, j)
    BY <1>1, <2>1, CellCornersFacts
  <2> DEFINE I == IdBlock(s, t, b)
             M == MovedBlock(s, t, v, b)
  <2>3. t.cells[c] = Corners(I, i, j)
    BY <2>2 DEF IsTopology
  <2>4. b \in DOMAIN s.blocks
    BY <2>2 DEF IsCell
  <2>5. CellCorners(r)[c] = Corners(M, i, j)
    <3>1. IsCell(r, b, i, j) /\ c = GlobalCell(r, b, i, j)
      BY <1>2, <2>2, <2>4, SameCells
    <3>2. r.blocks[b] = M
      BY <2>4 DEF Rebuilt
    <3> HIDE DEF M
    <3> QED BY <1>2, <3>1, <3>2, CellCornersFacts
  <2>6. /\ IsPlace(s, b, i, j) /\ IsPlace(s, b, i + 1, j)
        /\ IsPlace(s, b, i + 1, j + 1) /\ IsPlace(s, b, i, j + 1)
    BY <1>1, <2>2, ShapedFacts DEF IsCell, IsPlace
  <2>7. /\ Vertex(M, i, j) = v[Vertex(I, i, j)]
        /\ Vertex(M, i + 1, j) = v[Vertex(I, i + 1, j)]
        /\ Vertex(M, i + 1, j + 1) = v[Vertex(I, i + 1, j + 1)]
        /\ Vertex(M, i, j + 1) = v[Vertex(I, i, j + 1)]
    BY <1>1, <2>6, NumbersAre
  <2> DEFINE q == Corners(I, i, j)
  <2>8. /\ q[1] = Vertex(I, i, j) /\ q[2] = Vertex(I, i + 1, j)
        /\ q[3] = Vertex(I, i + 1, j + 1) /\ q[4] = Vertex(I, i, j + 1)
        /\ Corners(M, i, j) = << Vertex(M, i, j), Vertex(M, i + 1, j), Vertex(M, i + 1, j + 1), Vertex(M, i, j + 1) >>
    BY DEF Corners
  <2> HIDE DEF I, M, q
  <2>9. Corners(M, i, j) = << v[q[1]], v[q[2]], v[q[3]], v[q[4]] >>
    BY <2>7, <2>8
  <2>10. [k \in 1..4 |-> v[q[k]]] = << v[q[1]], v[q[2]], v[q[3]], v[q[4]] >>
    OBVIOUS
  <2>11. CellAt(t, v, c) = [k \in 1..4 |-> v[q[k]]]
    BY <2>3 DEF CellAt, q
  <2> QED BY <2>5, <2>9, <2>10, <2>11
<1> QED BY <1>4, <1>5

\* Its faces have the geometry of the rebuilt edges.
LEMMA RebuiltFaces ==
  ASSUME NEW s, Joined(s), NEW t, IsTopology(s, t),
         NEW v \in [DOMAIN t.vertices -> Points], NEW r, Rebuilt(s, r, t, v)
  PROVE  \A f \in DOMAIN Faces(s) :
            EdgeFace(t.faces[f], v[t.faces[f].a], v[t.faces[f].b]) = EdgeGeometry(r, FaceEdges(s)[f])
<1>1. Filled(s) /\ Shaped(s) /\ NumbersVertices(s, t)
  BY JoinedIsFilled DEF Joined, IsTopology
<1> TAKE f \in DOMAIN Faces(s)
<1> DEFINE e == FaceEdges(s)[f]
           side == t.faces[f]
<1>2. side = EdgeSide(s, t, e)
  BY DEF IsTopology
<1>3. IsEdge(s, e)
  BY <1>1, FacesFacts DEF HasFace
<1> HIDE DEF e, side
<1> DEFINE b == e.block
           i == e.i
           j == e.j
           I == IdBlock(s, t, b)
           M == MovedBlock(s, t, v, b)
<1>4. r.blocks[b] = M /\ b \in DOMAIN s.blocks /\ s.blocks[b].nx \in Nat /\ s.blocks[b].ny \in Nat
  <2>1. b \in DOMAIN s.blocks
    BY <1>3 DEF IsEdge
  <2> QED BY <1>1, <2>1, ShapedFacts DEF Rebuilt
<1>5. CASE e.kind = "vertical"
  <2>1. IsPlace(s, b, i, j) /\ IsPlace(s, b, i, j + 1)
    BY <1>3, <1>4, <1>5 DEF IsEdge, IsPlace
  <2>2. Vertex(M, i, j) = v[Vertex(I, i, j)] /\ Vertex(M, i, j + 1) = v[Vertex(I, i, j + 1)]
    BY <1>1, <2>1, NumbersAre
  <2>3. side = [a |-> Vertex(I, i, j), b |-> Vertex(I, i, j + 1), vertical |-> TRUE, negate |-> (i = 0)]
    BY <1>2, <1>5 DEF EdgeSide
  <2>4. EdgeGeometry(r, e) = VerticalEdgeFace(Vertex(r.blocks[b], i, j), Vertex(r.blocks[b], i, j + 1), i = 0)
    BY <1>5 DEF EdgeGeometry
  <2>5. EdgeFace(side, v[side.a], v[side.b]) = VerticalEdgeFace(v[Vertex(I, i, j)], v[Vertex(I, i, j + 1)], i = 0)
    BY <2>3 DEF EdgeFace
  <2>6. EdgeFace(side, v[side.a], v[side.b]) = EdgeGeometry(r, e)
    BY <1>4, <2>2, <2>4, <2>5
  <2> QED BY <2>6 DEF e, side
<1>6. CASE e.kind # "vertical"
  <2>1. IsPlace(s, b, i, j) /\ IsPlace(s, b, i + 1, j)
    BY <1>3, <1>4, <1>6 DEF IsEdge, IsPlace
  <2>2. Vertex(M, i, j) = v[Vertex(I, i, j)] /\ Vertex(M, i + 1, j) = v[Vertex(I, i + 1, j)]
    BY <1>1, <2>1, NumbersAre
  <2>3. side = [a |-> Vertex(I, i, j), b |-> Vertex(I, i + 1, j), vertical |-> FALSE, negate |-> (j = 0)]
    BY <1>2, <1>6 DEF EdgeSide
  <2>4. EdgeGeometry(r, e) = HorizontalEdgeFace(Vertex(r.blocks[b], i, j), Vertex(r.blocks[b], i + 1, j), j = 0)
    BY <1>6 DEF EdgeGeometry
  <2>5. EdgeFace(side, v[side.a], v[side.b]) = HorizontalEdgeFace(v[Vertex(I, i, j)], v[Vertex(I, i + 1, j)], j = 0)
    BY <2>3 DEF EdgeFace
  <2>6. EdgeFace(side, v[side.a], v[side.b]) = EdgeGeometry(r, e)
    BY <1>4, <2>2, <2>4, <2>5
  <2> QED BY <2>6 DEF e, side
<1> QED BY <1>5, <1>6

\* It is the mesh createMultiBlock2D makes of the rebuilt file.
LEMMA RebuiltMesh ==
  ASSUME NEW s, Joined(s), NEW t, IsTopology(s, t),
         NEW v \in [DOMAIN t.vertices -> Points], NEW r, Rebuilt(s, r, t, v)
  PROVE  SetGeometry(MeshOf(s), ComputeGeometry(t, v)) = MeshOf(r)
<1>1. Filled(s) /\ Shaped(s) /\ NumbersVertices(s, t)
  BY JoinedIsFilled DEF Joined, IsTopology
<1>2. SameShape(s, r)
  BY <1>1, RebuiltIsFilled
<1> DEFINE m == MeshOf(s)
           g == ComputeGeometry(t, v)
<1>3. IsMesh(m)
  BY <1>1, BuiltIsMesh DEF Shaped
<1>4. m.faces = Faces(s) /\ m.patches = Patches(s) /\ m.grids = s.blocks
  BY DEF MeshOf
<1>5. /\ g.cells = [c \in DOMAIN t.cells |-> CellGeometry(CellAt(t, v, c))]
      /\ g.faces = [f \in DOMAIN t.faces |-> EdgeFace(t.faces[f], v[t.faces[f].a], v[t.faces[f].b])]
      /\ g.grids = [b \in DOMAIN t.blockVertexIds |->
                      [n \in DOMAIN t.blockVertexIds[b] |-> v[t.blockVertexIds[b][n]]]]
  BY DEF ComputeGeometry
<1> HIDE DEF m, g
<1>6. g.cells = Cells(r)
  <2>1. Cells(r) = [c \in DOMAIN CellCorners(r) |-> CellGeometry(CellCorners(r)[c])]
    BY DEF Cells
  <2>2. DOMAIN CellCorners(r) = DOMAIN t.cells /\ \A c \in DOMAIN t.cells : CellAt(t, v, c) = CellCorners(r)[c]
    BY RebuiltCells
  <2> QED BY <1>5, <2>1, <2>2
<1>7. [f \in DOMAIN m.faces |-> [owner |-> m.faces[f].owner, neighbor |-> m.faces[f].neighbor,
                                 mid2 |-> g.faces[f].mid2, area |-> g.faces[f].area]] = Faces(r)
  <2> DEFINE face(f) == [owner |-> m.faces[f].owner, neighbor |-> m.faces[f].neighbor,
                         mid2 |-> g.faces[f].mid2, area |-> g.faces[f].area]
             E == FaceEdges(s)
             made(f) == [owner |-> OwnerOf(r, E[f]), neighbor |-> NeighborOf(r, E[f]),
                         mid2 |-> EdgeGeometry(r, E[f]).mid2, area |-> EdgeGeometry(r, E[f]).area]
  <2>1. Faces(r) = [f \in DOMAIN E |-> made(f)]
    <3>1. FaceEdges(r) = E
      BY <1>2, SameEdges
    <3> QED BY <3>1 DEF Faces
  <2>2. DOMAIN E = DOMAIN Faces(s) /\ DOMAIN t.faces = DOMAIN Faces(s)
    BY DEF Faces, IsTopology
  <2>3. ASSUME NEW f \in DOMAIN Faces(s) PROVE face(f) = made(f)
    <3>1. /\ IsEdge(s, E[f])
          /\ Faces(s)[f].owner = OwnerOf(s, E[f]) /\ Faces(s)[f].neighbor = NeighborOf(s, E[f])
      BY <1>1, FacesFacts DEF HasFace
    <3>2. OwnerOf(r, E[f]) = OwnerOf(s, E[f]) /\ NeighborOf(r, E[f]) = NeighborOf(s, E[f])
      BY <1>2, <3>1, SameNeighbors
    <3>3. g.faces[f] = EdgeGeometry(r, E[f])
      <4>1. g.faces[f] = EdgeFace(t.faces[f], v[t.faces[f].a], v[t.faces[f].b])
        BY <1>5, <2>2
      <4>2. EdgeFace(t.faces[f], v[t.faces[f].a], v[t.faces[f].b]) = EdgeGeometry(r, E[f])
        BY RebuiltFaces
      <4> QED BY <4>1, <4>2
    <3> QED BY <1>4, <3>1, <3>2, <3>3
  <2>4. DOMAIN m.faces = DOMAIN Faces(s)
    BY <1>4
  <2> HIDE DEF face, made, E
  <2>5. [f \in DOMAIN m.faces |-> face(f)] = [f \in DOMAIN E |-> made(f)]
    BY <2>2, <2>3, <2>4
  <2> QED BY <2>1, <2>5 DEF face
<1>8. [b \in DOMAIN m.grids |-> [nx |-> m.grids[b].nx, ny |-> m.grids[b].ny, vertices |-> g.grids[b]]]
        = r.blocks
  <2>1. \A b \in DOMAIN s.blocks :
           g.grids[b] = [n \in DOMAIN t.blockVertexIds[b] |-> v[t.blockVertexIds[b][n]]]
    BY <1>1, <1>5 DEF NumbersVertices
  <2>2. r.blocks = [b \in DOMAIN s.blocks |-> MovedBlock(s, t, v, b)]
    BY DEF Rebuilt
  <2>3. \A b \in DOMAIN s.blocks :
           MovedBlock(s, t, v, b) = [nx |-> s.blocks[b].nx, ny |-> s.blocks[b].ny, vertices |-> g.grids[b]]
    BY <2>1 DEF MovedBlock
  <2> QED BY <1>4, <2>2, <2>3
<1>9. m.patches = Patches(r)
  BY <1>2, <1>4, SameNeighbors
<1>10. SetGeometry(m, g) = [cells |-> Cells(r), faces |-> Faces(r), patches |-> Patches(r), grids |-> r.blocks]
  <2>1. SetGeometry(m, g) =
           [cells |-> g.cells,
            faces |-> [f \in DOMAIN m.faces |->
                         [owner |-> m.faces[f].owner, neighbor |-> m.faces[f].neighbor,
                          mid2 |-> g.faces[f].mid2, area |-> g.faces[f].area]],
            patches |-> m.patches,
            grids |-> [b \in DOMAIN m.grids |->
                         [nx |-> m.grids[b].nx, ny |-> m.grids[b].ny, vertices |-> g.grids[b]]]]
    BY <1>3, SetGeometryIs
  <2> QED BY <1>6, <1>7, <1>8, <1>9, <2>1
<1> QED BY <1>10 DEF MeshOf, m, g

\* computeGeometry throws when a rebuilt cell is not strictly convex.
LEMMA RebuiltIsConvex ==
  ASSUME NEW s, Joined(s), NEW t, IsTopology(s, t),
         NEW v \in [DOMAIN t.vertices -> Points], NEW r, Rebuilt(s, r, t, v)
  PROVE  CanCompute(t, v) <=> CellsAreConvex(r)
<1>1. Filled(s) /\ NumbersVertices(s, t)
  BY JoinedIsFilled DEF IsTopology
<1>2. Shaped(r)
  BY <1>1, RebuiltIsFilled DEF SameShape
<1>3. /\ DOMAIN CellCorners(r) = DOMAIN t.cells
      /\ \A c \in DOMAIN t.cells : CellAt(t, v, c) = CellCorners(r)[c]
  BY RebuiltCells
<1>4. /\ \A b, i, j : IsCell(r, b, i, j) =>
            /\ GlobalCell(r, b, i, j) \in DOMAIN CellCorners(r)
            /\ CellCorners(r)[GlobalCell(r, b, i, j)] = Corners(r.blocks[b], i, j)
      /\ \A c \in DOMAIN CellCorners(r) : \E b, i, j : IsCell(r, b, i, j) /\ c = GlobalCell(r, b, i, j)
  BY <1>2, CellCornersFacts
<1>5. CellsAreConvex(r) <=> \A b, i, j : IsCell(r, b, i, j) => StrictlyConvex(Corners(r.blocks[b], i, j))
  BY DEF CellsAreConvex, IsCell
<1>6. ASSUME CanCompute(t, v), NEW b, NEW i, NEW j, IsCell(r, b, i, j)
      PROVE  StrictlyConvex(Corners(r.blocks[b], i, j))
  <2> DEFINE c == GlobalCell(r, b, i, j)
  <2>1. c \in DOMAIN t.cells /\ CellAt(t, v, c) = Corners(r.blocks[b], i, j)
    BY <1>3, <1>4, <1>6
  <2>2. StrictlyConvex(CellAt(t, v, c))
    BY <1>6, <2>1 DEF CanCompute
  <2> QED BY <2>1, <2>2
<1>7. ASSUME CellsAreConvex(r), NEW c \in DOMAIN t.cells PROVE StrictlyConvex(CellAt(t, v, c))
  <2>1. PICK b, i, j : IsCell(r, b, i, j) /\ c = GlobalCell(r, b, i, j)
    BY <1>3, <1>4
  <2>2. CellAt(t, v, c) = Corners(r.blocks[b], i, j)
    BY <1>3, <1>4, <2>1
  <2> QED BY <1>5, <1>7, <2>1, <2>2
<1> QED BY <1>5, <1>6, <1>7 DEF CanCompute

\* A file is rebuilt where its own vertices are.
LEMMA RebuiltAtHome ==
  ASSUME NEW s, Joined(s), NEW t, IsTopology(s, t)
  PROVE  Rebuilt(s, s, t, t.vertices) /\ t.vertices \in [DOMAIN t.vertices -> Points]
<1>1. Filled(s) /\ NumbersVertices(s, t)
  BY JoinedIsFilled DEF IsTopology
<1> DEFINE v == t.vertices
           blocks == s.blocks
<1>2. blocks \in Seq(Blocks)
  BY DEF Joined, Shaped
<1>3. ASSUME NEW b \in DOMAIN blocks PROVE blocks[b] = MovedBlock(s, t, v, b)
  <2> DEFINE u == s.blocks[b].vertices
             ids == t.blockVertexIds[b]
             w == [n \in DOMAIN ids |-> v[ids[n]]]
  <2>1. blocks[b] \in Blocks
    <3> HIDE DEF blocks
    <3> QED BY <1>2
  <2>2. blocks[b] = [nx |-> s.blocks[b].nx, ny |-> s.blocks[b].ny, vertices |-> u] /\ u \in Seq(Points)
    BY <2>1 DEF Blocks, Points
  <2>3. ids \in [DOMAIN u -> DOMAIN v] /\ \A n \in DOMAIN u : v[ids[n]] = u[n]
    BY <1>1 DEF NumbersVertices
  <2>4. MovedBlock(s, t, v, b) = [nx |-> s.blocks[b].nx, ny |-> s.blocks[b].ny, vertices |-> w]
    BY DEF MovedBlock
  <2> HIDE DEF u, ids, v, blocks
  <2>5. u = [n \in DOMAIN u |-> u[n]]
    BY <2>2
  <2>6. w = u
    BY <2>3, <2>5
  <2> HIDE DEF w
  <2> QED BY <2>2, <2>4, <2>6
<1>4. v \in Seq(Points)
  BY <1>1 DEF NumbersVertices
<1> HIDE DEF blocks, v
<1>5. blocks = [b \in DOMAIN blocks |-> blocks[b]]
  BY <1>2
<1>6. blocks = [b \in DOMAIN blocks |-> MovedBlock(s, t, v, b)]
  BY <1>3, <1>5
<1>7. v \in [DOMAIN v -> Points]
  BY <1>4
<1> QED BY <1>6, <1>7 DEF Rebuilt, blocks, v

--------------------------------------------------------------------------------
(* What a motion of an accepted mesh can rely on.                            *)

\* The vertex map of an accepted mesh: where its vertices are, its cells are
\* strictly convex, and its geometry is the mesh's own.
LEMMA HomeFacts ==
  ASSUME NEW s, Joined(s), CellsAreConvex(s), NEW t, t = StructuredTopology(MeshOf(s))
  PROVE  /\ IsTopology(s, t) /\ IsMesh(MeshOf(s))
         /\ t.vertices \in Seq(Points)
         /\ \A c \in DOMAIN t.cells : t.cells[c] \in [1..4 -> DOMAIN t.vertices]
         /\ CanCompute(t, t.vertices)
         /\ SetGeometry(MeshOf(s), ComputeGeometry(t, t.vertices)) = MeshOf(s)
         /\ Reproduces(t, MeshOf(s))
<1>1. IsTopology(s, t) /\ NumbersVertices(s, t)
  BY TopologyIs DEF IsTopology
<1>2. Filled(s) /\ Shaped(s)
  BY JoinedIsFilled DEF Joined
<1>3. IsMesh(MeshOf(s))
  BY <1>2, BuiltIsMesh DEF Shaped
<1>4. Rebuilt(s, s, t, t.vertices) /\ t.vertices \in [DOMAIN t.vertices -> Points]
  BY <1>1, RebuiltAtHome
<1>5. CanCompute(t, t.vertices)
  BY <1>1, <1>4, RebuiltIsConvex
<1>6. SetGeometry(MeshOf(s), ComputeGeometry(t, t.vertices)) = MeshOf(s)
  BY <1>1, <1>4, RebuiltMesh
<1>7. Reproduces(t, MeshOf(s))
  <2> DEFINE m == MeshOf(s)
             g == ComputeGeometry(t, t.vertices)
  <2>1. Fits(g, m)
    BY GeometryFits
  <2> HIDE DEF m, g
  <2>2. IsMesh(m) /\ SetGeometry(m, g) = m
    BY <1>3, <1>6 DEF m, g
  <2>3. GeometryOf(SetGeometry(m, g)) = g
    BY <2>1, <2>2, SetGeometryFacts
  <2>4. GeometryOf(m) = g
    BY <2>2, <2>3
  <2> QED BY <2>4 DEF Reproduces, m, g
<1>8. ASSUME NEW c \in DOMAIN t.cells PROVE t.cells[c] \in [1..4 -> DOMAIN t.vertices]
  <2>1. c \in DOMAIN CellCorners(s)
    BY <1>1 DEF IsTopology
  <2>2. PICK b, i, j : IsCell(s, b, i, j) /\ c = GlobalCell(s, b, i, j)
    BY <1>2, <2>1, CellCornersFacts
  <2> DEFINE I == IdBlock(s, t, b)
  <2>3. t.cells[c] = Corners(I, i, j)
    BY <1>1, <2>2 DEF IsTopology
  <2>4. /\ IsPlace(s, b, i, j) /\ IsPlace(s, b, i + 1, j)
        /\ IsPlace(s, b, i + 1, j + 1) /\ IsPlace(s, b, i, j + 1)
    BY <1>2, <2>2, ShapedFacts DEF IsCell, IsPlace
  <2>5. /\ Vertex(I, i, j) \in DOMAIN t.vertices /\ Vertex(I, i + 1, j) \in DOMAIN t.vertices
        /\ Vertex(I, i + 1, j + 1) \in DOMAIN t.vertices /\ Vertex(I, i, j + 1) \in DOMAIN t.vertices
    BY <1>1, <1>2, <2>4, NumbersAre
  <2> HIDE DEF I
  <2>6. Corners(I, i, j) = << Vertex(I, i, j), Vertex(I, i + 1, j), Vertex(I, i + 1, j + 1), Vertex(I, i, j + 1) >>
    BY DEF Corners
  <2>7. \A D, x1, x2, x3, x4 : x1 \in D /\ x2 \in D /\ x3 \in D /\ x4 \in D => <<x1, x2, x3, x4>> \in [1..4 -> D]
    OBVIOUS
  <2> QED BY <2>3, <2>5, <2>6, <2>7
<1>9. t.vertices \in Seq(Points)
  BY <1>1 DEF NumbersVertices
<1> QED BY <1>1, <1>3, <1>5, <1>6, <1>7, <1>8, <1>9

\* A file with the vertices at v.
Moved(s, t, v) ==
  [blocks |-> [b \in DOMAIN s.blocks |-> MovedBlock(s, t, v, b)],
   interfaces |-> s.interfaces, patches |-> s.patches]

\* It is the file a mesh with those vertices would be built from.
LEMMA MovedIsRebuilt ==
  ASSUME NEW s, NEW t, NEW v
  PROVE  Rebuilt(s, Moved(s, t, v), t, v)
BY DEF Rebuilt, Moved

\* The mesh with its vertices at v is the one its grids would be built into.
LEMMA MovedMesh ==
  ASSUME NEW s \in Specs, Joined(s), NEW t, IsTopology(s, t),
         NEW v \in [DOMAIN t.vertices -> Points], CanCompute(t, v),
         NEW m, m = SetGeometry(MeshOf(s), ComputeGeometry(t, v))
  PROVE  /\ \A b \in DOMAIN m.grids :
               m.grids[b].vertices = [n \in DOMAIN m.grids[b].vertices |-> v[t.blockVertexIds[b][n]]]
         /\ CellsAreConvex([s EXCEPT !.blocks = m.grids])
         /\ m = MeshOf([s EXCEPT !.blocks = m.grids])
<1> DEFINE r == Moved(s, t, v)
           q == [s EXCEPT !.blocks = m.grids]
<1>1. Rebuilt(s, r, t, v)
  BY MovedIsRebuilt
<1> HIDE DEF r
<1>2. m = MeshOf(r)
  BY <1>1, RebuiltMesh
<1>3. m.grids = r.blocks
  BY <1>2 DEF MeshOf
<1>4. r.blocks = [b \in DOMAIN s.blocks |-> MovedBlock(s, t, v, b)]
  BY <1>1 DEF Rebuilt
<1>5. /\ q.blocks = r.blocks /\ q.interfaces = s.interfaces /\ q.patches = s.patches
  <2>1. s = [type |-> s.type, box |-> s.box, blocks |-> s.blocks,
             interfaces |-> s.interfaces, patches |-> s.patches]
    BY FileFacts
  <2>2. ASSUME NEW p, NEW a, NEW b, NEW c, NEW d, NEW e, NEW u,
               p = [type |-> a, box |-> b, blocks |-> c, interfaces |-> d, patches |-> e]
        PROVE  [p EXCEPT !.blocks = u] = [type |-> a, box |-> b, blocks |-> u, interfaces |-> d, patches |-> e]
    BY <2>2
  <2>3. q = [type |-> s.type, box |-> s.box, blocks |-> m.grids,
             interfaces |-> s.interfaces, patches |-> s.patches]
    BY <2>1, <2>2
  <2> HIDE DEF q
  <2> QED BY <1>3, <2>3
<1>6. Rebuilt(s, q, t, v)
  BY <1>1, <1>5 DEF Rebuilt
<1>7. CellsAreConvex(q) /\ m = MeshOf(q)
  BY <1>6, RebuiltIsConvex, RebuiltMesh
<1>8. ASSUME NEW b \in DOMAIN m.grids
      PROVE  m.grids[b].vertices = [n \in DOMAIN m.grids[b].vertices |-> v[t.blockVertexIds[b][n]]]
  <2>1. m.grids[b] = MovedBlock(s, t, v, b)
    BY <1>3, <1>4
  <2> QED BY <2>1 DEF MovedBlock
<1> HIDE DEF q
<1> QED BY <1>7, <1>8 DEF q

--------------------------------------------------------------------------------
(* What an edge, a side and a cell sweep.                                    *)

\* The sweep of the edge from a to b that moves to c and d, to its right.
EdgeSweep(a, b, c, d) ==
  Dot(Outward(Plus(a, c), Plus(b, d)), Plus(Minus(c, a), Minus(d, b)))

\* What an edge sweeps is the change of its part of the area, and what its ends pass on.
LEMMA EdgeSweepIs ==
  ASSUME NEW a \in Points, NEW b \in Points, NEW c \in Points, NEW d \in Points
  PROVE  /\ EdgeSweep(a, b, c, d)
              = 2 * (Cross(c, d) - Cross(a, b)) + 2 * (Cross(a, c) - Cross(b, d))
         /\ Cross(a, b) \in Int /\ EdgeSweep(a, b, c, d) \in Int
<1> DEFINE a1 == a[1]
           a2 == a[2]
           b1 == b[1]
           b2 == b[2]
           c1 == c[1]
           c2 == c[2]
           d1 == d[1]
           d2 == d[2]
<1>1. /\ a1 \in Int /\ a2 \in Int /\ b1 \in Int /\ b2 \in Int
      /\ c1 \in Int /\ c2 \in Int /\ d1 \in Int /\ d2 \in Int
  BY DEF Points
<1> DEFINE lhs == ((b2 + d2) - (a2 + c2)) * ((c1 - a1) + (d1 - b1))
                    + ((a1 + c1) - (b1 + d1)) * ((c2 - a2) + (d2 - b2))
           rhs == 2 * ((c1 * d2 - c2 * d1) - (a1 * b2 - a2 * b1))
                    + 2 * ((a1 * c2 - a2 * c1) - (b1 * d2 - b2 * d1))
<1>2. EdgeSweep(a, b, c, d) = lhs
  BY DEF EdgeSweep, Dot, Outward, Plus, Minus
<1>3. /\ Cross(c, d) = c1 * d2 - c2 * d1 /\ Cross(a, b) = a1 * b2 - a2 * b1
      /\ Cross(a, c) = a1 * c2 - a2 * c1 /\ Cross(b, d) = b1 * d2 - b2 * d1
  BY DEF Cross
<1> HIDE DEF a1, a2, b1, b2, c1, c2, d1, d2
<1>4. lhs = rhs
  BY <1>1
<1>5. a1 * b2 - a2 * b1 \in Int /\ lhs \in Int
  BY <1>1
<1> HIDE DEF lhs
<1> QED BY <1>2, <1>3, <1>4, <1>5

\* A quadrilateral that moves grows by what its sides sweep.
LEMMA QuadSweeps ==
  ASSUME NEW p \in [1..4 -> Points], NEW q \in [1..4 -> Points]
  PROVE  2 * (CellGeometry(q).area2 - CellGeometry(p).area2)
           = EdgeSweep(p[1], p[2], q[1], q[2]) + EdgeSweep(p[2], p[3], q[2], q[3])
             + EdgeSweep(p[3], p[4], q[3], q[4]) + EdgeSweep(p[4], p[1], q[4], q[1])
<1> DEFINE P(k) == Cross(p[k], p[NextCorner(k)])
           Q(k) == Cross(q[k], q[NextCorner(k)])
           M(k) == Cross(p[k], q[k])
<1>1. NextCorner(1) = 2 /\ NextCorner(2) = 3 /\ NextCorner(3) = 4 /\ NextCorner(4) = 1
  BY DEF NextCorner
<1>2. \A k \in 1..4 : P(k) \in Int /\ Q(k) \in Int /\ M(k) \in Int
  <2> TAKE k \in 1..4
  <2>1. NextCorner(k) \in 1..4
    BY DEF NextCorner
  <2> QED BY <2>1, EdgeSweepIs
<1>3. CellGeometry(p).area2 = P(1) + P(2) + P(3) + P(4)
  BY DEF CellGeometry
<1>4. CellGeometry(q).area2 = Q(1) + Q(2) + Q(3) + Q(4)
  BY DEF CellGeometry
<1>5. \A k \in 1..4 : EdgeSweep(p[k], p[NextCorner(k)], q[k], q[NextCorner(k)])
                        = 2 * (Q(k) - P(k)) + 2 * (M(k) - M(NextCorner(k)))
  <2> TAKE k \in 1..4
  <2>1. NextCorner(k) \in 1..4
    BY DEF NextCorner
  <2> QED BY <2>1, EdgeSweepIs
<1>6. /\ EdgeSweep(p[1], p[2], q[1], q[2]) = 2 * (Q(1) - P(1)) + 2 * (M(1) - M(2))
      /\ EdgeSweep(p[2], p[3], q[2], q[3]) = 2 * (Q(2) - P(2)) + 2 * (M(2) - M(3))
      /\ EdgeSweep(p[3], p[4], q[3], q[4]) = 2 * (Q(3) - P(3)) + 2 * (M(3) - M(4))
      /\ EdgeSweep(p[4], p[1], q[4], q[1]) = 2 * (Q(4) - P(4)) + 2 * (M(4) - M(1))
  BY <1>1, <1>5
<1>7. /\ P(1) \in Int /\ P(2) \in Int /\ P(3) \in Int /\ P(4) \in Int
      /\ Q(1) \in Int /\ Q(2) \in Int /\ Q(3) \in Int /\ Q(4) \in Int
      /\ M(1) \in Int /\ M(2) \in Int /\ M(3) \in Int /\ M(4) \in Int
  BY <1>2
<1> HIDE DEF P, Q, M
<1> QED BY <1>3, <1>4, <1>6, <1>7

\* What the sides of a cell sweep is what its edges do, counter-clockwise.
LEMMA SideSweeps ==
  ASSUME NEW c, NEW from, NEW to, \A k \in 1..4 : from[c[k]] \in Points /\ to[c[k]] \in Points
  PROVE  /\ SweptVolume4(CellSides(c)[1], from, to)
              = EdgeSweep(from[c[4]], from[c[1]], to[c[4]], to[c[1]])
         /\ SweptVolume4(CellSides(c)[2], from, to)
              = EdgeSweep(from[c[2]], from[c[3]], to[c[2]], to[c[3]])
         /\ SweptVolume4(CellSides(c)[3], from, to)
              = EdgeSweep(from[c[1]], from[c[2]], to[c[1]], to[c[2]])
         /\ SweptVolume4(CellSides(c)[4], from, to)
              = EdgeSweep(from[c[3]], from[c[4]], to[c[3]], to[c[4]])
<1> DEFINE P(k) == Plus(from[c[k]], to[c[k]])
           W(k, m) == Plus(Minus(to[c[k]], from[c[k]]), Minus(to[c[m]], from[c[m]]))
<1>1. /\ \A k \in 1..4 : P(k)[1] \in Int /\ P(k)[2] \in Int
      /\ \A k, m \in 1..4 : W(k, m) = W(m, k)
  BY DEF Points, Plus, Minus
<1>2. \A k, m \in 1..4 : EdgeSweep(from[c[k]], from[c[m]], to[c[k]], to[c[m]])
                           = Dot(Outward(P(k), P(m)), W(k, m))
  BY DEF EdgeSweep
<1> HIDE DEF P, W
<1>3. SweptVolume4(CellSides(c)[1], from, to)
        = EdgeSweep(from[c[4]], from[c[1]], to[c[4]], to[c[1]])
  <2> DEFINE s == CellSides(c)[1]
  <2>1. /\ s.a = c[1] /\ s.b = c[4]
        /\ EdgeFace(s, P(1), P(4)).area
             = <<(-1) * (P(4)[2] - P(1)[2]), (-1) * (P(1)[1] - P(4)[1])>>
    BY DEF CellSides, EdgeFace, VerticalEdgeFace, Times
  <2> HIDE DEF s
  <2>2. EdgeFace(s, P(1), P(4)).area = Outward(P(4), P(1))
    BY <1>1, <2>1 DEF Outward
  <2>3. SweptVolume4(s, from, to) = Dot(EdgeFace(s, P(1), P(4)).area, W(1, 4))
    BY <2>1 DEF SweptVolume4, P, W
  <2>4. W(1, 4) = W(4, 1)
    BY <1>1
  <2> QED BY <1>2, <2>2, <2>3, <2>4 DEF s
<1>4. SweptVolume4(CellSides(c)[2], from, to)
        = EdgeSweep(from[c[2]], from[c[3]], to[c[2]], to[c[3]])
  <2> DEFINE s == CellSides(c)[2]
  <2>1. /\ s.a = c[2] /\ s.b = c[3]
        /\ EdgeFace(s, P(2), P(3)).area
             = <<1 * (P(3)[2] - P(2)[2]), 1 * (P(2)[1] - P(3)[1])>>
    BY DEF CellSides, EdgeFace, VerticalEdgeFace, Times
  <2> HIDE DEF s
  <2>2. EdgeFace(s, P(2), P(3)).area = Outward(P(2), P(3))
    BY <1>1, <2>1 DEF Outward
  <2>3. SweptVolume4(s, from, to) = Dot(EdgeFace(s, P(2), P(3)).area, W(2, 3))
    BY <2>1 DEF SweptVolume4, P, W
  <2>4. W(2, 3) = W(2, 3)
    BY <1>1
  <2> QED BY <1>2, <2>2, <2>3, <2>4 DEF s
<1>5. SweptVolume4(CellSides(c)[3], from, to)
        = EdgeSweep(from[c[1]], from[c[2]], to[c[1]], to[c[2]])
  <2> DEFINE s == CellSides(c)[3]
  <2>1. /\ s.a = c[1] /\ s.b = c[2]
        /\ EdgeFace(s, P(1), P(2)).area
             = <<(-1) * (P(1)[2] - P(2)[2]), (-1) * (P(2)[1] - P(1)[1])>>
    BY DEF CellSides, EdgeFace, HorizontalEdgeFace, Times
  <2> HIDE DEF s
  <2>2. EdgeFace(s, P(1), P(2)).area = Outward(P(1), P(2))
    BY <1>1, <2>1 DEF Outward
  <2>3. SweptVolume4(s, from, to) = Dot(EdgeFace(s, P(1), P(2)).area, W(1, 2))
    BY <2>1 DEF SweptVolume4, P, W
  <2>4. W(1, 2) = W(1, 2)
    BY <1>1
  <2> QED BY <1>2, <2>2, <2>3, <2>4 DEF s
<1>6. SweptVolume4(CellSides(c)[4], from, to)
        = EdgeSweep(from[c[3]], from[c[4]], to[c[3]], to[c[4]])
  <2> DEFINE s == CellSides(c)[4]
  <2>1. /\ s.a = c[4] /\ s.b = c[3]
        /\ EdgeFace(s, P(4), P(3)).area
             = <<1 * (P(4)[2] - P(3)[2]), 1 * (P(3)[1] - P(4)[1])>>
    BY DEF CellSides, EdgeFace, HorizontalEdgeFace, Times
  <2> HIDE DEF s
  <2>2. EdgeFace(s, P(4), P(3)).area = Outward(P(3), P(4))
    BY <1>1, <2>1 DEF Outward
  <2>3. SweptVolume4(s, from, to) = Dot(EdgeFace(s, P(4), P(3)).area, W(4, 3))
    BY <2>1 DEF SweptVolume4, P, W
  <2>4. W(4, 3) = W(3, 4)
    BY <1>1
  <2> QED BY <1>2, <2>2, <2>3, <2>4 DEF s
<1> QED BY <1>3, <1>4, <1>5, <1>6

--------------------------------------------------------------------------------
(* The inductive invariant.                                                  *)

\* The mesh with its vertices at these positions.
MeshAt(vertices) == SetGeometry(MeshOf(spec), ComputeGeometry(topology, vertices))

\* The vertices of the topology are at points of the lattice, and every cell is
\* strictly convex.
ValidAt(vertices) ==
  vertices \in [DOMAIN reference -> Points] /\ CanCompute(topology, vertices)

\* What revert() leaves: the mesh, the vertices and the time.
Reverted ==
  << IF undo.geometry # << >> THEN SetGeometry(mesh, undo.geometry) ELSE mesh,
     undo.vertices, undo.time >>

\* What revert() would go back to: a mesh made of vertices that were valid.
UndoInv ==
  /\ undo = [can |-> undo.can, time |-> undo.time, vertices |-> undo.vertices,
             geometry |-> undo.geometry]
  /\ undo.can =>
       /\ ValidAt(undo.vertices)
       /\ IF undo.geometry = << >> THEN undo.vertices = current
          ELSE undo.geometry = ComputeGeometry(topology, undo.vertices)

\* The last step that was not taken back: from the vertices to revert to, to the
\* current ones.
StepInv ==
  step # NoStep =>
    /\ undo.can
    /\ step.previous = MeshAt(undo.vertices).cells
    /\ step.moved = (undo.vertices # current)
    /\ step.swept4 = IF step.moved THEN SweptVolumes(topology, undo.vertices, current)
                     ELSE [f \in DOMAIN mesh.faces |-> 0]

\* What a mesh that is built, and a motion that is under way, can rely on.
MotionInv ==
  /\ spec \in Specs
  /\ state \in {"ready", "moving"} => IsBuilt(spec)
  /\ state = "ready" => mesh = MeshOf(spec)
  /\ state # "moving" => step = NoStep
  /\ state = "moving" =>
       /\ topology = StructuredTopology(MeshOf(spec)) /\ reference = topology.vertices
       /\ mesh = MeshAt(current)
       /\ ValidAt(current)
       /\ UndoInv
       /\ StepInv

\* Moving the vertices twice is moving them to the last place.
LEMMA MeshAtFacts ==
  ASSUME IsMesh(MeshOf(spec)), topology = StructuredTopology(MeshOf(spec)), NEW vertices
  PROVE  /\ IsMesh(MeshAt(vertices))
         /\ GeometryOf(MeshAt(vertices)) = ComputeGeometry(topology, vertices)
         /\ MeshAt(vertices).cells = ComputeGeometry(topology, vertices).cells
         /\ \A other : SetGeometry(MeshAt(vertices), ComputeGeometry(topology, other)) = MeshAt(other)
         /\ DOMAIN MeshAt(vertices).faces = DOMAIN Faces(spec)
<1> DEFINE m == MeshOf(spec)
<1>1. \A v : Fits(ComputeGeometry(topology, v), m)
  BY GeometryFits
<1>2. m.faces = Faces(spec)
  BY DEF MeshOf
<1> HIDE DEF m
<1> QED BY <1>1, <1>2, SetGeometryFacts DEF MeshAt, m

\* What the vertex map of a moving mesh is.
LEMMA MotionHome ==
  ASSUME MotionInv, state = "moving"
  PROVE  /\ Joined(spec) /\ CellsAreConvex(spec) /\ IsMesh(MeshOf(spec))
         /\ topology = StructuredTopology(MeshOf(spec))
         /\ IsTopology(spec, topology)
         /\ reference = topology.vertices /\ topology.vertices \in Seq(Points)
         /\ \A c \in DOMAIN topology.cells : topology.cells[c] \in [1..4 -> DOMAIN topology.vertices]
<1>1. /\ Joined(spec) /\ CellsAreConvex(spec) /\ topology = StructuredTopology(MeshOf(spec))
      /\ reference = topology.vertices
  BY DEF MotionInv, IsBuilt
<1> QED BY <1>1, HomeFacts

\* The corners of the cells are among the vertices, wherever those are.
LEMMA CellsArePoints ==
  ASSUME MotionInv, state = "moving", NEW vertices, ValidAt(vertices),
         NEW c \in DOMAIN topology.cells
  PROVE  CellAt(topology, vertices, c) \in [1..4 -> Points]
<1>1. topology.cells[c] \in [1..4 -> DOMAIN reference]
  BY MotionHome DEF MotionInv
<1>2. vertices \in [DOMAIN reference -> Points]
  BY DEF ValidAt
<1> QED BY <1>1, <1>2 DEF CellAt

\* Nothing is built at first.
LEMMA MotionInit == Init => MotionInv
BY DEF Init, MotionInv

\* The builders establish what a motion needs of its mesh.
LEMMA MotionBuild ==
  ASSUME MotionInv, BuildBlocks \/ BuildQuad
  PROVE  MotionInv'
<1>1. spec \in Specs /\ spec' = spec /\ step' = NoStep
  BY DEF MotionInv, BuildBlocks, BuildQuad, motionVars
<1>2. state' \in {"ready", "invalid", "rejected"}
      /\ (state' = "ready" => IsBuilt(spec) /\ mesh' = MeshOf(spec))
  <2>1. CASE BuildBlocks
    BY <1>1, <2>1, BlocksAreBuilt DEF BuildBlocks, Judge, Reject
  <2>2. CASE BuildQuad
    BY <1>1, <2>2, QuadIsBuilt DEF BuildQuad, Judge, Reject
  <2> QED BY <2>1, <2>2
<1> QED BY <1>1, <1>2 DEF MotionInv

\* A motion begins with the vertices of the mesh, whose cells are convex.
LEMMA MotionStart ==
  ASSUME MotionInv, StartMotion
  PROVE  MotionInv'
<1> DEFINE t == StructuredTopology(MeshOf(spec))
<1>1. /\ state = "ready" /\ mesh = MeshOf(spec) /\ IsBuilt(spec) /\ spec \in Specs
      /\ spec' = spec /\ mesh' = mesh /\ state' = "moving"
  BY DEF StartMotion, MotionInv
<1>2. /\ topology' = t /\ reference' = t.vertices /\ current' = t.vertices
      /\ undo' = NothingToUndo /\ step' = NoStep
  BY <1>1 DEF StartMotion
<1>3. /\ t.vertices \in Seq(Points) /\ CanCompute(t, t.vertices)
      /\ SetGeometry(MeshOf(spec), ComputeGeometry(t, t.vertices)) = MeshOf(spec)
  BY <1>1, HomeFacts DEF IsBuilt
<1> HIDE DEF t
<1>4. mesh' = MeshAt(current)'
  BY <1>1, <1>2, <1>3 DEF MeshAt
<1>5. ~undo'.can
  BY <1>2 DEF NothingToUndo
<1>6. ValidAt(current)'
  <2> DEFINE w == t.vertices
  <2>1. w \in Seq(Points)
    BY <1>3
  <2> HIDE DEF w
  <2>2. w \in [DOMAIN w -> Points]
    BY <2>1
  <2> QED BY <1>2, <1>3, <2>2 DEF ValidAt, w
<1> QED BY <1>1, <1>2, <1>4, <1>5, <1>6 DEF MotionInv, UndoInv, StepInv, NothingToUndo, t

\* A displaced vertex is still a point of the lattice.
LEMMA PositionsArePoints ==
  ASSUME reference \in Seq(Points), NEW next \in Positions
  PROVE  next \in [DOMAIN reference -> Points]
<1>1. PICK w \in {DOMAIN reference} \cup {{v} : v \in DOMAIN reference}, d \in Displacements :
        next = [v \in DOMAIN reference |-> IF v \in w THEN Plus(reference[v], d) ELSE reference[v]]
  BY DEF Positions
<1>2. \A v \in DOMAIN reference : reference[v] \in Points
  OBVIOUS
<1>3. d \in Points
  BY MovingMeshAssumption DEF Points
<1>4. \A v \in DOMAIN reference : Plus(reference[v], d) \in Points
  BY <1>2, <1>3 DEF Plus, Points
<1> QED BY <1>1, <1>2, <1>4

\* A step keeps the invariant and leaves revert() what was there before it.
LEMMA MotionAdvance ==
  ASSUME MotionInv, NEW next \in Positions, Advance(next)
  PROVE  MotionInv' /\ Reverted' = <<mesh, current, time>>
<1>1. /\ state = "moving" /\ state' = "moving" /\ spec' = spec
      /\ topology' = topology /\ reference' = reference /\ current' = next
  BY DEF Advance
<1>2. /\ IsMesh(MeshOf(spec)) /\ topology = StructuredTopology(MeshOf(spec))
      /\ reference = topology.vertices /\ reference \in Seq(Points)
      /\ mesh = MeshAt(current) /\ ValidAt(current)
  BY <1>1, MotionHome DEF MotionInv
<1>3. \A v : MeshAt(v)' = MeshAt(v')
  BY <1>1 DEF MeshAt
<1>4. undo' = RevertMembers(next)
  BY DEF Advance
<1>5. /\ undo'.can /\ undo'.vertices = current /\ undo'.time = time
      /\ undo'.geometry = IF next # current THEN GeometryOf(mesh) ELSE << >>
  BY <1>4 DEF RevertMembers
<1>6. mesh' = IF next # current THEN SetGeometry(mesh, ComputeGeometry(topology, next)) ELSE mesh
  BY DEF Advance
<1>7. mesh' = MeshAt(next)
  BY <1>2, <1>6, MeshAtFacts
<1>8. MeshAt(current)' = MeshAt(next)
  BY <1>1 DEF MeshAt
<1>9. GeometryOf(mesh) = ComputeGeometry(topology, current) /\ GeometryOf(mesh) # << >>
  BY <1>2, MeshAtFacts, GeometryFits
<1>10. ValidAt(current)' /\ ValidAt(undo.vertices)'
  <2>1. CanCompute(topology, next)
    BY <1>2 DEF ValidAt, Advance
  <2>2. next \in [DOMAIN reference -> Points]
    BY <1>2, PositionsArePoints
  <2> QED BY <1>1, <1>2, <1>5, <2>1, <2>2 DEF ValidAt
<1>11. UndoInv'
  BY <1>1, <1>4, <1>5, <1>9, <1>10 DEF UndoInv, RevertMembers
<1>12. DOMAIN mesh'.faces = DOMAIN mesh.faces
  BY <1>2, <1>7, MeshAtFacts
<1>13. step' = [moved |-> next # current,
                swept4 |-> IF next # current THEN SweptVolumes(topology, current, next)
                           ELSE [f \in DOMAIN mesh.faces |-> 0],
                previous |-> mesh.cells]
  BY DEF Advance
<1>14. StepInv'
  <2>1. MeshAt(undo.vertices)' = mesh
    BY <1>1, <1>2, <1>5 DEF MeshAt
  <2> QED BY <1>1, <1>5, <1>12, <1>13, <2>1 DEF StepInv
<1>15. Reverted' = <<mesh, current, time>>
  <2>1. CASE next # current
    <3>1. SetGeometry(mesh', undo'.geometry) = mesh
      BY <1>2, <1>5, <1>7, <1>9, <2>1, MeshAtFacts
    <3> QED BY <1>5, <1>9, <2>1, <3>1 DEF Reverted
  <2>2. CASE next = current
    BY <1>5, <1>6, <2>2 DEF Reverted
  <2> QED BY <2>1, <2>2
<1>16. spec' \in Specs /\ IsBuilt(spec)'
  BY <1>1 DEF MotionInv
<1> QED BY <1>1, <1>2, <1>7, <1>8, <1>10, <1>11, <1>14, <1>15, <1>16 DEF MotionInv

\* Taking a step back keeps the invariant.
LEMMA MotionRevert ==
  ASSUME MotionInv, Revert
  PROVE  MotionInv'
<1>1. /\ state = "moving" /\ state' = "moving" /\ spec' = spec
      /\ topology' = topology /\ reference' = reference /\ current' = undo.vertices
      /\ step' = NoStep
  BY DEF Revert
<1>2. /\ IsMesh(MeshOf(spec)) /\ topology = StructuredTopology(MeshOf(spec))
      /\ reference = topology.vertices
      /\ mesh = MeshAt(current)
  BY <1>1, MotionHome DEF MotionInv
<1>3. undo.can /\ UndoInv
  BY <1>1 DEF Revert, MotionInv
<1>4. mesh' = MeshAt(undo.vertices)
  <2>1. mesh' = IF undo.geometry # << >> THEN SetGeometry(mesh, undo.geometry) ELSE mesh
    BY DEF Revert
  <2>2. CASE undo.geometry = << >>
    BY <1>2, <1>3, <2>1, <2>2 DEF UndoInv
  <2>3. CASE undo.geometry # << >>
    BY <1>2, <1>3, <2>1, <2>3, MeshAtFacts DEF UndoInv
  <2> QED BY <2>2, <2>3
<1>5. MeshAt(current)' = MeshAt(undo.vertices)
  BY <1>1 DEF MeshAt
<1>6. ValidAt(current)'
  BY <1>1, <1>3 DEF UndoInv, ValidAt
<1>7. UndoInv'
  <2>1. undo' = [undo EXCEPT !.can = FALSE, !.geometry = << >>]
    BY DEF Revert
  <2>2. undo = [can |-> undo.can, time |-> undo.time, vertices |-> undo.vertices,
                geometry |-> undo.geometry]
    BY <1>3 DEF UndoInv
  <2>3. ASSUME NEW p, NEW a, NEW b, NEW c, NEW d, NEW u, NEW w,
               p = [can |-> a, time |-> b, vertices |-> c, geometry |-> d]
        PROVE  [p EXCEPT !.can = u, !.geometry = w]
                 = [can |-> u, time |-> b, vertices |-> c, geometry |-> w]
    <3> DEFINE q == [p EXCEPT !.can = u]
               z == [q EXCEPT !.geometry = w]
    <3>1. q = [can |-> u, time |-> b, vertices |-> c, geometry |-> d]
      BY <2>3
    <3>2. z = [can |-> u, time |-> b, vertices |-> c, geometry |-> w]
      <4> HIDE DEF q
      <4> QED BY <3>1
    <3>3. [p EXCEPT !.can = u, !.geometry = w] = z
      OBVIOUS
    <3> QED BY <3>2, <3>3
  <2>4. undo' = [can |-> FALSE, time |-> undo.time, vertices |-> undo.vertices,
                 geometry |-> << >>]
    BY <2>1, <2>2, <2>3
  <2> QED BY <2>4 DEF UndoInv
<1>8. spec' \in Specs /\ IsBuilt(spec)'
  BY <1>1 DEF MotionInv
<1> QED BY <1>1, <1>2, <1>4, <1>5, <1>6, <1>7, <1>8 DEF MotionInv, StepInv

\* Every step keeps the invariant.
LEMMA MotionStep ==
  ASSUME MotionInv, [Next]_vars
  PROVE  MotionInv'
<1>1. CASE BuildBlocks \/ BuildQuad
  BY <1>1, MotionBuild
<1>2. CASE StartMotion
  BY <1>2, MotionStart
<1>3. ASSUME NEW next \in Positions, Advance(next) PROVE MotionInv'
  BY <1>3, MotionAdvance
<1>4. CASE Revert
  BY <1>4, MotionRevert
<1>5. CASE UNCHANGED vars
  BY <1>5 DEF vars, MotionInv, MeshAt, ValidAt, UndoInv, StepInv
<1> QED BY <1>1, <1>2, <1>3, <1>4, <1>5 DEF Next

\* The invariant holds of every file and every sequence of steps.
THEOREM MotionInvHolds == Spec => []MotionInv
<1>1. Init => MotionInv
  BY MotionInit
<1>2. MotionInv /\ [Next]_vars => MotionInv'
  BY MotionStep
<1> QED BY <1>1, <1>2, PTL DEF Spec

--------------------------------------------------------------------------------
(* The theorems.                                                             *)

\* The faces of the mesh a file is built into are the edges of its cells.
LEMMA BuiltFacesAreTheEdges ==
  ASSUME IsBuilt(spec), mesh = MeshOf(spec)
  PROVE  FacesAreTheEdges
<1> SUFFICES ASSUME state = "ready" PROVE FacesAreTheEdges
  BY DEF FacesAreTheEdges
<1>1. /\ Joined(spec) /\ CellsAreConvex(spec) /\ FacesJoinTwoCells(MeshOf(spec))
      /\ mesh = MeshOf(spec)
  BY DEF IsBuilt
<1>2. mesh.faces = Faces(spec) /\ mesh.patches = Patches(spec)
  BY <1>1 DEF MeshOf
<1>3. \A c \in CellIds, k \in 1..4 :
         \E f \in DOMAIN mesh.faces :
            {g \in DOMAIN mesh.faces : IsEdgeOfCell(spec, mesh.faces, g, c, k)} = {f}
  BY <1>1, <1>2, EveryEdgeIsAFace DEF CellIds, SpecCorners
<1>4. \A f \in DOMAIN mesh.faces :
         /\ mesh.faces[f].owner # mesh.faces[f].neighbor
         /\ mesh.faces[f].owner # NoCell
         /\ \A c \in {mesh.faces[f].owner, mesh.faces[f].neighbor} \ {NoCell} :
               c \in CellIds /\ \E k \in 1..4 : IsEdgeOfCell(spec, mesh.faces, f, c, k)
         /\ PatchCount(mesh, f) = IF mesh.faces[f].neighbor = NoCell THEN 1 ELSE 0
  <2> TAKE f \in DOMAIN mesh.faces
  <2>1. mesh.faces[f].owner # mesh.faces[f].neighbor
    BY <1>1 DEF FacesJoinTwoCells
  <2>2. /\ mesh.faces[f].owner # NoCell
        /\ \A c \in {mesh.faces[f].owner, mesh.faces[f].neighbor} \ {NoCell} :
               c \in CellIds /\ \E k \in 1..4 : IsEdgeOfCell(spec, mesh.faces, f, c, k)
    BY <1>1, <1>2, EveryFaceIsAnEdge DEF CellIds, SpecCorners
  <2>3. PatchCount(mesh, f) = IF mesh.faces[f].neighbor = NoCell THEN 1 ELSE 0
    BY <1>1, <1>2, PatchCounts
  <2> QED BY <2>1, <2>2, <2>3
<1>5. \A p \in DOMAIN spec.patches :
         { mesh.faces[f].mid2 : f \in ToSet(mesh.patches[p]) }
           = UNION { { Plus(SideVertex(spec.blocks[ref[1]], ref[2], k - 1),
                            SideVertex(spec.blocks[ref[1]], ref[2], k)) :
                         k \in 1..SideFaceCount(spec.blocks[ref[1]], ref[2]) } :
                       ref \in ToSet(spec.patches[p]) }
  <2> TAKE p \in DOMAIN spec.patches
  <2>1. { Faces(spec)[f].mid2 : f \in ToSet(Patches(spec)[p]) }
           = UNION { { Plus(SideVertex(spec.blocks[ref[1]], ref[2], k - 1),
                            SideVertex(spec.blocks[ref[1]], ref[2], k)) :
                         k \in 1..SideFaceCount(spec.blocks[ref[1]], ref[2]) } :
                       ref \in ToSet(spec.patches[p]) }
    BY <1>1, PatchMids
  <2> QED BY <1>2, <2>1
<1>6. Len(spec.blocks) = 1 /\ spec.patches = FourPatches
        => mesh = StructuredMesh(spec.blocks[1]) /\ mesh = MeshOf(spec)
  BY <1>1, FourPatchesAlone, StructuredIsMeshOf
<1> QED BY <1>3, <1>4, <1>5, <1>6, Zenon DEF FacesAreTheEdges, IsEdgeOfCell, SpecCorners

\* The mesh createMultiBlock2D makes of an accepted file has each edge of each
\* cell as one face, the faces of each patch's sides in that patch, and is the
\* one buildStructuredMesh makes of a block by itself: of every file, for any
\* number of blocks of any size joined in any way.
THEOREM FacesAreTheEdgesHolds == Spec => []FacesAreTheEdges
<1>1. MotionInv => FacesAreTheEdges
  <2> SUFFICES ASSUME MotionInv, state = "ready" PROVE FacesAreTheEdges
    BY DEF FacesAreTheEdges
  <2> QED BY BuiltFacesAreTheEdges DEF MotionInv
<1> QED BY <1>1, MotionInvHolds, PTL

\* A strictly convex quadrilateral has a positive area.
LEMMA ConvexHasArea ==
  ASSUME NEW q \in [1..4 -> Points], StrictlyConvex(q)
  PROVE  CellGeometry(q).area2 > 0
<1>1. NextCorner(1) = 2 /\ NextCorner(2) = 3 /\ NextCorner(3) = 4 /\ NextCorner(4) = 1
  BY DEF NextCorner
<1> DEFINE a1 == q[1][1]
           a2 == q[1][2]
           b1 == q[2][1]
           b2 == q[2][2]
           c1 == q[3][1]
           c2 == q[3][2]
           d1 == q[4][1]
           d2 == q[4][2]
<1>2. /\ a1 \in Int /\ a2 \in Int /\ b1 \in Int /\ b2 \in Int
      /\ c1 \in Int /\ c2 \in Int /\ d1 \in Int /\ d2 \in Int
  <2>1. q[1] \in Points /\ q[2] \in Points /\ q[3] \in Points /\ q[4] \in Points
    OBVIOUS
  <2> QED BY <2>1 DEF Points
<1>3. Orient(q[1], q[2], q[3]) > 0 /\ Orient(q[3], q[4], q[1]) > 0
  BY <1>1 DEF StrictlyConvex
<1>4. /\ Orient(q[1], q[2], q[3]) = (b1 - a1) * (c2 - a2) - (b2 - a2) * (c1 - a1)
      /\ Orient(q[3], q[4], q[1]) = (d1 - c1) * (a2 - c2) - (d2 - c2) * (a1 - c1)
  BY DEF Orient, Cross, Minus
<1>5. CellGeometry(q).area2 = (a1 * b2 - a2 * b1) + (b1 * c2 - b2 * c1)
                                + (c1 * d2 - c2 * d1) + (d1 * a2 - d2 * a1)
  BY <1>1 DEF CellGeometry, Cross
<1> HIDE DEF a1, a2, b1, b2, c1, c2, d1, d2
<1>6. (a1 * b2 - a2 * b1) + (b1 * c2 - b2 * c1) + (c1 * d2 - c2 * d1) + (d1 * a2 - d2 * a1)
        = ((b1 - a1) * (c2 - a2) - (b2 - a2) * (c1 - a1))
            + ((d1 - c1) * (a2 - c2) - (d2 - c2) * (a1 - c1))
  BY <1>2
<1>7. (b1 - a1) * (c2 - a2) - (b2 - a2) * (c1 - a1) \in Int
      /\ (d1 - c1) * (a2 - c2) - (d2 - c2) * (a1 - c1) \in Int
  BY <1>2
<1> QED BY <1>3, <1>4, <1>5, <1>6, <1>7

\* The mesh of a motion is the built one with its vertices where the motion
\* has them, faces, patches and neighbours as they were, whatever steps were
\* taken, refused and reverted; and each of its cells is strictly convex with
\* a positive volume, which the solvers divide by.
MeshFollowsVertices ==
  state = "moving" =>
    /\ topology = StructuredTopology(MeshOf(spec))
    /\ mesh = SetGeometry(MeshOf(spec), ComputeGeometry(topology, current))
    /\ CanCompute(topology, current)
    /\ \A c \in DOMAIN mesh.cells : mesh.cells[c].area2 > 0

\* MeshMotion keeps mesh and vertices together and never makes a cell that is
\* not strictly convex.
THEOREM MotionFollowsVertices == Spec => []MeshFollowsVertices
<1>1. MotionInv => MeshFollowsVertices
  <2> SUFFICES ASSUME MotionInv, state = "moving" PROVE MeshFollowsVertices
    BY DEF MeshFollowsVertices
  <2>1. /\ IsMesh(MeshOf(spec)) /\ topology = StructuredTopology(MeshOf(spec))
        /\ mesh = MeshAt(current) /\ ValidAt(current)
    BY MotionHome DEF MotionInv
  <2>2. ASSUME NEW c \in DOMAIN mesh.cells PROVE mesh.cells[c].area2 > 0
    <3>1. mesh.cells = [d \in DOMAIN topology.cells |-> CellGeometry(CellAt(topology, current, d))]
      BY <2>1, MeshAtFacts DEF ComputeGeometry
    <3>2. c \in DOMAIN topology.cells /\ mesh.cells[c] = CellGeometry(CellAt(topology, current, c))
      BY <2>2, <3>1
    <3>3. CellAt(topology, current, c) \in [1..4 -> Points]
      BY <2>1, <3>2, CellsArePoints
    <3>4. StrictlyConvex(CellAt(topology, current, c))
      BY <2>1, <3>2 DEF ValidAt, CanCompute
    <3> QED BY <3>2, <3>3, <3>4, ConvexHasArea
  <2> QED BY <2>1, <2>2 DEF MeshFollowsVertices, MeshAt, ValidAt
<1> QED BY <1>1, MotionInvHolds, PTL

\* revert() takes back the last step: what it would restore after a step is
\* the mesh, the vertices and the time before it, and it restores that.
RevertUndoesStep ==
  /\ \A next \in Positions : Advance(next) => Reverted' = <<mesh, current, time>>
  /\ Revert => <<mesh', current', time'>> = Reverted

\* A rejected time step leaves nothing of its motion behind, for a step that
\* moved vertices and for one that did not.
THEOREM RevertUndoes == Spec => [][RevertUndoesStep]_vars
<1>1. MotionInv /\ [Next]_vars => [RevertUndoesStep]_vars
  <2> SUFFICES ASSUME MotionInv PROVE RevertUndoesStep
    OBVIOUS
  <2>1. \A next \in Positions : Advance(next) => Reverted' = <<mesh, current, time>>
    BY MotionAdvance
  <2>2. Revert => <<mesh', current', time'>> = Reverted
    BY DEF Revert, Reverted
  <2> QED BY <2>1, <2>2 DEF RevertUndoesStep
<1> QED BY <1>1, MotionInvHolds, PTL DEF Spec

\* The geometric conservation law: the volumes a step reports are what the
\* faces' sides sweep between the vertices before it and after it (none when
\* nothing moved), and what the four sides of a cell sweep outward is exactly
\* what the cell grows by.
CellsGrowBySweptVolumes ==
  step # NoStep =>
    /\ step.swept4 = IF step.moved THEN SweptVolumes(topology, undo.vertices, current)
                                   ELSE [f \in DOMAIN mesh.faces |-> 0]
    /\ DOMAIN mesh.cells = DOMAIN topology.cells
    /\ \A c \in DOMAIN mesh.cells :
          LET swept(k) == SweptVolume4(CellSides(topology.cells[c])[k], undo.vertices, current)
          IN  2 * (mesh.cells[c].area2 - step.previous[c].area2)
                = swept(1) + swept(2) + swept(3) + swept(4)

\* Volumes and swept volumes are of one motion, without any rounding.
THEOREM GeometricConservation == Spec => []CellsGrowBySweptVolumes
<1>1. MotionInv => CellsGrowBySweptVolumes
  <2> SUFFICES ASSUME MotionInv, step # NoStep PROVE CellsGrowBySweptVolumes
    BY DEF CellsGrowBySweptVolumes
  <2>1. /\ state = "moving"
        /\ IsMesh(MeshOf(spec)) /\ topology = StructuredTopology(MeshOf(spec))
        /\ mesh = MeshAt(current) /\ ValidAt(current) /\ UndoInv /\ StepInv
    <3>1. state = "moving"
      BY DEF MotionInv
    <3> QED BY <3>1, MotionHome DEF MotionInv
  <2>2. /\ undo.can /\ step.previous = MeshAt(undo.vertices).cells
        /\ step.moved = (undo.vertices # current)
        /\ step.swept4 = IF step.moved THEN SweptVolumes(topology, undo.vertices, current)
                         ELSE [f \in DOMAIN mesh.faces |-> 0]
        /\ ValidAt(undo.vertices)
    BY <2>1 DEF StepInv, UndoInv
  <2> DEFINE from == undo.vertices
             to == current
             P(c) == CellAt(topology, from, c)
             Q(c) == CellAt(topology, to, c)
  <2>3. /\ mesh.cells = [c \in DOMAIN topology.cells |-> CellGeometry(Q(c))]
        /\ step.previous = [c \in DOMAIN topology.cells |-> CellGeometry(P(c))]
    BY <2>1, <2>2, MeshAtFacts DEF ComputeGeometry
  <2>4. ASSUME NEW c \in DOMAIN topology.cells
        PROVE  2 * (CellGeometry(Q(c)).area2 - CellGeometry(P(c)).area2)
                 = SweptVolume4(CellSides(topology.cells[c])[1], from, to)
                   + SweptVolume4(CellSides(topology.cells[c])[2], from, to)
                   + SweptVolume4(CellSides(topology.cells[c])[3], from, to)
                   + SweptVolume4(CellSides(topology.cells[c])[4], from, to)
    <3> DEFINE ids == topology.cells[c]
               p == P(c)
               q == Q(c)
    <3>1. p \in [1..4 -> Points] /\ q \in [1..4 -> Points]
      BY <2>1, <2>2, CellsArePoints
    <3>2. \A k \in 1..4 : p[k] = from[ids[k]] /\ q[k] = to[ids[k]]
      BY DEF CellAt
    <3> HIDE DEF p, q, ids, from, to
    <3>3. \A k \in 1..4 : from[ids[k]] \in Points /\ to[ids[k]] \in Points
      BY <3>1, <3>2
    <3>4. /\ SweptVolume4(CellSides(ids)[1], from, to) = EdgeSweep(p[4], p[1], q[4], q[1])
          /\ SweptVolume4(CellSides(ids)[2], from, to) = EdgeSweep(p[2], p[3], q[2], q[3])
          /\ SweptVolume4(CellSides(ids)[3], from, to) = EdgeSweep(p[1], p[2], q[1], q[2])
          /\ SweptVolume4(CellSides(ids)[4], from, to) = EdgeSweep(p[3], p[4], q[3], q[4])
      <4>1. \A k \in 1..4 : from[ids[k]] \in Points /\ to[ids[k]] \in Points
        BY <3>3
      <4> QED BY <3>2, <4>1, SideSweeps
    <3>5. 2 * (CellGeometry(q).area2 - CellGeometry(p).area2)
            = EdgeSweep(p[1], p[2], q[1], q[2]) + EdgeSweep(p[2], p[3], q[2], q[3])
              + EdgeSweep(p[3], p[4], q[3], q[4]) + EdgeSweep(p[4], p[1], q[4], q[1])
      BY <3>1, QuadSweeps
    <3>6. /\ EdgeSweep(p[1], p[2], q[1], q[2]) \in Int /\ EdgeSweep(p[2], p[3], q[2], q[3]) \in Int
          /\ EdgeSweep(p[3], p[4], q[3], q[4]) \in Int /\ EdgeSweep(p[4], p[1], q[4], q[1]) \in Int
      <4>1. /\ p[1] \in Points /\ p[2] \in Points /\ p[3] \in Points /\ p[4] \in Points
            /\ q[1] \in Points /\ q[2] \in Points /\ q[3] \in Points /\ q[4] \in Points
        BY <3>1
      <4> QED BY <4>1, EdgeSweepIs
    <3> QED BY <3>4, <3>5, <3>6 DEF p, q, ids
  <2> HIDE DEF P, Q
  <2> QED BY <2>2, <2>3, <2>4 DEF CellsGrowBySweptVolumes
<1> QED BY <1>1, MotionInvHolds, PTL

--------------------------------------------------------------------------------
(* Sums over the four faces of a cell.                                       *)

\* The recursion of SumOver.
Sums(g, S, f) ==
  g = [T \in SUBSET S |-> IF T = {} THEN 0 ELSE LET x == CHOOSE x \in T : TRUE IN f[x] + g[T \ {x}]]

\* The set S has these four elements, each with a number.
AreFour(S, f, a, b, c, d) ==
  /\ S = {a, b, c, d}
  /\ a # b /\ a # c /\ a # d /\ b # c /\ b # d /\ c # d
  /\ f[a] \in Int /\ f[b] \in Int /\ f[c] \in Int /\ f[d] \in Int

\* The sum over a set of four.
LEMMA SumOfFour ==
  ASSUME NEW S, NEW f, NEW a, NEW b, NEW c, NEW d, AreFour(S, f, a, b, c, d)
  PROVE  SumOver(S, f) = f[a] + f[b] + f[c] + f[d]
<1>0. /\ S = {a, b, c, d}
      /\ a # b /\ a # c /\ a # d /\ b # c /\ b # d /\ c # d
      /\ f[a] \in Int /\ f[b] \in Int /\ f[c] \in Int /\ f[d] \in Int
  BY DEF AreFour
<1> USE <1>0
<1> DEFINE i(T, x) == IF x \in T THEN f[x] ELSE 0
           g == [T \in SUBSET S |-> i(T, a) + i(T, b) + i(T, c) + i(T, d)]
           pick(T) == CHOOSE x \in T : TRUE
           one(T, x) == IF x \in T THEN 1 ELSE 0
           n(T) == one(T, a) + one(T, b) + one(T, c) + one(T, d)
           sum[T \in SUBSET S] == IF T = {} THEN 0
                                  ELSE LET x == CHOOSE x \in T : TRUE IN f[x] + sum[T \ {x}]
<1>1. \A T \in SUBSET S : T # {} => pick(T) \in T /\ pick(T) \in S
  OBVIOUS
<1> HIDE DEF pick
<1>2. \A T : /\ i(T, a) \in Int /\ i(T, b) \in Int /\ i(T, c) \in Int /\ i(T, d) \in Int
             /\ one(T, a) \in Nat /\ one(T, b) \in Nat /\ one(T, c) \in Nat /\ one(T, d) \in Nat
  OBVIOUS
<1>3. \A T, x, y : x # y => i(T \ {x}, y) = i(T, y) /\ one(T \ {x}, y) = one(T, y)
  OBVIOUS
<1>4. \A T, x : x \in T => /\ i(T, x) = f[x] /\ i(T \ {x}, x) = 0
                           /\ one(T, x) = 1 /\ one(T \ {x}, x) = 0
  OBVIOUS
<1> HIDE DEF i, one
<1>5. ASSUME NEW T \in SUBSET S, NEW x \in T
      PROVE  /\ i(T, a) + i(T, b) + i(T, c) + i(T, d)
                  = f[x] + (i(T \ {x}, a) + i(T \ {x}, b) + i(T \ {x}, c) + i(T \ {x}, d))
             /\ n(T) = n(T \ {x}) + 1
  <2>1. x \in {a, b, c, d}
    OBVIOUS
  <2>a. /\ i(T, x) = f[x] /\ i(T \ {x}, x) = 0 /\ one(T, x) = 1 /\ one(T \ {x}, x) = 0
    BY <1>4
  <2>b. \A y : x # y => i(T \ {x}, y) = i(T, y) /\ one(T \ {x}, y) = one(T, y)
    BY <1>3
  <2>2. CASE x = a
    <3>1. /\ i(T, a) = f[x] /\ i(T \ {x}, a) = 0 /\ one(T, a) = 1 /\ one(T \ {x}, a) = 0
      BY <2>a, <2>2
    <3>2. /\ i(T \ {x}, b) = i(T, b) /\ one(T \ {x}, b) = one(T, b)
          /\ i(T \ {x}, c) = i(T, c) /\ one(T \ {x}, c) = one(T, c)
          /\ i(T \ {x}, d) = i(T, d) /\ one(T \ {x}, d) = one(T, d)
      <4>1. x # b /\ x # c /\ x # d
        BY <2>2
      <4> QED BY <2>b, <4>1
    <3>3. f[x] \in Int
      BY <2>2
    <3> QED BY <1>2, <3>1, <3>2, <3>3
  <2>3. CASE x = b
    <3>1. /\ i(T, b) = f[x] /\ i(T \ {x}, b) = 0 /\ one(T, b) = 1 /\ one(T \ {x}, b) = 0
      BY <2>a, <2>3
    <3>2. /\ i(T \ {x}, a) = i(T, a) /\ one(T \ {x}, a) = one(T, a)
          /\ i(T \ {x}, c) = i(T, c) /\ one(T \ {x}, c) = one(T, c)
          /\ i(T \ {x}, d) = i(T, d) /\ one(T \ {x}, d) = one(T, d)
      <4>1. x # a /\ x # c /\ x # d
        BY <2>3
      <4> QED BY <2>b, <4>1
    <3>3. f[x] \in Int
      BY <2>3
    <3> QED BY <1>2, <3>1, <3>2, <3>3
  <2>4. CASE x = c
    <3>1. /\ i(T, c) = f[x] /\ i(T \ {x}, c) = 0 /\ one(T, c) = 1 /\ one(T \ {x}, c) = 0
      BY <2>a, <2>4
    <3>2. /\ i(T \ {x}, a) = i(T, a) /\ one(T \ {x}, a) = one(T, a)
          /\ i(T \ {x}, b) = i(T, b) /\ one(T \ {x}, b) = one(T, b)
          /\ i(T \ {x}, d) = i(T, d) /\ one(T \ {x}, d) = one(T, d)
      <4>1. x # a /\ x # b /\ x # d
        BY <2>4
      <4> QED BY <2>b, <4>1
    <3>3. f[x] \in Int
      BY <2>4
    <3> QED BY <1>2, <3>1, <3>2, <3>3
  <2>5. CASE x = d
    <3>1. /\ i(T, d) = f[x] /\ i(T \ {x}, d) = 0 /\ one(T, d) = 1 /\ one(T \ {x}, d) = 0
      BY <2>a, <2>5
    <3>2. /\ i(T \ {x}, a) = i(T, a) /\ one(T \ {x}, a) = one(T, a)
          /\ i(T \ {x}, b) = i(T, b) /\ one(T \ {x}, b) = one(T, b)
          /\ i(T \ {x}, c) = i(T, c) /\ one(T \ {x}, c) = one(T, c)
      <4>1. x # a /\ x # b /\ x # c
        BY <2>5
      <4> QED BY <2>b, <4>1
    <3>3. f[x] \in Int
      BY <2>5
    <3> QED BY <1>2, <3>1, <3>2, <3>3
  <2> QED BY <2>1, <2>2, <2>3, <2>4, <2>5
<1>6. \A T : n(T) \in Nat
  BY <1>2
<1> HIDE DEF n
<1>7. \A T \in SUBSET S : g[T] = i(T, a) + i(T, b) + i(T, c) + i(T, d)
  OBVIOUS
<1>8. ASSUME NEW T \in SUBSET S, T # {} PROVE g[T] = f[pick(T)] + g[T \ {pick(T)}]
  <2> DEFINE x == pick(T)
  <2>1. x \in T
    BY <1>1, <1>8
  <2> HIDE DEF x, g
  <2>2. T \ {x} \in SUBSET S
    OBVIOUS
  <2>3. g[T] = f[x] + g[T \ {x}]
    BY <1>5, <1>7, <2>1, <2>2
  <2> QED BY <2>3 DEF x
<1>9. i({}, a) = 0 /\ i({}, b) = 0 /\ i({}, c) = 0 /\ i({}, d) = 0
  BY DEF i
<1>10. g[{}] = 0
  BY <1>7, <1>9
<1>11. g = [T \in SUBSET S |-> g[T]]
  OBVIOUS
<1> HIDE DEF g
<1>12. g = [T \in SUBSET S |-> IF T = {} THEN 0 ELSE f[pick(T)] + g[T \ {pick(T)}]]
  BY <1>8, <1>10, <1>11
<1>13. Sums(g, S, f)
  BY <1>12 DEF Sums, pick
<1>14. Sums(sum, S, f)
  <2>1. \E h : Sums(h, S, f)
    BY <1>13
  <2>2. Sums(CHOOSE h : Sums(h, S, f), S, f)
    BY <2>1
  <2> QED BY <2>2 DEF Sums
<1> HIDE DEF sum
<1>15. \A T \in SUBSET S : sum[T] = IF T = {} THEN 0 ELSE f[pick(T)] + sum[T \ {pick(T)}]
  BY <1>14 DEF Sums, pick
<1> DEFINE bad == {m \in Nat : \E T \in SUBSET S : n(T) = m /\ sum[T] # g[T]}
<1>16. bad = {}
  <2> SUFFICES ASSUME bad # {} PROVE FALSE
    OBVIOUS
  <2>1. bad \in SUBSET Nat
    OBVIOUS
  <2>2. PICK m \in bad : \A k \in bad : m <= k
    <3> HIDE DEF bad
    <3> QED BY <2>1, LeastNatural
  <2>3. PICK T \in SUBSET S : n(T) = m /\ sum[T] # g[T]
    BY <2>2
  <2>4. T # {}
    BY <1>10, <1>15, <2>3
  <2>5. T \ {pick(T)} \in SUBSET S /\ n(T) = n(T \ {pick(T)}) + 1
    BY <1>1, <1>5, <2>4
  <2>6. n(T \ {pick(T)}) < m /\ n(T \ {pick(T)}) \in Nat
    BY <1>6, <2>3, <2>5
  <2>7. sum[T \ {pick(T)}] = g[T \ {pick(T)}]
    BY <2>2, <2>5, <2>6
  <2> QED BY <1>8, <1>15, <2>3, <2>4, <2>7
<1>17. sum[S] = g[S]
  <2>1. S \in SUBSET S /\ n(S) \in Nat
    BY <1>6
  <2> QED BY <1>16, <2>1
<1>18. SumOver(S, f) = sum[S]
  BY DEF SumOver, sum
<1>19. i(S, a) = f[a] /\ i(S, b) = f[b] /\ i(S, c) = f[c] /\ i(S, d) = f[d]
  BY <1>4
<1> QED BY <1>7, <1>17, <1>18, <1>19

--------------------------------------------------------------------------------
(* What the faces of a cell sweep.                                           *)

\* The ends of a face's side are vertices.
LEMMA SideEndsAreVertices ==
  ASSUME NEW s, Joined(s), NEW t, IsTopology(s, t), NEW f \in DOMAIN Faces(s)
  PROVE  t.faces[f].a \in DOMAIN t.vertices /\ t.faces[f].b \in DOMAIN t.vertices
<1>1. Filled(s) /\ Shaped(s) /\ NumbersVertices(s, t)
  BY JoinedIsFilled DEF Joined, IsTopology
<1> DEFINE e == FaceEdges(s)[f]
           side == t.faces[f]
<1>2. side = EdgeSide(s, t, e)
  BY DEF IsTopology
<1>3. IsEdge(s, e)
  BY <1>1, FacesFacts DEF HasFace
<1> HIDE DEF e, side
<1> DEFINE b == e.block
           i == e.i
           j == e.j
           I == IdBlock(s, t, b)
<1>4. b \in DOMAIN s.blocks /\ s.blocks[b].nx \in Nat /\ s.blocks[b].ny \in Nat
  <2>1. b \in DOMAIN s.blocks
    BY <1>3 DEF IsEdge
  <2> QED BY <1>1, <2>1, ShapedFacts
<1>5. side.a \in DOMAIN t.vertices /\ side.b \in DOMAIN t.vertices
  <2>1. CASE e.kind = "vertical"
    <3>1. IsPlace(s, b, i, j) /\ IsPlace(s, b, i, j + 1)
      BY <1>3, <1>4, <2>1 DEF IsEdge, IsPlace
    <3>2. Vertex(I, i, j) \in DOMAIN t.vertices /\ Vertex(I, i, j + 1) \in DOMAIN t.vertices
      BY <1>1, <3>1, NumbersAre
    <3>3. side.a = Vertex(I, i, j) /\ side.b = Vertex(I, i, j + 1)
      BY <1>2, <2>1 DEF EdgeSide
    <3> QED BY <3>2, <3>3
  <2>2. CASE e.kind # "vertical"
    <3>1. IsPlace(s, b, i, j) /\ IsPlace(s, b, i + 1, j)
      BY <1>3, <1>4, <2>2 DEF IsEdge, IsPlace
    <3>2. Vertex(I, i, j) \in DOMAIN t.vertices /\ Vertex(I, i + 1, j) \in DOMAIN t.vertices
      BY <1>1, <3>1, NumbersAre
    <3>3. side.a = Vertex(I, i, j) /\ side.b = Vertex(I, i + 1, j)
      BY <1>2, <2>2 DEF EdgeSide
    <3> QED BY <3>2, <3>3
  <2> QED BY <2>1, <2>2
<1> QED BY <1>5 DEF side

\* Twice the vertices half way.
Midway(from, to) == [n \in DOMAIN from |-> Plus(from[n], to[n])]

\* The displacements of the vertices.
Shift(from, to) == [n \in DOMAIN from |-> Minus(to[n], from[n])]

\* Vertices at points have their middles and displacements at points.
LEMMA MidwayFacts ==
  ASSUME NEW D, NEW from \in [D -> Points], NEW to \in [D -> Points]
  PROVE  /\ Midway(from, to) \in [D -> Points]
         /\ Shift(from, to) \in [D -> Points]
         /\ \A n \in D : /\ Midway(from, to)[n] = Plus(from[n], to[n])
                         /\ Shift(from, to)[n] = Minus(to[n], from[n])
<1>1. DOMAIN from = D
  OBVIOUS
<1>2. \A p, q \in Points : Plus(p, q) \in Points /\ Minus(p, q) \in Points
  BY DEF Plus, Minus, Points
<1>3. \A n \in D : from[n] \in Points /\ to[n] \in Points
  OBVIOUS
<1> QED BY <1>1, <1>2, <1>3 DEF Midway, Shift

\* A face sweeps the area of the mean edge times the mean displacement.
LEMMA SweptIs ==
  ASSUME NEW s, Joined(s), NEW t, IsTopology(s, t),
         NEW from \in [DOMAIN t.vertices -> Points], NEW to \in [DOMAIN t.vertices -> Points],
         NEW f \in DOMAIN Faces(s)
  PROVE  SweptVolume4(t.faces[f], from, to)
           = Dot(EdgeGeometry(Moved(s, t, Midway(from, to)), FaceEdges(s)[f]).area,
                 EdgeGeometry(Moved(s, t, Shift(from, to)), FaceEdges(s)[f]).mid2)
<1> DEFINE side == t.faces[f]
           mean == Midway(from, to)
           shift == Shift(from, to)
           x == EdgeGeometry(Moved(s, t, mean), FaceEdges(s)[f])
           y == EdgeGeometry(Moved(s, t, shift), FaceEdges(s)[f])
<1>1. /\ mean \in [DOMAIN t.vertices -> Points] /\ shift \in [DOMAIN t.vertices -> Points]
      /\ mean[side.a] = Plus(from[side.a], to[side.a]) /\ mean[side.b] = Plus(from[side.b], to[side.b])
      /\ shift[side.a] = Minus(to[side.a], from[side.a]) /\ shift[side.b] = Minus(to[side.b], from[side.b])
  BY SideEndsAreVertices, MidwayFacts
<1>2. EdgeFace(side, mean[side.a], mean[side.b]) = x
  BY <1>1, MovedIsRebuilt, RebuiltFaces
<1>3. EdgeFace(side, shift[side.a], shift[side.b]) = y
  BY <1>1, MovedIsRebuilt, RebuiltFaces
<1> HIDE DEF side, mean, shift
<1>4. y.mid2 = Plus(shift[side.a], shift[side.b])
  BY <1>3 DEF EdgeFace, VerticalEdgeFace, HorizontalEdgeFace
<1> HIDE DEF x, y
<1>5. SweptVolume4(side, from, to)
        = Dot(EdgeFace(side, mean[side.a], mean[side.b]).area, Plus(shift[side.a], shift[side.b]))
  BY <1>1 DEF SweptVolume4
<1>6. SweptVolume4(side, from, to) = Dot(x.area, y.mid2)
  BY <1>2, <1>4, <1>5
<1> QED BY <1>6 DEF side, x, y, mean, shift

\* Which edges share a face does not depend on where the vertices are.
LEMMA SameServes ==
  ASSUME NEW s, NEW r, SameShape(s, r), Joined(s), NEW d, HasFace(s, d), NEW e, Serves(s, d, e)
  PROVE  HasFace(r, d) /\ Serves(r, d, e)
<1>1. /\ \A b \in DOMAIN s.blocks :
            r.blocks[b].nx = s.blocks[b].nx /\ r.blocks[b].ny = s.blocks[b].ny
      /\ r.interfaces = s.interfaces
  BY DEF SameShape
<1>2. IsEdge(s, d) /\ ~IsSecond(s, SideOf(s, d))
  BY DEF HasFace
<1>3. IsEdge(r, d) /\ SideOf(r, d) = SideOf(s, d) /\ ~IsSecond(r, SideOf(r, d))
  BY <1>2, SameEdges
<1>4. CASE d = e
  BY <1>3, <1>4 DEF HasFace, Serves
<1>5. CASE d # e
  <2>1. PICK n \in DOMAIN s.interfaces : SideOf(s, d) = s.interfaces[n].first /\ Across(s, n, d) = e
    BY <1>5 DEF Serves
  <2> DEFINE x == s.interfaces[n]
  <2>2. x.first[1] \in DOMAIN s.blocks /\ x.second[1] \in DOMAIN s.blocks
    BY RefFacts
  <2> HIDE DEF x
  <2>3. \A b \in DOMAIN s.blocks : \A side, k :
           /\ SideFaceCount(r.blocks[b], side) = SideFaceCount(s.blocks[b], side)
           /\ SideEdge(r, b, side, k) = SideEdge(s, b, side, k)
    BY <1>1 DEF SideFaceCount, SideEdge
  <2>4. \A k : PartnerFace(r, x, k) = PartnerFace(s, x, k)
    BY <2>2, <2>3 DEF PartnerFace
  <2>5. Across(r, n, d) = Across(s, n, d)
    BY <1>1, <2>2, <2>3, <2>4 DEF Across, x
  <2>6. Serves(r, d, e)
    BY <1>1, <1>3, <2>1, <2>5 DEF Serves
  <2> QED BY <1>3, <2>6 DEF HasFace
<1> QED BY <1>4, <1>5

\* The volume a face sweeps out of a cell is what the cell's edge there does.
LEMMA FaceSweepsEdge ==
  ASSUME NEW s, IsBuilt(s), InterfacesFace(s), NEW t, IsTopology(s, t),
         NEW from \in [DOMAIN t.vertices -> Points], NEW to \in [DOMAIN t.vertices -> Points],
         NEW f \in DOMAIN Faces(s), NEW c \in DOMAIN CellCorners(s), NEW k \in 1..4,
         IsEdgeOfCell(s, Faces(s), f, c, k)
  PROVE  OutwardSign(Faces(s)[f], c) * SweptVolume4(t.faces[f], from, to)
           = EdgeSweep(CellAt(t, from, c)[k], CellAt(t, from, c)[NextCorner(k)],
                       CellAt(t, to, c)[k], CellAt(t, to, c)[NextCorner(k)])
<1>1. /\ Joined(s) /\ CellsAreConvex(s) /\ Filled(s) /\ Shaped(s) /\ NumbersVertices(s, t)
      /\ Faces(s)[f].owner # Faces(s)[f].neighbor
  BY JoinedIsFilled DEF IsBuilt, FacesJoinTwoCells, MeshOf, Joined, IsTopology
<1> DEFINE e == FaceEdges(s)[f]
           D == DOMAIN t.vertices
           mean == Midway(from, to)
           shift == Shift(from, to)
           rm == Moved(s, t, mean)
           rd == Moved(s, t, shift)
           n == NextCorner(k)
           p == CellAt(t, from, c)
           q == CellAt(t, to, c)
           ids == t.cells[c]
<1>2. PICK b, i, j : IsCell(s, b, i, j) /\ c = GlobalCell(s, b, i, j)
  BY <1>1, CellCornersFacts
<1>3. /\ HasFace(s, e) /\ Faces(s)[f].owner = OwnerOf(s, e) /\ Faces(s)[f].neighbor = NeighborOf(s, e)
  BY <1>1, FacesFacts
<1>4. Serves(s, e, CellEdge(b, i, j, k))
  <2>1. TouchesAt(s, e, b, i, j, k)
    BY <1>1, <1>2, IsEdgeOfCellIs
  <2> HIDE DEF e
  <2> QED BY <1>1, <1>2, <1>3, <2>1, TouchesServes
<1>5. /\ mean \in [D -> Points] /\ shift \in [D -> Points]
      /\ \A m \in D : mean[m] = Plus(from[m], to[m]) /\ shift[m] = Minus(to[m], from[m])
  BY MidwayFacts
<1>6. /\ Rebuilt(s, rm, t, mean) /\ Rebuilt(s, rd, t, shift)
  BY MovedIsRebuilt
<1>7. SweptVolume4(t.faces[f], from, to) = Dot(EdgeGeometry(rm, e).area, EdgeGeometry(rd, e).mid2)
  BY <1>1, SweptIs
<1> HIDE DEF rm, rd, mean, shift, e
<1>8. ASSUME NEW v \in [D -> Points], NEW r, Rebuilt(s, r, t, v)
      PROVE  /\ EdgeGeometry(r, e).mid2 = Plus(v[ids[k]], v[ids[n]])
             /\ \/ Faces(s)[f].owner = c /\ EdgeGeometry(r, e).area = Outward(v[ids[k]], v[ids[n]])
                \/ Faces(s)[f].neighbor = c /\ EdgeGeometry(r, e).area = Outward(v[ids[n]], v[ids[k]])
  <2>1. SameShape(s, r) /\ Joined(r)
    BY <1>1, <1>8, RebuiltIsFilled, RebuiltIsJoined
  <2>2. HasFace(r, e) /\ Serves(r, e, CellEdge(b, i, j, k))
    BY <1>1, <1>3, <1>4, <2>1, SameServes
  <2>3. /\ IsCell(r, b, i, j) /\ GlobalCell(r, b, i, j) = c
        /\ OwnerOf(r, e) = OwnerOf(s, e) /\ NeighborOf(r, e) = NeighborOf(s, e)
    <3>1. b \in DOMAIN s.blocks /\ IsEdge(s, e)
      BY <1>2, <1>3 DEF IsCell, HasFace
    <3> QED BY <1>1, <1>2, <2>1, <3>1, SameCells, SameNeighbors
  <2>4. TouchesAt(r, e, b, i, j, k)
    BY <2>1, <2>2, <2>3, ServesTouches
  <2>5. InterfacesFace(r)
    BY <2>1 DEF InterfacesFace, SameShape
  <2>6. Corners(r.blocks[b], i, j) = CellAt(t, v, c)
    <3>1. Shaped(r) /\ c \in DOMAIN t.cells
      BY <2>1 DEF SameShape, IsTopology
    <3>2. CellCorners(r)[c] = Corners(r.blocks[b], i, j)
      BY <2>3, <3>1, CellCornersFacts
    <3> QED BY <1>1, <1>8, <3>1, <3>2, RebuiltCells
  <2>7. n \in 1..4
    BY DEF NextCorner
  <2>8. Corners(r.blocks[b], i, j)[k] = v[ids[k]] /\ Corners(r.blocks[b], i, j)[n] = v[ids[n]]
    BY <2>6, <2>7 DEF CellAt
  <2> QED BY <1>3, <2>3, <2>4, <2>5, <2>8 DEF TouchesAt
<1>9. /\ EdgeGeometry(rd, e).mid2 = Plus(shift[ids[k]], shift[ids[n]])
      /\ \/ Faces(s)[f].owner = c /\ EdgeGeometry(rm, e).area = Outward(mean[ids[k]], mean[ids[n]])
         \/ Faces(s)[f].neighbor = c /\ EdgeGeometry(rm, e).area = Outward(mean[ids[n]], mean[ids[k]])
  BY <1>5, <1>6, <1>8
<1>10. n \in 1..4 /\ ids[k] \in D /\ ids[n] \in D
  <2>1. n \in 1..4
    BY DEF NextCorner
  <2>2. ids = Corners(IdBlock(s, t, b), i, j)
    BY <1>2 DEF IsTopology
  <2>3. /\ IsPlace(s, b, i, j) /\ IsPlace(s, b, i + 1, j)
        /\ IsPlace(s, b, i + 1, j + 1) /\ IsPlace(s, b, i, j + 1)
    BY <1>1, <1>2, ShapedFacts, SMTT(30) DEF IsCell, IsPlace
  <2>4. ids[1] \in D /\ ids[2] \in D /\ ids[3] \in D /\ ids[4] \in D
    BY <1>1, <2>2, <2>3, NumbersAre DEF Corners
  <2> HIDE DEF ids, n
  <2> QED BY <2>1, <2>4
<1>11. /\ p[k] = from[ids[k]] /\ p[n] = from[ids[n]] /\ q[k] = to[ids[k]] /\ q[n] = to[ids[n]]
  BY <1>10 DEF CellAt
<1> DEFINE a == from[ids[k]]
           a2 == from[ids[n]]
           z == to[ids[k]]
           z2 == to[ids[n]]
<1>12. a \in Points /\ a2 \in Points /\ z \in Points /\ z2 \in Points
  BY <1>10
<1>13. /\ EdgeGeometry(rd, e).mid2 = Plus(Minus(z, a), Minus(z2, a2))
       /\ \/ Faces(s)[f].owner = c /\ EdgeGeometry(rm, e).area = Outward(Plus(a, z), Plus(a2, z2))
          \/ Faces(s)[f].neighbor = c /\ EdgeGeometry(rm, e).area = Outward(Plus(a2, z2), Plus(a, z))
  BY <1>5, <1>9, <1>10
<1> HIDE DEF a, a2, z, z2, D, ids, n
<1> DEFINE A == Plus(a, z)
           B == Plus(a2, z2)
           W == Plus(Minus(z, a), Minus(z2, a2))
<1>14. /\ A[1] \in Int /\ A[2] \in Int /\ B[1] \in Int /\ B[2] \in Int /\ W[1] \in Int /\ W[2] \in Int
  BY <1>12 DEF Plus, Minus, Points
<1>15. EdgeSweep(a, a2, z, z2) = Dot(Outward(A, B), W)
  BY DEF EdgeSweep
<1> HIDE DEF A, B, W
<1>16. (-1) * Dot(Outward(B, A), W) = Dot(Outward(A, B), W) /\ 1 * Dot(Outward(A, B), W) = Dot(Outward(A, B), W)
  <2>1. Dot(Outward(B, A), W) = (A[2] - B[2]) * W[1] + (B[1] - A[1]) * W[2]
    BY DEF Dot, Outward
  <2>2. Dot(Outward(A, B), W) = (B[2] - A[2]) * W[1] + (A[1] - B[1]) * W[2]
    BY DEF Dot, Outward
  <2> QED BY <1>14, <2>1, <2>2
<1>17. OutwardSign(Faces(s)[f], c) * Dot(EdgeGeometry(rm, e).area, W) = EdgeSweep(a, a2, z, z2)
  <2>1. CASE Faces(s)[f].owner = c
    <3>1. OutwardSign(Faces(s)[f], c) = 1 /\ Faces(s)[f].neighbor # c
      BY <1>1, <2>1 DEF OutwardSign
    <3>2. EdgeGeometry(rm, e).area = Outward(A, B)
      BY <1>13, <3>1 DEF A, B
    <3> QED BY <1>15, <1>16, <3>1, <3>2
  <2>2. CASE Faces(s)[f].owner # c
    <3>1. OutwardSign(Faces(s)[f], c) = -1
      BY <2>2 DEF OutwardSign
    <3>2. EdgeGeometry(rm, e).area = Outward(B, A)
      BY <1>13, <2>2 DEF A, B
    <3> QED BY <1>15, <1>16, <3>1, <3>2
  <2> QED BY <2>1, <2>2
<1>18. OutwardSign(Faces(s)[f], c) * SweptVolume4(t.faces[f], from, to) = EdgeSweep(p[k], p[n], q[k], q[n])
  BY <1>7, <1>11, <1>13, <1>17 DEF W, a, a2, z, z2
<1> QED BY <1>18 DEF n

--------------------------------------------------------------------------------
(* The faces of a cell.                                                      *)

\* Its four edges are four faces, and it has no others.
LEMMA FacesOfCell ==
  ASSUME NEW s, IsBuilt(s), NEW c \in DOMAIN CellCorners(s)
  PROVE  \E f \in [1..4 -> DOMAIN Faces(s)] :
            /\ \A k \in 1..4 : IsEdgeOfCell(s, Faces(s), f[k], c, k)
            /\ \A k, m \in 1..4 : k # m => f[k] # f[m]
            /\ {g \in DOMAIN Faces(s) : c \in {Faces(s)[g].owner, Faces(s)[g].neighbor}}
                 = {f[1], f[2], f[3], f[4]}
<1>1. Joined(s) /\ CellsAreConvex(s) /\ Filled(s) /\ Shaped(s)
  BY JoinedIsFilled DEF IsBuilt, Joined
<1> DEFINE F == Faces(s)
           q == CellCorners(s)[c]
           is(g, k) == IsEdgeOfCell(s, F, g, c, k)
           f == [k \in 1..4 |-> CHOOSE g \in DOMAIN F : is(g, k)]
<1>2. q \in [1..4 -> Points] /\ StrictlyConvex(q) /\ c # NoCell
  <2>1. PICK b, i, j : IsCell(s, b, i, j) /\ c = GlobalCell(s, b, i, j)
    BY <1>1, CellCornersFacts
  <2>2. q = Corners(s.blocks[b], i, j)
    BY <1>1, <2>1, CellCornersFacts
  <2>3. StrictlyConvex(Corners(s.blocks[b], i, j))
    BY <1>1, <2>1 DEF CellsAreConvex, IsCell
  <2>4. c # NoCell
    BY <1>1, CellCornersFacts DEF NoCell
  <2> HIDE DEF q
  <2> QED BY <1>1, <2>1, <2>2, <2>3, <2>4, CornersArePoints
<1>3. \A g, k : is(g, k) => /\ F[g].mid2 = Plus(q[k], q[NextCorner(k)])
                            /\ c \in {F[g].owner, F[g].neighbor}
  BY DEF IsEdgeOfCell
<1>4. \A k \in 1..4 : \E g \in DOMAIN F : {h \in DOMAIN F : is(h, k)} = {g}
  BY <1>1, EveryEdgeIsAFace
<1>5. \A g \in DOMAIN F : c \in {F[g].owner, F[g].neighbor} => \E k \in 1..4 : is(g, k)
  BY <1>1, <1>2, EveryFaceIsAnEdge
<1> HIDE DEF F, q, is
<1>6. \A k \in 1..4 : f[k] \in DOMAIN F /\ is(f[k], k) /\ \A g \in DOMAIN F : is(g, k) => g = f[k]
  <2> TAKE k \in 1..4
  <2>1. PICK g \in DOMAIN F : {h \in DOMAIN F : is(h, k)} = {g}
    BY <1>4
  <2>2. is(g, k) /\ \A h \in DOMAIN F : is(h, k) => h = g
    BY <2>1
  <2>3. f[k] = g
    BY <2>2
  <2> QED BY <2>2, <2>3
<1>7. f \in [1..4 -> DOMAIN F]
  BY <1>6
<1> HIDE DEF f
<1>8. \A k, m \in 1..4 : k # m => f[k] # f[m]
  BY <1>2, <1>3, <1>6, MidpointsApart
<1>9. {g \in DOMAIN F : c \in {F[g].owner, F[g].neighbor}} = {f[1], f[2], f[3], f[4]}
  <2>1. ASSUME NEW g \in DOMAIN F, c \in {F[g].owner, F[g].neighbor}
        PROVE  g \in {f[1], f[2], f[3], f[4]}
    <3>1. PICK k \in 1..4 : is(g, k)
      BY <1>5, <2>1
    <3>2. g = f[k]
      BY <1>6, <3>1
    <3> QED BY <3>2
  <2>2. \A k \in 1..4 : f[k] \in DOMAIN F /\ c \in {F[f[k]].owner, F[f[k]].neighbor}
    BY <1>3, <1>6
  <2> QED BY <2>1, <2>2
<1> QED BY <1>6, <1>7, <1>8, <1>9 DEF F, is

\* The sum over the faces of a cell is the sum over its edges.
LEMMA SumOverFaces ==
  ASSUME NEW s, IsBuilt(s), InterfacesFace(s), NEW t, IsTopology(s, t),
         NEW from \in [DOMAIN t.vertices -> Points], NEW to \in [DOMAIN t.vertices -> Points],
         NEW c \in DOMAIN CellCorners(s), NEW swept,
         \A f \in DOMAIN Faces(s) :
            swept[f] = OutwardSign(Faces(s)[f], c) * SweptVolume4(t.faces[f], from, to),
         CellAt(t, from, c) \in [1..4 -> Points], CellAt(t, to, c) \in [1..4 -> Points]
  PROVE  SumOver({f \in DOMAIN Faces(s) : c \in {Faces(s)[f].owner, Faces(s)[f].neighbor}}, swept)
           = 2 * (CellGeometry(CellAt(t, to, c)).area2 - CellGeometry(CellAt(t, from, c)).area2)
<1> DEFINE F == Faces(s)
           p == CellAt(t, from, c)
           q == CellAt(t, to, c)
           S == {g \in DOMAIN F : c \in {F[g].owner, F[g].neighbor}}
<1>1. PICK f \in [1..4 -> DOMAIN F] :
         /\ \A k \in 1..4 : IsEdgeOfCell(s, F, f[k], c, k)
         /\ \A k, m \in 1..4 : k # m => f[k] # f[m]
         /\ S = {f[1], f[2], f[3], f[4]}
  BY FacesOfCell
<1>2. \A k \in 1..4 : swept[f[k]] = EdgeSweep(p[k], p[NextCorner(k)], q[k], q[NextCorner(k)])
  <2> TAKE k \in 1..4
  <2>1. f[k] \in DOMAIN F
    OBVIOUS
  <2>2. IsEdgeOfCell(s, F, f[k], c, k)
    BY <1>1
  <2>3. swept[f[k]] = OutwardSign(F[f[k]], c) * SweptVolume4(t.faces[f[k]], from, to)
    BY <2>1
  <2>4. OutwardSign(F[f[k]], c) * SweptVolume4(t.faces[f[k]], from, to)
          = EdgeSweep(p[k], p[NextCorner(k)], q[k], q[NextCorner(k)])
    BY <2>1, <2>2, FaceSweepsEdge
  <2> QED BY <2>3, <2>4
<1>3. NextCorner(1) = 2 /\ NextCorner(2) = 3 /\ NextCorner(3) = 4 /\ NextCorner(4) = 1
  BY DEF NextCorner
<1>4. p \in [1..4 -> Points] /\ q \in [1..4 -> Points]
  OBVIOUS
<1> HIDE DEF S, p, q, F
<1>5. /\ swept[f[1]] = EdgeSweep(p[1], p[2], q[1], q[2])
      /\ swept[f[2]] = EdgeSweep(p[2], p[3], q[2], q[3])
      /\ swept[f[3]] = EdgeSweep(p[3], p[4], q[3], q[4])
      /\ swept[f[4]] = EdgeSweep(p[4], p[1], q[4], q[1])
  BY <1>2, <1>3
<1>6. 2 * (CellGeometry(q).area2 - CellGeometry(p).area2)
        = EdgeSweep(p[1], p[2], q[1], q[2]) + EdgeSweep(p[2], p[3], q[2], q[3])
          + EdgeSweep(p[3], p[4], q[3], q[4]) + EdgeSweep(p[4], p[1], q[4], q[1])
  BY <1>4, QuadSweeps
<1>7. /\ EdgeSweep(p[1], p[2], q[1], q[2]) \in Int /\ EdgeSweep(p[2], p[3], q[2], q[3]) \in Int
      /\ EdgeSweep(p[3], p[4], q[3], q[4]) \in Int /\ EdgeSweep(p[4], p[1], q[4], q[1]) \in Int
  <2>1. /\ p[1] \in Points /\ p[2] \in Points /\ p[3] \in Points /\ p[4] \in Points
        /\ q[1] \in Points /\ q[2] \in Points /\ q[3] \in Points /\ q[4] \in Points
    BY <1>4
  <2> QED BY <2>1, EdgeSweepIs
<1>8. SumOver(S, swept) = swept[f[1]] + swept[f[2]] + swept[f[3]] + swept[f[4]]
  <2>1. /\ f[1] # f[2] /\ f[1] # f[3] /\ f[1] # f[4] /\ f[2] # f[3] /\ f[2] # f[4] /\ f[3] # f[4]
    BY <1>1
  <2>2. /\ swept[f[1]] \in Int /\ swept[f[2]] \in Int /\ swept[f[3]] \in Int /\ swept[f[4]] \in Int
    BY <1>5, <1>7
  <2> DEFINE a == f[1]
             b == f[2]
             d == f[3]
             e == f[4]
  <2>3. S = {a, b, d, e}
    BY <1>1 DEF S, F
  <2> HIDE DEF a, b, d, e
  <2>4. /\ a # b /\ a # d /\ a # e /\ b # d /\ b # e /\ d # e
        /\ swept[a] \in Int /\ swept[b] \in Int /\ swept[d] \in Int /\ swept[e] \in Int
    BY <2>1, <2>2 DEF a, b, d, e
  <2>5. SumOver(S, swept) = swept[a] + swept[b] + swept[d] + swept[e]
    <3>1. AreFour(S, swept, a, b, d, e)
      BY <2>3, <2>4 DEF AreFour
    <3> QED BY <3>1, SumOfFour
  <2> QED BY <2>5 DEF a, b, d, e
<1>9. SumOver(S, swept) = 2 * (CellGeometry(q).area2 - CellGeometry(p).area2)
  BY <1>5, <1>6, <1>7, <1>8
<1> QED BY <1>9 DEF S, p, q, F

--------------------------------------------------------------------------------
(* The motion is consistent.                                                 *)

\* The faces of a moving mesh belong to the cells they belonged to.
LEMMA MovingFaces ==
  ASSUME MotionInv, state = "moving"
  PROVE  /\ DOMAIN mesh.faces = DOMAIN Faces(spec)
         /\ \A f \in DOMAIN Faces(spec) :
               /\ mesh.faces[f].owner = Faces(spec)[f].owner
               /\ mesh.faces[f].neighbor = Faces(spec)[f].neighbor
<1> DEFINE m == MeshOf(spec)
           g == ComputeGeometry(topology, current)
           faces == [f \in DOMAIN m.faces |->
                       [owner |-> m.faces[f].owner, neighbor |-> m.faces[f].neighbor,
                        mid2 |-> g.faces[f].mid2, area |-> g.faces[f].area]]
<1>1. IsMesh(m) /\ mesh = SetGeometry(m, g)
  BY MotionHome DEF MotionInv, MeshAt
<1>2. m.faces = Faces(spec)
  BY DEF MeshOf
<1> HIDE DEF m, g
<1>3. mesh = [cells |-> g.cells, faces |-> faces, patches |-> m.patches,
              grids |-> [b \in DOMAIN m.grids |->
                           [nx |-> m.grids[b].nx, ny |-> m.grids[b].ny, vertices |-> g.grids[b]]]]
  BY <1>1, SetGeometryIs
<1>4. mesh.faces = faces
  <2> HIDE DEF faces
  <2> QED BY <1>3
<1> QED BY <1>2, <1>4

\* Cells grow by what their faces sweep.
LEMMA MotionConserves ==
  ASSUME MotionInv
  PROVE  SweptVolumesConserve
<1> SUFFICES ASSUME step # NoStep, InterfacesFace(spec), NEW c \in DOMAIN mesh.cells
             PROVE  2 * (mesh.cells[c].area2 - step.previous[c].area2)
                      = SumOver(FacesOf(mesh, c),
                          [f \in DOMAIN mesh.faces |-> OutwardSign(mesh.faces[f], c) * step.swept4[f]])
  BY DEF SweptVolumesConserve
<1> DEFINE t == topology
           from == undo.vertices
           to == current
           F == Faces(spec)
           swept == [f \in DOMAIN mesh.faces |-> OutwardSign(mesh.faces[f], c) * step.swept4[f]]
<1>1. state = "moving"
  BY DEF MotionInv
<1>2. /\ IsBuilt(spec) /\ IsTopology(spec, t) /\ IsMesh(MeshOf(spec)) /\ reference = t.vertices
      /\ t = StructuredTopology(MeshOf(spec)) /\ mesh = MeshAt(to)
      /\ ValidAt(to) /\ UndoInv /\ StepInv
  BY <1>1, MotionHome DEF MotionInv
<1>3. /\ step.previous = MeshAt(from).cells /\ step.moved = (from # to)
      /\ step.swept4 = IF step.moved THEN SweptVolumes(t, from, to) ELSE [f \in DOMAIN mesh.faces |-> 0]
      /\ ValidAt(from)
  BY <1>2 DEF StepInv, UndoInv
<1>4. from \in [DOMAIN t.vertices -> Points] /\ to \in [DOMAIN t.vertices -> Points]
  BY <1>2, <1>3 DEF ValidAt
<1>5. /\ mesh.cells = [d \in DOMAIN t.cells |-> CellGeometry(CellAt(t, to, d))]
      /\ step.previous = [d \in DOMAIN t.cells |-> CellGeometry(CellAt(t, from, d))]
  BY <1>2, <1>3, MeshAtFacts DEF ComputeGeometry
<1>6. c \in DOMAIN t.cells /\ c \in DOMAIN CellCorners(spec) /\ DOMAIN t.faces = DOMAIN F
  BY <1>2, <1>5 DEF IsTopology
<1>7. CellAt(t, from, c) \in [1..4 -> Points] /\ CellAt(t, to, c) \in [1..4 -> Points]
  BY <1>1, <1>2, <1>3, <1>6, CellsArePoints
<1>8. /\ DOMAIN mesh.faces = DOMAIN F
      /\ \A f \in DOMAIN F : mesh.faces[f].owner = F[f].owner /\ mesh.faces[f].neighbor = F[f].neighbor
  BY <1>1, MovingFaces
<1>9. FacesOf(mesh, c) = {f \in DOMAIN F : c \in {F[f].owner, F[f].neighbor}}
  BY <1>8 DEF FacesOf
<1>10. \A f \in DOMAIN F : step.swept4[f] = SweptVolume4(t.faces[f], from, to)
  <2>1. CASE step.moved
    BY <1>3, <1>6, <2>1 DEF SweptVolumes
  <2>2. CASE ~step.moved
    <3>1. from = to
      BY <1>3, <2>2
    <3> TAKE f \in DOMAIN F
    <3>2. step.swept4[f] = 0
      BY <1>3, <1>8, <2>2
    <3>3. SweptVolume4(t.faces[f], from, to) = 0
      <4> DEFINE side == t.faces[f]
                 a == to[side.a]
                 b == to[side.b]
                 area == EdgeFace(side, Plus(a, a), Plus(b, b)).area
      <4>1. a \in Points /\ b \in Points
        <5>1. side.a \in DOMAIN t.vertices /\ side.b \in DOMAIN t.vertices
          BY <1>2, SideEndsAreVertices DEF IsBuilt
        <5> HIDE DEF side
        <5> QED BY <1>4, <5>1
      <4>2. SweptVolume4(side, to, to) = Dot(area, Plus(Minus(a, a), Minus(b, b)))
        BY DEF SweptVolume4
      <4>3. area[1] \in Int /\ area[2] \in Int
        BY <4>1 DEF Points, Plus, EdgeFace, VerticalEdgeFace, HorizontalEdgeFace, Times
      <4> HIDE DEF area
      <4>4. Plus(Minus(a, a), Minus(b, b)) = <<0, 0>>
        BY <4>1 DEF Points, Plus, Minus
      <4>5. Dot(area, <<0, 0>>) = 0
        BY <4>3 DEF Dot
      <4> QED BY <3>1, <4>2, <4>4, <4>5
    <3> QED BY <3>2, <3>3
  <2> QED BY <2>1, <2>2
<1>11. \A f \in DOMAIN F : swept[f] = OutwardSign(F[f], c) * SweptVolume4(t.faces[f], from, to)
  BY <1>8, <1>10 DEF OutwardSign
<1> HIDE DEF swept, from, to, t
<1>12. SumOver({f \in DOMAIN F : c \in {F[f].owner, F[f].neighbor}}, swept)
         = 2 * (CellGeometry(CellAt(t, to, c)).area2 - CellGeometry(CellAt(t, from, c)).area2)
  BY <1>2, <1>4, <1>6, <1>7, <1>11, SumOverFaces
<1>13. /\ mesh.cells[c] = CellGeometry(CellAt(t, to, c))
       /\ step.previous[c] = CellGeometry(CellAt(t, from, c))
  BY <1>5, <1>6
<1> QED BY <1>9, <1>12, <1>13 DEF swept

\* The mesh of a motion is that of its vertices.
LEMMA MotionIsOfItsVertices ==
  ASSUME MotionInv
  PROVE  MeshIsThatOfItsVertices
<1> SUFFICES ASSUME state = "moving" PROVE MeshIsThatOfItsVertices
  BY DEF MeshIsThatOfItsVertices
<1>1. /\ spec \in Specs /\ Joined(spec) /\ IsTopology(spec, topology)
      /\ reference = topology.vertices /\ mesh = MeshAt(current) /\ ValidAt(current)
  BY MotionHome DEF MotionInv
<1>2. /\ current \in [DOMAIN topology.vertices -> Points] /\ CanCompute(topology, current)
      /\ mesh = SetGeometry(MeshOf(spec), ComputeGeometry(topology, current))
  BY <1>1 DEF ValidAt, MeshAt
<1>3. /\ \A b \in DOMAIN mesh.grids :
            mesh.grids[b].vertices
              = [n \in DOMAIN mesh.grids[b].vertices |-> current[topology.blockVertexIds[b][n]]]
      /\ CellsAreConvex([spec EXCEPT !.blocks = mesh.grids])
      /\ mesh = MeshOf([spec EXCEPT !.blocks = mesh.grids])
  BY <1>1, <1>2, MovedMesh
<1> QED BY <1>3, Zenon DEF MeshIsThatOfItsVertices

\* An accepted mesh can be moved, a moving mesh is the one its vertices would
\* be built into, and every cell grows by what its faces sweep: of every file,
\* for every motion, after any steps, refused steps and reverts.
THEOREM MotionIsConsistentHolds == Spec => []MotionIsConsistent
<1>1. MotionInv => MotionIsConsistent
  <2> SUFFICES ASSUME MotionInv PROVE MotionIsConsistent
    OBVIOUS
  <2>1. AcceptedMeshCanMove
    <3> SUFFICES ASSUME state = "ready" PROVE Reproduces(StructuredTopology(mesh), mesh)
      BY DEF AcceptedMeshCanMove
    <3>1. Joined(spec) /\ CellsAreConvex(spec) /\ mesh = MeshOf(spec)
      BY DEF MotionInv, IsBuilt
    <3> QED BY <3>1, HomeFacts
  <2> QED BY <2>1, MotionConserves, MotionIsOfItsVertices DEF MotionIsConsistent
<1> QED BY <1>1, MotionInvHolds, PTL
================================================================================
