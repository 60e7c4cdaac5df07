----------------------------- MODULE MCLinearSolve -----------------------------
(* Tolerances around small norms; the matrices are those of a flow solver in *)
(* small: non-negative diagonal, off-diagonal entries 0 or -1.               *)
EXTENDS LinearSolve

MCRows == 1 .. 3
MCMatrices ==
  {[i \in MCRows |-> [j \in MCRows |->
      IF i = j THEN d[i] ELSE IF <<i, j>> \in S THEN -1 ELSE 0]] :
     d \in [MCRows -> 0 .. 2], S \in SUBSET {ij \in MCRows \X MCRows : ij[1] # ij[2]}}

MCVectors == [MCRows -> -2 .. 2]

Configured(type, absolute, relative, jacobi, most) ==
  [type |-> type, absolute |-> absolute, relative |-> relative, jacobi |-> jacobi,
   enabled |-> most > 0, maxAttempts |-> most]

MCConfigurations ==
  {Configured("BiCGSTAB", 1, 0, FALSE, 0), Configured("BiCGSTAB", 0, 50, TRUE, 2),
   Configured("CG", 0, 60, TRUE, 2), Configured("GMRES", 1, 40, FALSE, 1),
   Configured("GMRES", 1, 40, TRUE, 2)}
================================================================================
