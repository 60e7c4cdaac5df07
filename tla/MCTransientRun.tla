---------------------------- MODULE MCTransientRun -----------------------------
(* Up to four steps of ten ticks; the times of two of them rounded either way.  A *)
(* moving mesh stays where it is, never returns, or is back halfway through the   *)
(* period of its motion, at the time of the second step.                          *)
EXTENDS TransientRun

MCRoundings ==
  {[n \in 1 .. MaxSteps |-> IF n = 1 THEN a ELSE IF n = 3 THEN b ELSE 0] :
     a \in {0, 1}, b \in -1 .. 1}

Stationary == [t \in 0 .. Horizon |-> 0]
Affine == [t \in 0 .. Horizon |-> t]

\* sin(pi t / 20) as far as its values coincide.
Wave(phase) == IF phase <= 10 THEN phase ELSE IF phase <= 30 THEN 20 - phase ELSE phase - 40
Sinusoidal == [t \in 0 .. Horizon |-> Wave(t % 40)]

MCMotions == {Stationary, Affine, Sinusoidal}
================================================================================
