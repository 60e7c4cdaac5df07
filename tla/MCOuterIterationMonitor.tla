------------------------ MODULE MCOuterIterationMonitor ------------------------
(* One momentum residual u, the continuity residual c and the turbulence    *)
(* residual t. The factors are hundredths, rounded down.                    *)
EXTENDS OuterIterationMonitor

Sample(u, c, t) == [q \in {"u", "c", "t"} |-> CASE q = "u" -> u [] q = "c" -> c [] q = "t" -> t]

MCTracked   == {"u", "c"}
MCRelative  == {"u"}
MCGates     == {"u", "c", "t"}
MCUnchecked == {"t"}
MCTolerance == [q \in MCGates |-> IF q = "u" THEN 5 ELSE 1]
MCSamples   == {Sample(2, 3, 1), Sample(5, 1, 2), Sample(6, 1, 1), Sample(10, 1, 2),
                Sample(11, 1, 1), Sample(2, Overflow, 1), Sample(6, 3, Overflow)}
MCSettings  ==
  {[normalized |-> n, divergence |-> d, stagnation |-> s] :
     <<n, d, s>> \in {<<FALSE, TRUE, TRUE>>, <<TRUE, TRUE, FALSE>>, <<TRUE, FALSE, TRUE>>}}

MCFactors   == 1 .. 100
MCInitial   == [k \in Kinds |-> IF k = "velocity" THEN 70 ELSE 30]
MCLeast     == [k \in Kinds |-> IF k = "velocity" THEN 40 ELSE 25]
MCMost      == [k \in Kinds |-> IF k = "velocity" THEN 90 ELSE 31]
MCIncreased == [x \in MCFactors |-> Min({100, (105 * x) \div 100})]
MCDecreased == [x \in MCFactors |-> Max({1, (70 * x) \div 100})]
MCLowered   == [x \in MCFactors |-> Max({1, (90 * x) \div 100})]
================================================================================
