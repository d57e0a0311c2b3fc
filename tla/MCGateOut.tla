----------------------------- MODULE MCGateOut -----------------------------
(* One pass, or two of which g1 is the newer, and up to two web workers.   *)
EXTENDS GateOut, TLC

CONSTANTS g1, g2, p1, p2

MCOnePass == <<g1>>
MCTwoPasses == <<g1, g2>>

\* What is promised of a pass until a handler commits on an outdated copy is not
\* looked for beyond that.
MCCurrent == \A g \in Passes : ~overtaken[g]

MCSymmetry == Permutations({p1, p2})
=============================================================================
