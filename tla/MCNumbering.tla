---------------------------- MODULE MCNumbering ----------------------------
(* Instances of Numbering: three workers on one short series.              *)
EXTENDS Numbering, TLC

CONSTANTS p1, p2, p3

MCSymmetry == Permutations(Writers)

=============================================================================
