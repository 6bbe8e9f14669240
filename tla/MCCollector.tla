---------------------------- MODULE MCCollector ----------------------------
(* Instances of Collector for TLC. *)
EXTENDS Collector, TLC

CONSTANTS t1, t2

Two == {t1, t2}
One == {t1}
None == {}

MCSymmetry == Permutations(Thread)
=============================================================================
