---------------------------- MODULE MCAdapters -----------------------------
(* Instances of Adapters for TLC. *)
EXTENDS Adapters, TLC

CONSTANTS t1, t2

Two == {t1, t2}
One == {t1}
None == {}
=============================================================================
