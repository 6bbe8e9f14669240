------------------------------- MODULE MCSpsc -------------------------------
(* Instances of Spsc for TLC. *)
EXTENDS Spsc

CONSTANTS m1, m2, f1, f2, f3

\* Two best-effort and three forced messages on a ring of two: forced ones
\* overflow, are parked, retried, overtaken and drained at the end.
MCMsg    == {m1, m2, f1, f2, f3}
MCForced == {f1, f2, f3}
=============================================================================
