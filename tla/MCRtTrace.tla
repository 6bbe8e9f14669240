----------------------------- MODULE MCRtTrace -----------------------------
(* Instances of RtTrace for TLC. *)
EXTENDS RtTrace

CONSTANTS t1, t2

Two == {t1, t2}

IdsInUse == {tid[t] : t \in Thread}

\* The ids 0 and 2 share a shard and only differ beside each other: without 0, the
\* id 2 is 0 under another name.
MCInit == Init /\ (2 \in IdsInUse => 0 \in IdsInUse)

MCSpec == MCInit /\ [][Next]_vars

MCSymmetry == Permutations(Thread)
=============================================================================
