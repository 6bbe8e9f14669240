-------------------------- MODULE MCLocalSpanStack --------------------------
(* Instances of LocalSpanStack for TLC. *)
EXTENDS LocalSpanStack

\* Parents are spans of their own, outside the range of the local ids.
Item(collect, parent) == [collect |-> collect, parent |-> parent]

\* Not sampled, and sampled in part.
MCTokens == {<<Item(0, 101)>>, <<Item(0, 102), Item(1, 103)>>}
=============================================================================
