------------------------------ MODULE MCJaeger ------------------------------
(* Instances of Jaeger for TLC. *)
EXTENDS Jaeger

CONSTANTS p1, p2

\* An empty batch takes one byte; the sizes of its spans come on top.
MCBytes(batch) == FoldLeft(LAMBDA sum, s : sum + s.size, 1, batch)

MCProcess == {p1, p2}

\* One of the two goes through the id 0.
MCPrefix == [p \in MCProcess |-> IF p = p1 THEN 0 ELSE 1]

\* A trace id with its high half negative as an i64.
MCTraces == {13}

\* Short and padded fields and unknown flags; then headers that are refused:
\* another version, a field too many, no digits, a number too large.
MCForeign ==
  {<<Version, <<1, 1, 0>>, <<0, 0, 1>>, <<1, 1>>>>,
   <<<<0, 1>>, <<1, 1>>, <<1>>, <<1>>>>,
   <<Version, <<1, 1>>, <<1>>, <<1>>, <<1>>>>,
   <<Version, <<>>, <<1>>, <<1>>>>,
   <<Version, <<1, 0, 0, 0, 0>>, <<1>>, <<1>>>>}
=============================================================================
