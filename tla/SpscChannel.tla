---------------------------- MODULE SpscChannel ----------------------------
(***************************************************************************)
(* The bounded single-producer single-consumer channel of                  *)
(* fastrace/src/util/spsc.rs as a value and the elementary updates the     *)
(* code makes on it.  Each update is one access to the rtrb ring or to     *)
(* pending_messages; the state machines that use the channel (Spsc,        *)
(* Collector) interleave them.                                             *)
(*                                                                         *)
(* A channel is a record:                                                  *)
(*   ring     the rtrb ring buffer, oldest message first                   *)
(*   pending  Sender::pending_messages, messages force_send could not push *)
(*   open     FALSE once the Producer half is gone (rtrb is_abandoned)     *)
(***************************************************************************)
EXTENDS Naturals, Sequences

CONSTANT Capacity   \* the argument of spsc::bounded

ASSUME CapacityAssumption == Capacity \in Nat

\* spsc::bounded: an empty ring of the given capacity, nothing pending.
NewChannel == [ring |-> <<>>, pending |-> <<>>, open |-> TRUE]

Channels(M) == [ring : Seq(M), pending : Seq(M), open : BOOLEAN]

\* rtrb::Producer::push returns PushError::Full otherwise.
HasRoom(ch) == Len(ch.ring) < Capacity

\* rtrb::Producer::push with room, and rtrb::Consumer::pop.
Push(ch, m) == [ch EXCEPT !.ring = Append(@, m)]
Pop(ch)     == [ch EXCEPT !.ring = Tail(@)]

\* Vec::pop on pending_messages takes the message parked last.
NewestPending(ch) == ch.pending[Len(ch.pending)]

\* Mutant: the message is pushed but not taken out of pending_messages.
PushPendingMutant(ch) == Push(ch, NewestPending(ch))

\* A successful turn of the retry loop that send and force_send share.
PushPending(ch) ==
  [Push(ch, NewestPending(ch)) EXCEPT
     !.pending = SubSeq(@, 1, Len(@) - 1)]

\* Mutant: a parking lot of one place.
ParkMutant(ch, m) == [ch EXCEPT !.pending = <<m>>]

\* force_send found no room for its own value either.
Park(ch, m) == [ch EXCEPT !.pending = Append(@, m)]

\* One turn of the loop in Drop for Sender: oldest first, lost when full.
DrainPending(ch) ==
  LET rest == [ch EXCEPT !.pending = Tail(@)]
  IN  IF HasRoom(ch) THEN Push(rest, Head(ch.pending)) ELSE rest

\* Mutant: the Producer outlives the Sender.
AbandonMutant(ch) == ch

\* The Producer field is dropped after Drop for Sender has returned.
Abandon(ch) == [ch EXCEPT !.open = FALSE]
=============================================================================
