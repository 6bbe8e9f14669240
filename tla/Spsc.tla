-------------------------------- MODULE Spsc --------------------------------
(***************************************************************************)
(* One command channel of fastrace: the thread that owns the Sender calls  *)
(* send, force_send and finally drops it; the collector calls try_recv in  *)
(* a loop.  Every access to the shared ring is a step of its own, so calls *)
(* of the two sides interleave.                                            *)
(*                                                                         *)
(* A message is passed to the channel at most once.  The messages in       *)
(* Forced go through force_send (CommitCollect, DropCollect), the others   *)
(* through send (StartCollect, SubmitSpans).                               *)
(***************************************************************************)
EXTENDS SpscChannel, Functions

CONSTANTS Msg,      \* the messages
          Forced,   \* those sent by force_send
          NoMsg     \* no call in progress

ASSUME MsgAssumption == Forced \subseteq Msg /\ NoMsg \notin Msg

VARIABLES
  ch,         \* the channel
  call,       \* the message of the sender's call in progress, or NoMsg
  sender,     \* where the sender is, see SenderState
  receiver,   \* where the receiver is, see ReceiverState
  accepted,   \* history: messages whose call did not report ChannelFull
  refused,    \* history: messages whose call returned Err(ChannelFull)
  received    \* history: what try_recv returned, in order

vars == <<ch, call, sender, receiver, accepted, refused, received>>

\* "retry"   in the loop over pending_messages
\* "push"    past the loop, about to push the call's own value
\* "drop"    in Drop for Sender,   "gone"  after it
SenderState == {"idle", "retry", "push", "drop", "gone"}

\* "empty"   the pop of try_recv failed, is_abandoned not read yet
\* "closed"  try_recv returned ChannelClosed: the collector drops the Receiver
ReceiverState == {"idle", "empty", "closed"}

Used == Range(accepted) \cup refused

Init ==
  /\ ch = NewChannel
  /\ call = NoMsg
  /\ sender = "idle"
  /\ receiver = "idle"
  /\ accepted = <<>>
  /\ refused = {}
  /\ received = <<>>

-----------------------------------------------------------------------------
(* The sender. *)

\* send and force_send begin with the same loop.
Call(m) ==
  /\ sender = "idle"
  /\ m \notin Used
  /\ call' = m
  /\ sender' = "retry"
  /\ UNCHANGED <<ch, receiver, accepted, refused, received>>

RetryPending ==
  /\ sender = "retry"
  /\ ch.pending # <<>>
  /\ HasRoom(ch)
  /\ ch' = PushPending(ch)
  /\ UNCHANGED <<call, sender, receiver, accepted, refused, received>>

RetryDone ==
  /\ sender = "retry"
  /\ ch.pending = <<>>
  /\ sender' = "push"
  /\ UNCHANGED <<ch, call, receiver, accepted, refused, received>>

Return == sender' = "idle" /\ call' = NoMsg

Accept == accepted' = Append(accepted, call)

\* Mutant: send goes on like force_send.
SendRetryFullMutantPush ==
  /\ sender = "retry" /\ call \notin Forced
  /\ ch.pending # <<>>
  /\ ~HasRoom(ch)
  /\ sender' = "push"
  /\ UNCHANGED <<ch, call, receiver, accepted, refused, received>>

\* Mutant: force_send gives up like send.
SendRetryFullMutantForced ==
  /\ sender = "retry"
  /\ ch.pending # <<>>
  /\ ~HasRoom(ch)
  /\ refused' = refused \cup {call}
  /\ Return
  /\ UNCHANGED <<ch, receiver, accepted, received>>

\* send gives up: put the pending message back, return Err, value dropped.
SendRetryFull ==
  /\ sender = "retry" /\ call \notin Forced
  /\ ch.pending # <<>>
  /\ ~HasRoom(ch)
  /\ refused' = refused \cup {call}
  /\ Return
  /\ UNCHANGED <<ch, receiver, accepted, received>>

\* force_send puts the message back and breaks out of the loop.
ForceRetryFull ==
  /\ sender = "retry" /\ call \in Forced
  /\ ch.pending # <<>>
  /\ ~HasRoom(ch)
  /\ sender' = "push"
  /\ UNCHANGED <<ch, call, receiver, accepted, refused, received>>

PushValue ==
  /\ sender = "push"
  /\ HasRoom(ch)
  /\ ch' = Push(ch, call)
  /\ Accept
  /\ Return
  /\ UNCHANGED <<receiver, refused, received>>

SendFull ==
  /\ sender = "push" /\ call \notin Forced
  /\ ~HasRoom(ch)
  /\ refused' = refused \cup {call}
  /\ Return
  /\ UNCHANGED <<ch, receiver, accepted, received>>

ForcePark ==
  /\ sender = "push" /\ call \in Forced
  /\ ~HasRoom(ch)
  /\ ch' = Park(ch, call)
  /\ Accept
  /\ Return
  /\ UNCHANGED <<receiver, refused, received>>

\* The thread ends and its thread-local Sender is dropped.
DropSender ==
  /\ sender = "idle"
  /\ sender' = "drop"
  /\ UNCHANGED <<ch, call, receiver, accepted, refused, received>>

DropDrain ==
  /\ sender = "drop"
  /\ ch.pending # <<>>
  /\ ch' = DrainPending(ch)
  /\ UNCHANGED <<call, sender, receiver, accepted, refused, received>>

DropDone ==
  /\ sender = "drop"
  /\ ch.pending = <<>>
  /\ ch' = Abandon(ch)
  /\ sender' = "gone"
  /\ UNCHANGED <<call, receiver, accepted, refused, received>>

SenderStep ==
  \/ RetryPending \/ RetryDone \/ SendRetryFull \/ ForceRetryFull
  \/ PushValue \/ SendFull \/ ForcePark
  \/ DropDrain \/ DropDone

-----------------------------------------------------------------------------
(* The receiver: try_recv, called again and again by handle_commands. *)

RecvPop ==
  /\ receiver = "idle"
  /\ ch.ring # <<>>
  /\ received' = Append(received, Head(ch.ring))
  /\ ch' = Pop(ch)
  /\ UNCHANGED <<call, sender, receiver, accepted, refused>>

RecvEmpty ==
  /\ receiver = "idle"
  /\ ch.ring = <<>>
  /\ receiver' = "empty"
  /\ UNCHANGED <<ch, call, sender, accepted, refused, received>>

\* is_abandoned is read after the pop failed, not together with it.
RecvOpen ==
  /\ receiver = "empty"
  /\ ch.open
  /\ receiver' = "idle"
  /\ UNCHANGED <<ch, call, sender, accepted, refused, received>>

\* Mutant: is_abandoned is read before the pop.
RecvClosedMutant ==
  /\ receiver # "closed"
  /\ ~ch.open
  /\ receiver' = "closed"
  /\ UNCHANGED <<ch, call, sender, accepted, refused, received>>

RecvClosed ==
  /\ receiver = "empty"
  /\ ~ch.open
  /\ receiver' = "closed"
  /\ UNCHANGED <<ch, call, sender, accepted, refused, received>>

ReceiverStep == RecvPop \/ RecvEmpty \/ RecvOpen \/ RecvClosed

-----------------------------------------------------------------------------
Next == (\E m \in Msg : Call(m)) \/ DropSender \/ SenderStep \/ ReceiverStep

\* A call runs to its end, and the collector's loop never stops polling.
\* Nothing obliges the thread to make another call or to end.
Fairness == WF_vars(SenderStep) /\ WF_vars(ReceiverStep)

Spec == Init /\ [][Next]_vars /\ Fairness

-----------------------------------------------------------------------------
TypeOK ==
  /\ ch \in Channels(Msg)
  /\ call \in Msg \cup {NoMsg}
  /\ sender \in SenderState
  /\ receiver \in ReceiverState
  /\ accepted \in Seq(Msg)
  /\ refused \subseteq Msg
  /\ received \in Seq(Msg)
  /\ (call # NoMsg) <=> sender \in {"retry", "push"}
  /\ ch.open <=> sender # "gone"

\* What left the sender for good, in the order it will reach the receiver.
Delivery == received \o ch.ring

\* No message is duplicated: the retry loop pops a pending message before it
\* pushes it and puts it back when the ring is full, so a message is never
\* both parked and delivered, nor delivered twice.
NoDuplicate ==
  /\ IsInjective(Delivery)
  /\ IsInjective(ch.pending)
  /\ Range(Delivery) \cap Range(ch.pending) = {}

\* No accepted message is lost while the Sender lives: a parked commit or
\* cancel stays parked until a later call pushes it.
NothingLostWhileOpen ==
  sender \notin {"drop", "gone"}
     => Range(accepted) = Range(Delivery) \cup Range(ch.pending)

Before(s, a, b) == \E i, j \in DOMAIN s : i < j /\ s[i] = a /\ s[j] = b

\* A message accepted by send is a barrier: everything accepted before it
\* is ahead of it, because send pushes only once pending_messages is empty.
\* (Two forced messages may overtake each other.)
SendIsBarrier ==
  \A i, j \in DOMAIN accepted :
     i < j /\ accepted[j] \notin Forced
        => Before(Delivery, accepted[i], accepted[j])

\* After the Sender is gone, a receiver that begins a new call reads every
\* message still in the ring before it reports ChannelClosed.
DrainedBeforeClosed ==
  ~ch.open /\ receiver = "idle" ~> receiver = "closed" /\ ch.ring = <<>>

-----------------------------------------------------------------------------
\* The channel implements LossyChannel: ring and pending_messages are in
\* flight until the receiver is told that the channel is closed.
InFlight == IF receiver = "closed" THEN {} ELSE Range(ch.ring) \cup Range(ch.pending)

Phase == CASE receiver = "closed" -> "closed"
           [] receiver # "closed" /\ sender \in {"drop", "gone"} -> "ending"
           [] OTHER -> "open"

Promise == INSTANCE LossyChannel WITH
  Guaranteed <- Forced,
  inFlight   <- InFlight,
  delivered  <- Range(received),
  rejected   <- refused,
  phase      <- Phase

\* Accepted, refused, delivered and discarded exactly as LossyChannel allows:
\* a forced message is never refused, nothing is delivered twice, nothing is
\* lost before the sending thread ends.
KeepsPromise == Promise!LSpec
=============================================================================
