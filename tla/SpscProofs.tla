----------------------------- MODULE SpscProofs -----------------------------
(***************************************************************************)
(* Proofs about the command channel of Spsc, for every set of messages,    *)
(* every choice of forced ones and every capacity.                         *)
(***************************************************************************)
EXTENDS Spsc, TLAPS, SequenceTheorems

-----------------------------------------------------------------------------
(* Sequences. *)

\* Appending adds one element, and keeps a sequence free of repetitions
\* when the element is new.
LEMMA AppendFacts ==
  ASSUME NEW S, NEW s \in Seq(S), NEW x \in S
  PROVE  /\ Append(s, x) \in Seq(S)
         /\ Range(Append(s, x)) = Range(s) \cup {x}
         /\ IsInjective(s) /\ x \notin Range(s) => IsInjective(Append(s, x))
<1>1. /\ DOMAIN s = 1 .. Len(s) /\ Len(s) \in Nat
      /\ DOMAIN Append(s, x) = 1 .. (Len(s) + 1)
      /\ \A i \in DOMAIN s : Append(s, x)[i] = s[i]
      /\ Append(s, x)[Len(s) + 1] = x
  OBVIOUS
<1>2. DOMAIN Append(s, x) = DOMAIN s \cup {Len(s) + 1}
  BY <1>1
<1>3. Append(s, x) \in Seq(S)
  OBVIOUS
<1>4. Range(Append(s, x)) = Range(s) \cup {x}
  BY <1>1, <1>2 DEF Range
<1>5. IsInjective(s) /\ x \notin Range(s) => IsInjective(Append(s, x))
  BY <1>1, <1>2 DEF Range, IsInjective
<1> QED
  BY <1>3, <1>4, <1>5

\* Dropping the last element of a sequence without repetitions removes
\* exactly that element.
LEMMA FrontFacts ==
  ASSUME NEW S, NEW s \in Seq(S), s # <<>>
  PROVE  LET f == SubSeq(s, 1, Len(s) - 1) IN
         /\ f \in Seq(S) /\ s[Len(s)] \in S
         /\ Range(f) \cup {s[Len(s)]} = Range(s)
         /\ IsInjective(s) => IsInjective(f) /\ s[Len(s)] \notin Range(f)
<1> DEFINE f == SubSeq(s, 1, Len(s) - 1)
<1>1. /\ f \in Seq(S) /\ Len(s) \in Nat \ {0} /\ DOMAIN s = 1 .. Len(s)
      /\ DOMAIN f = 1 .. (Len(s) - 1)
      /\ \A i \in 1 .. (Len(s) - 1) : f[i] = s[i]
  OBVIOUS
<1>2. \A i \in DOMAIN s : i = Len(s) \/ i \in DOMAIN f
  BY <1>1
<1> QED
  BY <1>1, <1>2 DEF Range, IsInjective

\* The same for the first element.
LEMMA TailFacts ==
  ASSUME NEW S, NEW s \in Seq(S), s # <<>>
  PROVE  /\ Tail(s) \in Seq(S) /\ Head(s) \in S
         /\ Range(Tail(s)) \cup {Head(s)} = Range(s)
         /\ IsInjective(s) => IsInjective(Tail(s)) /\ Head(s) \notin Range(Tail(s))
<1>1. /\ Tail(s) \in Seq(S) /\ Len(s) \in Nat \ {0} /\ DOMAIN s = 1 .. Len(s)
      /\ DOMAIN Tail(s) = 1 .. (Len(s) - 1)
      /\ \A i \in 1 .. (Len(s) - 1) : Tail(s)[i] = s[i + 1]
      /\ Head(s) = s[1]
  OBVIOUS
<1>2. \A i \in DOMAIN s : i = 1 \/ i - 1 \in DOMAIN Tail(s)
  BY <1>1
<1>3. \A i \in DOMAIN s \ {1} : s[i] = Tail(s)[i - 1]
  BY <1>1
<1> QED
  BY <1>1, <1>2, <1>3 DEF Range, IsInjective

\* Moving the head of the ring to the end of what was received does not
\* change the order of delivery.
LEMMA MoveHead ==
  ASSUME NEW S, NEW s \in Seq(S), NEW r \in Seq(S), r # <<>>
  PROVE  Append(s, Head(r)) \o Tail(r) = s \o r
<1> DEFINE u == Append(s, Head(r)) \o Tail(r)
           v == s \o r
<1>1. u \in Seq(S) /\ v \in Seq(S)
  OBVIOUS
<1>2. Len(u) = Len(v)
  OBVIOUS
<1>3. ASSUME NEW i \in 1 .. Len(u) PROVE u[i] = v[i]
  OBVIOUS
<1> QED
  BY <1>1, <1>2, <1>3, SeqEqual

\* A push adds one message at the end of the order of delivery.
LEMMA PushAtEnd ==
  ASSUME NEW S, NEW s \in Seq(S), NEW r \in Seq(S), NEW x \in S
  PROVE  s \o Append(r, x) = Append(s \o r, x)
<1> DEFINE u == s \o Append(r, x)
           v == Append(s \o r, x)
<1>1. u \in Seq(S) /\ v \in Seq(S)
  OBVIOUS
<1>2. Len(u) = Len(v)
  OBVIOUS
<1>3. ASSUME NEW i \in 1 .. Len(u) PROVE u[i] = v[i]
  OBVIOUS
<1> QED
  BY <1>1, <1>2, <1>3, SeqEqual

\* A push does not change the order of what is already on its way, and what
\* is on its way is before the message pushed.
LEMMA PushKeepsOrder ==
  ASSUME NEW S, NEW s \in Seq(S), NEW x \in S, NEW a
  PROVE  /\ \A b : Before(s, a, b) => Before(Append(s, x), a, b)
         /\ a \in Range(s) => Before(Append(s, x), a, x)
<1>1. /\ DOMAIN s = 1 .. Len(s) /\ Len(s) \in Nat
      /\ DOMAIN Append(s, x) = 1 .. (Len(s) + 1)
      /\ \A i \in DOMAIN s : Append(s, x)[i] = s[i]
      /\ Append(s, x)[Len(s) + 1] = x
  OBVIOUS
<1>2. \A i \in DOMAIN s : i \in DOMAIN Append(s, x) /\ i < Len(s) + 1
  BY <1>1
<1>3. Len(s) + 1 \in DOMAIN Append(s, x)
  BY <1>1
<1> QED
  BY <1>1, <1>2, <1>3 DEF Before, Range

-----------------------------------------------------------------------------
(* The elementary updates of a channel. *)

\* Replacing the ring changes nothing else.
LEMMA ReplaceRing ==
  ASSUME NEW M, NEW c \in Channels(M), NEW r \in Seq(M)
  PROVE  [c EXCEPT !.ring = r] = [ring |-> r, pending |-> c.pending, open |-> c.open]
BY DEF Channels

\* The same for the parked messages.
LEMMA ReplacePending ==
  ASSUME NEW M, NEW c \in Channels(M), NEW p \in Seq(M)
  PROVE  [c EXCEPT !.pending = p] = [ring |-> c.ring, pending |-> p, open |-> c.open]
BY DEF Channels

\* Every update keeps a channel a channel; all but Abandon keep it open.
LEMMA PushUpdate ==
  ASSUME NEW M, NEW c \in Channels(M), NEW x \in M
  PROVE  /\ Push(c, x) \in Channels(M)
         /\ Push(c, x) = [ring |-> Append(c.ring, x), pending |-> c.pending, open |-> c.open]
<1>1. /\ c.ring \in Seq(M) /\ c.pending \in Seq(M) /\ c.open \in BOOLEAN
  BY DEF Channels
<1>2. Append(c.ring, x) \in Seq(M)
  BY <1>1
<1>3. Push(c, x) = [ring |-> Append(c.ring, x), pending |-> c.pending, open |-> c.open]
  BY <1>2, ReplaceRing, Zenon DEF Push
<1> QED
  BY <1>1, <1>2, <1>3 DEF Channels

\* Parking leaves the ring alone.
LEMMA ParkUpdate ==
  ASSUME NEW M, NEW c \in Channels(M), NEW x \in M
  PROVE  /\ Park(c, x) \in Channels(M)
         /\ Park(c, x) = [ring |-> c.ring, pending |-> Append(c.pending, x), open |-> c.open]
<1>1. /\ c.ring \in Seq(M) /\ c.pending \in Seq(M) /\ c.open \in BOOLEAN
  BY DEF Channels
<1>2. Append(c.pending, x) \in Seq(M)
  BY <1>1
<1>3. Park(c, x) = [ring |-> c.ring, pending |-> Append(c.pending, x), open |-> c.open]
  BY <1>2, ReplacePending, Zenon DEF Park
<1> QED
  BY <1>1, <1>2, <1>3 DEF Channels

\* Abandon closes the channel and keeps it a channel.
LEMMA AbandonUpdate ==
  ASSUME NEW M, NEW c \in Channels(M)
  PROVE  Abandon(c) \in Channels(M) /\ ~Abandon(c).open
BY DEF Channels, Abandon

\* Popping the ring leaves the parked messages alone.
LEMMA PopUpdate ==
  ASSUME NEW M, NEW c \in Channels(M), c.ring # <<>>
  PROVE  Pop(c) \in Channels(M) /\ Pop(c).open = c.open /\ Head(c.ring) \in M
<1>1. /\ c.ring \in Seq(M) /\ c.pending \in Seq(M) /\ c.open \in BOOLEAN
  BY DEF Channels
<1>2. Tail(c.ring) \in Seq(M) /\ Head(c.ring) \in M
  BY <1>1, TailFacts
<1>3. Pop(c) = [ring |-> Tail(c.ring), pending |-> c.pending, open |-> c.open]
  BY <1>2, ReplaceRing, Zenon DEF Pop
<1> QED
  BY <1>1, <1>2, <1>3 DEF Channels

\* A turn of the retry loop, and of the loop in Drop: one parked message
\* moves to the end of the ring.
LEMMA UnparkUpdates ==
  ASSUME NEW M, NEW c \in Channels(M), c.pending # <<>>
  PROVE  /\ PushPending(c) \in Channels(M) /\ PushPending(c).open = c.open
         /\ DrainPending(c) \in Channels(M) /\ DrainPending(c).open = c.open
<1>1. /\ c.ring \in Seq(M) /\ c.pending \in Seq(M) /\ c.open \in BOOLEAN
  BY DEF Channels
<1> DEFINE new == NewestPending(c)
           front == SubSeq(c.pending, 1, Len(c.pending) - 1)
           rest == [c EXCEPT !.pending = Tail(@)]
<1>2. new \in M /\ front \in Seq(M)
  BY <1>1, FrontFacts DEF NewestPending
<1>3. Head(c.pending) \in M /\ Tail(c.pending) \in Seq(M)
  BY <1>1, TailFacts
<1>4. PushPending(c) \in Channels(M) /\ PushPending(c).open = c.open
  <2>1. /\ Push(c, new) \in Channels(M)
        /\ Push(c, new).pending = c.pending /\ Push(c, new).open = c.open
    BY <1>2, PushUpdate
  <2>2. PushPending(c) = [Push(c, new) EXCEPT !.pending = front]
    BY <2>1 DEF PushPending
  <2>3. PushPending(c) = [ring |-> Push(c, new).ring, pending |-> front, open |-> c.open]
    BY <1>2, <2>1, <2>2, ReplacePending, SMTT(30)
  <2> QED
    BY <1>1, <1>2, <2>1, <2>3 DEF Channels
<1>5. DrainPending(c) \in Channels(M) /\ DrainPending(c).open = c.open
  <2>1. rest = [ring |-> c.ring, pending |-> Tail(c.pending), open |-> c.open]
    BY <1>3, ReplacePending, Zenon
  <2>2. rest \in Channels(M) /\ rest.open = c.open
    BY <1>1, <1>3, <2>1 DEF Channels
  <2>3. /\ Push(rest, Head(c.pending)) \in Channels(M)
        /\ Push(rest, Head(c.pending)).open = c.open
    <3> HIDE DEF rest
    <3>1. Push(rest, Head(c.pending)) = [ring |-> Append(rest.ring, Head(c.pending)),
                                         pending |-> rest.pending, open |-> rest.open]
      BY <1>3, <2>2, PushUpdate
    <3>2. Push(rest, Head(c.pending)) \in Channels(M)
      BY <1>3, <2>2, PushUpdate
    <3> QED
      BY <2>2, <3>1, <3>2
  <2> QED
    BY <2>2, <2>3 DEF DrainPending
<1> QED
  BY <1>4, <1>5

-----------------------------------------------------------------------------
(* The inductive invariant. *)

OnTheWay == Range(Delivery) \cup Range(ch.pending)

\* What the invariants of Spsc need to be inductive: the message of the
\* call in progress is new, only accepted messages are on their way, and
\* send reaches its push with nothing parked.
CallInv ==
  /\ call \notin Range(accepted) \cup refused
  /\ OnTheWay \subseteq Range(accepted)
  /\ Range(accepted) \cap refused = {}
  /\ sender = "push" /\ call \notin Forced => ch.pending = <<>>
  /\ receiver = "closed" => sender = "gone"
  /\ sender = "gone" => ch.pending = <<>>

IInv ==
  /\ TypeOK
  /\ NoDuplicate
  /\ NothingLostWhileOpen
  /\ CallInv
  /\ SendIsBarrier

\* The order of delivery after a message x was pushed into the ring.
LEMMA DeliveryPush ==
  ASSUME TypeOK, NEW x \in Msg,
         received' = received, ch'.ring = Append(ch.ring, x)
  PROVE  /\ Delivery \in Seq(Msg) /\ Delivery' = Append(Delivery, x)
         /\ Range(Delivery') = Range(Delivery) \cup {x}
         /\ IsInjective(Delivery) /\ x \notin Range(Delivery) => IsInjective(Delivery')
<1>1. ch.ring \in Seq(Msg) /\ received \in Seq(Msg)
  BY DEF TypeOK, Channels
<1>2. Delivery \in Seq(Msg) /\ Delivery' = Append(Delivery, x)
  BY <1>1, PushAtEnd DEF Delivery
<1> QED
  BY <1>2, AppendFacts

\* A step that pushes x and accepts nothing keeps the barrier property.
LEMMA BarrierPush ==
  ASSUME TypeOK, SendIsBarrier, NEW x \in Msg,
         received' = received, ch'.ring = Append(ch.ring, x),
         accepted' = accepted
  PROVE  SendIsBarrier'
<1>1. Delivery \in Seq(Msg) /\ Delivery' = Append(Delivery, x)
  BY DeliveryPush
<1>2. \A a, b : Before(Delivery, a, b) => Before(Delivery', a, b)
  BY <1>1, PushKeepsOrder
<1> QED
  BY <1>2 DEF SendIsBarrier

-----------------------------------------------------------------------------
\* NoMsg is never mistaken for a message.
LEMMA NoMsgUnused ==
  ASSUME NEW s \in Seq(Msg), NEW R \in SUBSET Msg
  PROVE  NoMsg \notin Range(s) \cup R
<1>1. \A i \in DOMAIN s : s[i] \in Msg
  OBVIOUS
<1> QED
  BY <1>1, MsgAssumption DEF Range

\* The invariant holds initially.
LEMMA InitInv == Init => IInv
<1> SUFFICES ASSUME Init PROVE IInv
  OBVIOUS
<1> USE DEF Init
<1>1. Delivery = <<>> /\ Range(<<>>) = {}
  BY DEF Delivery, NewChannel, Range
<1>2. TypeOK
  BY MsgAssumption DEF TypeOK, NewChannel, Channels, SenderState, ReceiverState
<1>3. NoDuplicate
  BY <1>1 DEF NoDuplicate, NewChannel, IsInjective
<1>4. NothingLostWhileOpen /\ CallInv /\ SendIsBarrier
  BY <1>1 DEF NothingLostWhileOpen, CallInv, OnTheWay, SendIsBarrier, NewChannel
<1> QED
  BY <1>2, <1>3, <1>4 DEF IInv

\* Steps that leave the ring, the parked messages and the histories alone
\* but refuse the call's message or move one side's program counter.
LEMMA QuietInv ==
  ASSUME IInv, TypeOK', CallInv',
         ch'.ring = ch.ring, ch'.pending = ch.pending,
         received' = received, accepted' = accepted,
         sender' \notin {"drop", "gone"} => sender \notin {"drop", "gone"}
  PROVE  IInv'
<1>1. Delivery' = Delivery
  BY DEF Delivery
<1> QED
  BY <1>1 DEF IInv, NoDuplicate, NothingLostWhileOpen, SendIsBarrier

\* A parked message x moves to the ring: a turn of the retry loop, or of the
\* loop in Drop that finds room.
LEMMA UnparkInv ==
  ASSUME IInv, TypeOK', NEW x \in Msg, HasRoom(ch),
         ch'.ring = Append(ch.ring, x),
         Range(ch.pending) = Range(ch'.pending) \cup {x},
         IsInjective(ch.pending) => IsInjective(ch'.pending) /\ x \notin Range(ch'.pending),
         sender \in {"retry", "drop"},
         UNCHANGED <<call, sender, receiver, accepted, refused, received>>
  PROVE  IInv'
<1> USE DEF IInv
<1>1. /\ Range(Delivery') = Range(Delivery) \cup {x}
      /\ x \notin Range(Delivery) => IsInjective(Delivery')
  BY DeliveryPush DEF NoDuplicate
<1>2. NoDuplicate'
  BY <1>1 DEF NoDuplicate
<1>3. NothingLostWhileOpen' /\ CallInv'
  BY <1>1 DEF NothingLostWhileOpen, CallInv, OnTheWay
<1>4. SendIsBarrier'
  BY BarrierPush
<1> QED
  BY <1>2, <1>3, <1>4

\* The call's own message is pushed.
LEMMA PushValueInv ==
  ASSUME IInv, TypeOK', PushValue
  PROVE  IInv'
<1> USE DEF IInv, PushValue, Accept, Return
<1>1. /\ ch.ring \in Seq(Msg) /\ accepted \in Seq(Msg) /\ call \in Msg
      /\ ch'.ring = Append(ch.ring, call) /\ ch'.pending = ch.pending
  BY DEF TypeOK, Channels, Push
<1>2. /\ Delivery \in Seq(Msg) /\ Delivery' = Append(Delivery, call)
      /\ Range(Delivery') = Range(Delivery) \cup {call}
      /\ call \notin Range(Delivery) => IsInjective(Delivery')
  BY <1>1, DeliveryPush DEF NoDuplicate
<1>3. Range(accepted') = Range(accepted) \cup {call}
  BY <1>1, AppendFacts
<1>4. NoDuplicate'
  BY <1>1, <1>2 DEF NoDuplicate, CallInv, OnTheWay
<1>5. NothingLostWhileOpen'
  BY <1>1, <1>2, <1>3 DEF NothingLostWhileOpen
<1>6. CallInv'
  <2>1. NoMsg \notin Range(accepted') \cup refused'
    BY NoMsgUnused DEF TypeOK
  <2> QED
    BY <2>1, <1>1, <1>2, <1>3 DEF CallInv, OnTheWay
<1>7. SendIsBarrier'
  <2> SUFFICES ASSUME NEW i \in DOMAIN accepted', NEW j \in DOMAIN accepted',
                      i < j, accepted'[j] \notin Forced
               PROVE  Before(Delivery', accepted'[i], accepted'[j])
    BY DEF SendIsBarrier
  <2>1. /\ DOMAIN accepted = 1 .. Len(accepted) /\ Len(accepted) \in Nat
        /\ DOMAIN accepted' = 1 .. (Len(accepted) + 1)
        /\ \A k \in DOMAIN accepted : accepted'[k] = accepted[k]
        /\ accepted'[Len(accepted) + 1] = call
    BY <1>1
  <2>2. i \in DOMAIN accepted /\ accepted'[i] = accepted[i]
    BY <2>1
  <2>3. CASE j \in DOMAIN accepted
    <3>1. Before(Delivery, accepted[i], accepted[j])
      BY <2>1, <2>2, <2>3 DEF SendIsBarrier
    <3> QED
      BY <3>1, <2>1, <2>2, <2>3, <1>1, <1>2, PushKeepsOrder
  <2>4. CASE j = Len(accepted) + 1
    <3>1. ch.pending = <<>>
      BY <2>1, <2>4 DEF CallInv
    <3>2. Range(accepted) = Range(Delivery) \cup Range(ch.pending)
      BY DEF NothingLostWhileOpen
    <3>3. Range(ch.pending) = {} /\ accepted[i] \in Range(accepted)
      BY <2>2, <3>1 DEF Range
    <3>4. accepted[i] \in Range(Delivery)
      BY <3>2, <3>3
    <3> QED
      BY <3>4, <2>1, <2>2, <2>4, <1>1, <1>2, PushKeepsOrder
  <2> QED
    BY <2>1, <2>3, <2>4
<1> QED
  BY <1>4, <1>5, <1>6, <1>7

\* The call's own message is parked.
LEMMA ForceParkInv ==
  ASSUME IInv, TypeOK', ForcePark
  PROVE  IInv'
<1> USE DEF IInv, ForcePark, Accept, Return
<1>1. /\ ch.pending \in Seq(Msg) /\ accepted \in Seq(Msg) /\ call \in Msg
      /\ ch'.ring = ch.ring /\ ch'.pending = Append(ch.pending, call)
  BY DEF TypeOK, Channels, Park
<1>2. Delivery' = Delivery
  BY <1>1 DEF Delivery
<1>3. /\ Range(ch'.pending) = Range(ch.pending) \cup {call}
      /\ call \notin Range(ch.pending) /\ IsInjective(ch.pending) => IsInjective(ch'.pending)
      /\ Range(accepted') = Range(accepted) \cup {call}
  BY <1>1, AppendFacts
<1>4. NoDuplicate'
  BY <1>2, <1>3 DEF NoDuplicate, CallInv, OnTheWay
<1>5. NothingLostWhileOpen'
  BY <1>2, <1>3 DEF NothingLostWhileOpen
<1>6. CallInv'
  <2>1. NoMsg \notin Range(accepted') \cup refused'
    BY NoMsgUnused DEF TypeOK
  <2> QED
    BY <2>1, <1>1, <1>2, <1>3 DEF CallInv, OnTheWay
<1>7. SendIsBarrier'
  <2> SUFFICES ASSUME NEW i \in DOMAIN accepted', NEW j \in DOMAIN accepted',
                      i < j, accepted'[j] \notin Forced
               PROVE  Before(Delivery', accepted'[i], accepted'[j])
    BY DEF SendIsBarrier
  <2>1. /\ DOMAIN accepted = 1 .. Len(accepted) /\ Len(accepted) \in Nat
        /\ DOMAIN accepted' = 1 .. (Len(accepted) + 1)
        /\ \A k \in DOMAIN accepted : accepted'[k] = accepted[k]
        /\ accepted'[Len(accepted) + 1] = call
    BY <1>1
  <2>2. i \in DOMAIN accepted /\ j \in DOMAIN accepted
    BY <2>1
  <2> QED
    BY <2>1, <2>2, <1>2 DEF SendIsBarrier
<1> QED
  BY <1>4, <1>5, <1>6, <1>7

\* A message is received.
LEMMA RecvPopInv ==
  ASSUME IInv, TypeOK', RecvPop
  PROVE  IInv'
<1> USE DEF IInv, RecvPop
<1>1. /\ ch.ring \in Seq(Msg) /\ received \in Seq(Msg) /\ ch.ring # <<>>
      /\ ch'.ring = Tail(ch.ring) /\ ch'.pending = ch.pending
  BY DEF TypeOK, Channels, Pop
<1>2. Delivery' = Delivery
  BY <1>1, MoveHead DEF Delivery
<1> QED
  BY <1>1, <1>2 DEF NoDuplicate, NothingLostWhileOpen, CallInv, OnTheWay, SendIsBarrier

\* TypeOK is preserved by every step of the sender and of the receiver.
LEMMA TypeStep ==
  ASSUME TypeOK, Next
  PROVE  TypeOK'
<1> USE DEF TypeOK, SenderState, ReceiverState, Return, Accept
<1>1. ASSUME NEW m \in Msg, Call(m) PROVE TypeOK'
  BY <1>1, MsgAssumption DEF Call
<1>2. CASE DropSender
  BY <1>2 DEF DropSender
<1>3. CASE RetryPending
  BY <1>3, UnparkUpdates DEF RetryPending
<1>4. CASE RetryDone
  BY <1>4 DEF RetryDone
<1>5. CASE SendRetryFull
  BY <1>5 DEF SendRetryFull
<1>6. CASE ForceRetryFull
  BY <1>6 DEF ForceRetryFull
<1>7. CASE PushValue
  BY <1>7, PushUpdate DEF PushValue
<1>8. CASE SendFull
  BY <1>8 DEF SendFull
<1>9. CASE ForcePark
  BY <1>9, ParkUpdate DEF ForcePark
<1>10. CASE DropDrain
  BY <1>10, UnparkUpdates DEF DropDrain
<1>11. CASE DropDone
  BY <1>11, AbandonUpdate DEF DropDone
<1>12. CASE RecvPop
  BY <1>12, PopUpdate DEF RecvPop
<1>13. CASE RecvEmpty
  BY <1>13 DEF RecvEmpty
<1>14. CASE RecvOpen
  BY <1>14 DEF RecvOpen
<1>15. CASE RecvClosed
  BY <1>15 DEF RecvClosed
<1> QED
  BY <1>1, <1>2, <1>3, <1>4, <1>5, <1>6, <1>7, <1>8, <1>9, <1>10, <1>11,
     <1>12, <1>13, <1>14, <1>15 DEF Next, SenderStep, ReceiverStep

\* Every step preserves the invariant.
LEMMA StepInv ==
  ASSUME IInv, Next
  PROVE  IInv'
<1>0. TypeOK'
  BY TypeStep DEF IInv
<1> USE <1>0
<1>1. ASSUME NEW m \in Msg, Call(m) PROVE IInv'
  <2>1. CallInv'
    BY <1>1 DEF Call, Used, IInv, CallInv, OnTheWay, Delivery
  <2> QED
    BY <1>1, <2>1, QuietInv DEF Call
<1>2. CASE DropSender
  <2>1. CallInv'
    BY <1>2 DEF DropSender, IInv, CallInv, OnTheWay, Delivery
  <2> QED
    BY <1>2, <2>1, QuietInv DEF DropSender
<1>3. CASE RetryPending
  <2>1. ch.pending \in Seq(Msg)
    BY DEF IInv, TypeOK, Channels
  <2>2. /\ ch'.ring = Append(ch.ring, NewestPending(ch))
        /\ ch'.pending = SubSeq(ch.pending, 1, Len(ch.pending) - 1)
    BY <1>3 DEF RetryPending, PushPending, Push, NewestPending, IInv, TypeOK, Channels
  <2> QED
    BY <1>3, <2>1, <2>2, FrontFacts, UnparkInv DEF RetryPending, NewestPending
<1>4. CASE RetryDone
  <2>1. CallInv'
    BY <1>4 DEF RetryDone, IInv, CallInv, OnTheWay, Delivery
  <2> QED
    BY <1>4, <2>1, QuietInv DEF RetryDone
<1>5. CASE SendRetryFull \/ SendFull
  <2>1. CallInv'
    <3>1. NoMsg \notin Range(accepted) \cup refused'
      BY NoMsgUnused DEF IInv, TypeOK
    <3> QED
      BY <1>5, <3>1 DEF SendRetryFull, SendFull, Return, IInv, CallInv, OnTheWay, Delivery
  <2> QED
    BY <1>5, <2>1, QuietInv DEF SendRetryFull, SendFull, Return
<1>6. CASE ForceRetryFull
  <2>1. CallInv'
    BY <1>6 DEF ForceRetryFull, IInv, CallInv, OnTheWay, Delivery
  <2> QED
    BY <1>6, <2>1, QuietInv DEF ForceRetryFull
<1>7. CASE PushValue
  BY <1>7, PushValueInv
<1>8. CASE ForcePark
  BY <1>8, ForceParkInv
<1>9. CASE DropDrain
  <2>1. ch.pending \in Seq(Msg) /\ ch.pending # <<>> /\ ch'.pending = Tail(ch.pending)
    BY <1>9 DEF DropDrain, DrainPending, Push, IInv, TypeOK, Channels
  <2>2. CASE HasRoom(ch)
    <3>1. ch'.ring = Append(ch.ring, Head(ch.pending))
      BY <1>9, <2>2 DEF DropDrain, DrainPending, Push, IInv, TypeOK, Channels
    <3> QED
      BY <1>9, <2>1, <2>2, <3>1, TailFacts, UnparkInv DEF DropDrain
  <2>3. CASE ~HasRoom(ch)
    <3>1. ch'.ring = ch.ring
      BY <1>9, <2>3 DEF DropDrain, DrainPending, IInv, TypeOK, Channels
    <3>2. /\ Range(ch'.pending) \subseteq Range(ch.pending)
          /\ IsInjective(ch.pending) => IsInjective(ch'.pending)
      BY <2>1, TailFacts
    <3>3. Delivery' = Delivery
      BY <1>9, <3>1 DEF DropDrain, Delivery
    <3> QED
      BY <1>9, <3>1, <3>2, <3>3 DEF DropDrain, IInv, NoDuplicate,
           NothingLostWhileOpen, CallInv, OnTheWay, SendIsBarrier
  <2> QED
    BY <2>2, <2>3
<1>10. CASE DropDone
  <2>1. ch'.ring = ch.ring /\ ch'.pending = ch.pending
    BY <1>10 DEF DropDone, Abandon, IInv, TypeOK, Channels
  <2>2. CallInv'
    BY <1>10, <2>1 DEF DropDone, IInv, CallInv, OnTheWay, Delivery
  <2> QED
    BY <1>10, <2>1, <2>2, QuietInv DEF DropDone
<1>11. CASE RecvPop
  BY <1>11, RecvPopInv
<1>12. CASE RecvEmpty \/ RecvOpen \/ RecvClosed
  <2>1. CallInv'
    BY <1>12 DEF RecvEmpty, RecvOpen, RecvClosed, IInv, TypeOK, CallInv, OnTheWay, Delivery
  <2> QED
    BY <1>12, <2>1, QuietInv DEF RecvEmpty, RecvOpen, RecvClosed
<1> QED
  BY <1>1, <1>2, <1>3, <1>4, <1>5, <1>6, <1>7, <1>8, <1>9, <1>10, <1>11, <1>12
     DEF Next, SenderStep, ReceiverStep

\* The invariant does not depend on anything but the variables.
LEMMA StutterInv ==
  ASSUME IInv, UNCHANGED vars
  PROVE  IInv'
BY DEF vars, IInv, TypeOK, NoDuplicate, NothingLostWhileOpen,
       CallInv, OnTheWay, SendIsBarrier, Delivery

\* The invariant holds in every reachable state of the channel.
THEOREM Invariance == Spec => []IInv
<1>1. IInv /\ [Next]_vars => IInv'
  BY StepInv, StutterInv
<1> QED
  BY <1>1, InitInv, PTL DEF Spec

\* The state of the channel is always well-formed.
THEOREM TypeCorrect == Spec => []TypeOK
BY Invariance, PTL DEF IInv

\* No message is ever duplicated.
THEOREM NeverDuplicated == Spec => []NoDuplicate
BY Invariance, PTL DEF IInv

\* No accepted message is lost while its Sender lives.
THEOREM NeverLostWhileOpen == Spec => []NothingLostWhileOpen
BY Invariance, PTL DEF IInv

\* A best-effort message never overtakes anything accepted before it.
THEOREM BestEffortIsBarrier == Spec => []SendIsBarrier
BY Invariance, PTL DEF IInv

-----------------------------------------------------------------------------
(* The channel implements LossyChannel, for every capacity, every set of   *)
(* messages and every choice of forced ones: each step of the sender or    *)
(* the receiver accepts, refuses, delivers or discards a message as        *)
(* LossyChannel allows, or changes nothing that it shows.                  *)

\* What an injective concatenation says of its second part.
LEMMA ConcatFacts ==
  ASSUME NEW S, NEW s \in Seq(S), NEW r \in Seq(S)
  PROVE  /\ Range(s) \cup Range(r) \subseteq Range(s \o r)
         /\ IsInjective(s \o r) => IsInjective(r)
PROOF
<1> DEFINE n == Len(s)
<1>1. /\ n \in Nat /\ Len(r) \in Nat
      /\ DOMAIN s = 1 .. n /\ DOMAIN r = 1 .. Len(r)
      /\ DOMAIN (s \o r) = 1 .. n + Len(r)
  OBVIOUS
<1>2. \A i \in DOMAIN s : i \in DOMAIN (s \o r) /\ (s \o r)[i] = s[i]
  OBVIOUS
<1>3. \A i \in DOMAIN r : n + i \in DOMAIN (s \o r) /\ (s \o r)[n + i] = r[i]
  OBVIOUS
<1>4. Range(s) \subseteq Range(s \o r)
  BY <1>2 DEF Range
<1>5. Range(r) \subseteq Range(s \o r)
  BY <1>3 DEF Range
<1>6. ASSUME IsInjective(s \o r)
      PROVE  IsInjective(r)
  <2> HIDE DEF n
  <2> SUFFICES ASSUME NEW i \in DOMAIN r, NEW j \in DOMAIN r, r[i] = r[j]
               PROVE  i = j
    BY DEF IsInjective
  <2>1. (s \o r)[n + i] = (s \o r)[n + j]
    BY <1>3
  <2>2. n + i = n + j
    BY <1>3, <1>6, <2>1 DEF IsInjective
  <2> QED
    BY <1>1, <2>2
<1> QED
  BY <1>4, <1>5, <1>6

\* What is not yet delivered is in flight once, and a call's message is new.
LEMMA InFlightFacts ==
  ASSUME IInv
  PROVE  /\ ch.ring \in Seq(Msg) /\ ch.pending \in Seq(Msg) /\ received \in Seq(Msg)
         /\ IsInjective(ch.ring) /\ IsInjective(ch.pending)
         /\ Range(ch.ring) \cap Range(ch.pending) = {}
         /\ call \notin Range(ch.ring) \cup Range(ch.pending) \cup Range(received) \cup refused
         /\ receiver = "closed" => sender = "gone"
PROOF
<1>1. ch.ring \in Seq(Msg) /\ ch.pending \in Seq(Msg) /\ received \in Seq(Msg)
  BY DEF IInv, TypeOK, Channels
<1>2. /\ Range(received) \cup Range(ch.ring) \subseteq Range(Delivery)
      /\ IsInjective(Delivery) => IsInjective(ch.ring)
  BY <1>1, ConcatFacts, Zenon DEF Delivery
<1>3. /\ IsInjective(Delivery) /\ IsInjective(ch.pending)
      /\ Range(Delivery) \cap Range(ch.pending) = {}
  BY DEF IInv, NoDuplicate
<1>4. /\ call \notin Range(accepted) \cup refused
      /\ Range(Delivery) \cup Range(ch.pending) \subseteq Range(accepted)
      /\ receiver = "closed" => sender = "gone"
  BY DEF IInv, CallInv, OnTheWay
<1> QED
  BY <1>1, <1>2, <1>3, <1>4

\* Nothing has been sent at first.
LEMMA InitPromise == Init => Promise!LInit
PROOF
<1> SUFFICES ASSUME Init
             PROVE  Promise!LInit
  OBVIOUS
<1>1. ch = NewChannel /\ received = <<>> /\ refused = {} /\ receiver = "idle" /\ sender = "idle"
  BY DEF Init
<1>2. ch.ring = <<>> /\ ch.pending = <<>> /\ Range(<<>>) = {}
  BY <1>1 DEF NewChannel, Range
<1>3. InFlight = {} /\ Range(received) = {} /\ Phase = "open"
  BY <1>1, <1>2 DEF InFlight, Phase
<1> QED
  BY <1>1, <1>3 DEF Promise!LInit

\* A step that LossyChannel does not see.
LEMMA HiddenStep ==
  ASSUME InFlight' = InFlight, Phase' = Phase, received' = received, refused' = refused
  PROVE  UNCHANGED Promise!lvars
PROOF
  BY DEF Promise!lvars

\* The call's message is accepted, pushed or parked.
LEMMA AcceptStep ==
  ASSUME IInv, PushValue \/ ForcePark
  PROVE  Promise!LAccept(call) /\ call \in Msg
PROOF
<1>1. /\ call \in Msg /\ sender = "push" /\ sender' = "idle" /\ receiver # "closed"
      /\ received' = received /\ refused' = refused /\ receiver' = receiver
  BY InFlightFacts DEF IInv, TypeOK, PushValue, ForcePark, Return
<1>2. Range(ch'.ring) \cup Range(ch'.pending) = Range(ch.ring) \cup Range(ch.pending) \cup {call}
  <2>1. CASE PushValue
    <3>1. ch'.ring = Append(ch.ring, call) /\ ch'.pending = ch.pending
      BY <2>1 DEF PushValue, Push, IInv, TypeOK, Channels
    <3> QED
      BY <1>1, <3>1, AppendFacts, InFlightFacts
  <2>2. CASE ForcePark
    <3>1. ch'.ring = ch.ring /\ ch'.pending = Append(ch.pending, call)
      BY <2>2 DEF ForcePark, Park, IInv, TypeOK, Channels
    <3> QED
      BY <1>1, <3>1, AppendFacts, InFlightFacts
  <2> QED
    BY <2>1, <2>2
<1>3. InFlight' = InFlight \cup {call} /\ Phase = "open" /\ Phase' = "open"
  BY <1>1, <1>2 DEF InFlight, Phase
<1>4. call \notin InFlight \cup Range(received) \cup refused
  BY <1>1, InFlightFacts DEF InFlight
<1> QED
  BY <1>1, <1>3, <1>4 DEF Promise!LAccept, Promise!New

\* The call's message is refused.
LEMMA RejectStep ==
  ASSUME IInv, SendRetryFull \/ SendFull
  PROVE  Promise!LReject(call) /\ call \in Msg
PROOF
<1>1. /\ call \in Msg /\ call \notin Forced
      /\ sender \in {"retry", "push"} /\ sender' = "idle" /\ receiver # "closed"
      /\ UNCHANGED <<ch, received, receiver>> /\ refused' = refused \cup {call}
  BY InFlightFacts DEF IInv, TypeOK, SendRetryFull, SendFull, Return
<1>2. InFlight' = InFlight /\ Phase = "open" /\ Phase' = "open"
  BY <1>1 DEF InFlight, Phase
<1>3. call \notin InFlight \cup Range(received) \cup refused
  BY <1>1, InFlightFacts DEF InFlight
<1> QED
  BY <1>1, <1>2, <1>3 DEF Promise!LReject, Promise!New

\* The oldest message of the ring is delivered.
LEMMA DeliverStep ==
  ASSUME IInv, RecvPop
  PROVE  \E m \in Msg : Promise!LDeliver(m)
PROOF
<1> DEFINE m == Head(ch.ring)
<1>1. /\ receiver = "idle" /\ ch.ring # <<>> /\ received' = Append(received, m)
      /\ UNCHANGED <<sender, receiver, refused>>
      /\ ch'.ring = Tail(ch.ring) /\ ch'.pending = ch.pending
  BY DEF RecvPop, Pop, IInv, TypeOK, Channels
<1>2. /\ m \in Msg /\ Range(Tail(ch.ring)) \cup {m} = Range(ch.ring)
      /\ m \notin Range(Tail(ch.ring)) /\ m \notin Range(ch.pending)
  BY <1>1, InFlightFacts, TailFacts
<1>3. Range(received') = Range(received) \cup {m}
  BY <1>1, <1>2, InFlightFacts, AppendFacts
<1> HIDE DEF m
<1>4. m \in InFlight /\ InFlight' = InFlight \ {m} /\ Phase # "closed" /\ Phase' = Phase
  BY <1>1, <1>2 DEF InFlight, Phase
<1>5. Promise!LDeliver(m)
  BY <1>1, <1>3, <1>4 DEF Promise!LDeliver
<1> QED
  BY <1>2, <1>5

\* A parked message goes to the ring, or is lost with the thread.
LEMMA DrainStep ==
  ASSUME IInv, DropDrain
  PROVE  UNCHANGED Promise!lvars \/ \E m \in Msg : Promise!LDiscard(m)
PROOF
<1> DEFINE m == Head(ch.pending)
<1>1. /\ sender = "drop" /\ ch.pending # <<>> /\ receiver # "closed"
      /\ UNCHANGED <<sender, receiver, refused, received>>
      /\ ch'.pending = Tail(ch.pending)
      /\ ch'.ring = IF HasRoom(ch) THEN Append(ch.ring, m) ELSE ch.ring
  BY InFlightFacts DEF DropDrain, DrainPending, Push, IInv, TypeOK, Channels
<1>2. /\ m \in Msg /\ Range(Tail(ch.pending)) \cup {m} = Range(ch.pending)
      /\ m \notin Range(Tail(ch.pending)) /\ m \notin Range(ch.ring)
  BY <1>1, InFlightFacts, TailFacts
<1> HIDE DEF m
<1>3. Phase = "ending" /\ Phase' = "ending"
  BY <1>1 DEF Phase
<1>4. CASE HasRoom(ch)
  <2>1. Range(ch'.ring) = Range(ch.ring) \cup {m}
    BY <1>1, <1>2, <1>4, InFlightFacts, AppendFacts
  <2>2. InFlight' = InFlight
    BY <1>1, <1>2, <2>1 DEF InFlight
  <2> QED
    BY <1>1, <1>3, <2>2, HiddenStep
<1>5. CASE ~HasRoom(ch)
  <2>1. m \in InFlight /\ InFlight' = InFlight \ {m}
    BY <1>1, <1>2, <1>5 DEF InFlight
  <2>2. Promise!LDiscard(m)
    BY <1>1, <1>3, <2>1 DEF Promise!LDiscard
  <2> QED
    BY <1>2, <2>2
<1> QED
  BY <1>4, <1>5

\* Every step of the channel is one that LossyChannel allows, or hidden.
LEMMA StepPromise ==
  ASSUME IInv, [Next]_vars
  PROVE  [Promise!LNext]_Promise!lvars
PROOF
<1>1. CASE UNCHANGED vars
  BY <1>1, HiddenStep DEF vars, InFlight, Phase
<1>2. CASE \E m \in Msg : Call(m)
  <2>1. UNCHANGED <<ch, receiver, received, refused>> /\ sender = "idle" /\ sender' = "retry"
    BY <1>2 DEF Call
  <2> QED
    BY <2>1, HiddenStep DEF InFlight, Phase
<1>3. CASE DropSender
  <2>1. /\ UNCHANGED <<ch, receiver, received, refused>>
        /\ sender = "idle" /\ sender' = "drop" /\ receiver # "closed"
    BY <1>3, InFlightFacts DEF DropSender
  <2>2. InFlight' = InFlight /\ Phase = "open" /\ Phase' = "ending"
    BY <2>1 DEF InFlight, Phase
  <2> QED
    BY <2>1, <2>2 DEF Promise!LNext, Promise!LEnd
<1>4. CASE RetryPending
  <2>1. /\ UNCHANGED <<sender, receiver, received, refused>> /\ ch.pending # <<>>
        /\ ch'.ring = Append(ch.ring, NewestPending(ch))
        /\ ch'.pending = SubSeq(ch.pending, 1, Len(ch.pending) - 1)
    BY <1>4 DEF RetryPending, PushPending, Push, NewestPending, IInv, TypeOK, Channels
  <2>2. /\ NewestPending(ch) \in Msg
        /\ Range(ch'.pending) \cup {NewestPending(ch)} = Range(ch.pending)
    BY <2>1, InFlightFacts, FrontFacts DEF NewestPending
  <2>3. Range(ch'.ring) = Range(ch.ring) \cup {NewestPending(ch)}
    BY <2>1, <2>2, InFlightFacts, AppendFacts
  <2> QED
    BY <2>1, <2>2, <2>3, HiddenStep DEF InFlight, Phase
<1>5. CASE RetryDone \/ ForceRetryFull
  <2>1. /\ UNCHANGED <<ch, receiver, received, refused>>
        /\ sender = "retry" /\ sender' = "push"
    BY <1>5 DEF RetryDone, ForceRetryFull
  <2> QED
    BY <2>1, HiddenStep DEF InFlight, Phase
<1>6. CASE PushValue \/ ForcePark
  BY <1>6, AcceptStep DEF Promise!LNext
<1>7. CASE SendRetryFull \/ SendFull
  BY <1>7, RejectStep DEF Promise!LNext
<1>8. CASE DropDrain
  BY <1>8, DrainStep DEF Promise!LNext
<1>9. CASE DropDone
  <2>1. /\ UNCHANGED <<receiver, received, refused>> /\ sender = "drop" /\ sender' = "gone"
        /\ ch'.ring = ch.ring /\ ch'.pending = ch.pending
    BY <1>9 DEF DropDone, Abandon, IInv, TypeOK, Channels
  <2> QED
    BY <2>1, HiddenStep DEF InFlight, Phase
<1>10. CASE RecvPop
  BY <1>10, DeliverStep DEF Promise!LNext
<1>11. CASE RecvEmpty \/ RecvOpen
  <2>1. /\ UNCHANGED <<ch, sender, received, refused>>
        /\ receiver # "closed" /\ receiver' # "closed"
    BY <1>11 DEF RecvEmpty, RecvOpen
  <2> QED
    BY <2>1, HiddenStep DEF InFlight, Phase
<1>12. CASE RecvClosed
  <2>1. /\ UNCHANGED <<ch, sender, received, refused>> /\ sender = "gone"
        /\ receiver = "empty" /\ receiver' = "closed"
    BY <1>12 DEF RecvClosed, IInv, TypeOK
  <2>2. InFlight' = {} /\ Phase = "ending" /\ Phase' = "closed"
    BY <2>1 DEF InFlight, Phase
  <2> QED
    BY <2>1, <2>2 DEF Promise!LNext, Promise!LClose
<1> QED
  BY <1>1, <1>2, <1>3, <1>4, <1>5, <1>6, <1>7, <1>8, <1>9, <1>10, <1>11, <1>12
     DEF Next, SenderStep, ReceiverStep

\* A channel keeps the promise of LossyChannel: no forced message is refused,
\* nothing is delivered twice, nothing accepted is lost before its thread ends.
THEOREM PromiseKept == Spec => KeepsPromise
PROOF
<1>1. Init => Promise!LInit
  BY InitPromise
<1>2. IInv /\ [Next]_vars => [Promise!LNext]_Promise!lvars
  BY StepPromise
<1> QED
  BY <1>1, <1>2, Invariance, PTL DEF Spec, KeepsPromise, Promise!LSpec
=============================================================================
