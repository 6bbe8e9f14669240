---------------------------- MODULE LossyChannel ----------------------------
(***************************************************************************)
(* What a command channel promises its users, without rings and parking    *)
(* lots: an unordered store in which a message is accepted or refused      *)
(* once, delivered at most once, and discarded only after the sending      *)
(* thread began to end.  Guaranteed messages are never refused.            *)
(***************************************************************************)
CONSTANTS Msg, Guaranteed

VARIABLES inFlight, delivered, rejected, phase

lvars == <<inFlight, delivered, rejected, phase>>

New(m) == m \notin inFlight \cup delivered \cup rejected

LInit ==
  /\ inFlight = {}
  /\ delivered = {}
  /\ rejected = {}
  /\ phase = "open"

LAccept(m) ==
  /\ phase = "open" /\ New(m)
  /\ inFlight' = inFlight \cup {m}
  /\ UNCHANGED <<delivered, rejected, phase>>

LReject(m) ==
  /\ phase = "open" /\ New(m) /\ m \notin Guaranteed
  /\ rejected' = rejected \cup {m}
  /\ UNCHANGED <<inFlight, delivered, phase>>

LDeliver(m) ==
  /\ phase # "closed" /\ m \in inFlight
  /\ inFlight' = inFlight \ {m}
  /\ delivered' = delivered \cup {m}
  /\ UNCHANGED <<rejected, phase>>

\* The sending thread ends.
LEnd ==
  /\ phase = "open"
  /\ phase' = "ending"
  /\ UNCHANGED <<inFlight, delivered, rejected>>

LDiscard(m) ==
  /\ phase = "ending" /\ m \in inFlight
  /\ inFlight' = inFlight \ {m}
  /\ UNCHANGED <<delivered, rejected, phase>>

\* The receiver learns that the channel is closed; the rest is discarded.
LClose ==
  /\ phase = "ending"
  /\ phase' = "closed"
  /\ inFlight' = {}
  /\ UNCHANGED <<delivered, rejected>>

LNext ==
  \/ \E m \in Msg : LAccept(m) \/ LReject(m) \/ LDeliver(m) \/ LDiscard(m)
  \/ LEnd \/ LClose

LSpec == LInit /\ [][LNext]_lvars
=============================================================================
