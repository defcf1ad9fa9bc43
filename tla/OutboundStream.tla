--------------------------- MODULE OutboundStream ---------------------------
(***************************************************************************)
(* What the write half of a stream promises (the contract in the doc       *)
(* comment of TlsStream): bytes reach the transport once and in the order  *)
(* they were accepted; at most one chunk is accepted ahead of the          *)
(* transport, and none behind it; close_notify comes last, after all of    *)
(* them.  A byte is its position in the application's stream.              *)
(***************************************************************************)
EXTENDS Integers, Sequences

CONSTANT MaxChunk       \* the most a stream may hold back

VARIABLES
  accepted,             \* bytes acknowledged to the application
  wire                  \* what the transport has been given; 0 is close_notify

vars == <<accepted, wire>>

Positions(k, n) == [i \in 1..(n - k) |-> k + i]

Closed == wire # <<>> /\ wire[Len(wire)] = 0

Init == accepted = 0 /\ wire = <<>>

\* A chunk is accepted and held back: only when nothing else is.
Accept ==
  /\ ~Closed /\ Len(wire) = accepted
  /\ accepted' \in (accepted + 1)..(accepted + MaxChunk)
  /\ wire' = wire

\* What was held back is sent.
Send ==
  /\ ~Closed /\ Len(wire) < accepted
  /\ wire' = wire \o Positions(Len(wire), accepted)
  /\ accepted' = accepted

\* Bytes are accepted and sent at once.
AcceptAndSend ==
  /\ ~Closed /\ Len(wire) = accepted
  /\ accepted' \in Nat /\ accepted' > accepted
  /\ wire' = wire \o Positions(accepted, accepted')

Close ==
  /\ ~Closed /\ Len(wire) = accepted
  /\ wire' = Append(wire, 0)
  /\ accepted' = accepted

Next == Accept \/ Send \/ AcceptAndSend \/ Close

Spec == Init /\ [][Next]_vars
=============================================================================
