--------------------------- MODULE InboundStream ---------------------------
(***************************************************************************)
(* What the read half of a stream promises: the application gets the       *)
(* peer's bytes once and in order, and end of file only for the peer's     *)
(* close_notify and after everything before it (the counterpart of         *)
(* OutboundStream, from the doc comments of RecordReader).                 *)
(***************************************************************************)
EXTENDS Integers, Sequences

VARIABLES
  wire,                 \* what the peer has sent: positions; 0 is close_notify
  delivered,            \* what the application has been given
  eof                   \* the application has been told that the stream is over

vars == <<wire, delivered, eof>>

Closed == wire # <<>> /\ wire[Len(wire)] = 0
Bytes == IF Closed THEN Len(wire) - 1 ELSE Len(wire)

Init == delivered = <<>> /\ eof = FALSE

\* The peer, which promises nothing here but to send nothing after its close.
PeerSends ==
  /\ ~Closed /\ Len(wire') >= Len(wire) /\ SubSeq(wire', 1, Len(wire)) = wire
  /\ UNCHANGED <<delivered, eof>>

Deliver ==
  /\ ~eof
  /\ \E n \in Len(delivered)..Bytes : delivered' = SubSeq(wire, 1, n)
  /\ UNCHANGED <<wire, eof>>

End ==
  /\ Closed /\ Len(delivered) = Bytes
  /\ eof' = TRUE /\ UNCHANGED <<wire, delivered>>

Next == PeerSends \/ Deliver \/ End

Spec == Init /\ [][Next]_vars
=============================================================================
