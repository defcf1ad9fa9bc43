-------------------------- MODULE MCRecordReader --------------------------
(* Small instances of RecordReader.                                        *)
EXTENDS RecordReader

ReadOnly == {"read"}

\* close_notify at both levels, another alert, one cut short, one too long.
AllAlerts == {<<1, 0>>, <<2, 0>>, <<2, 40>>, <<1>>, <<1, 0, 0>>}
AllControls == {"handshake", "other"}
AllFaults == {"intr", "reset", "trunc", "cmsg", "driver"}

=============================================================================
