--------------------------- MODULE MCHandshake ---------------------------
(* Small instances of Handshake.                                           *)
EXTENDS Handshake

\* TLS 1.3: the server's flight is longer than the socket's buffer.
OneScript == {[client |-> <<"w", "r", "r", "w">>, server |-> <<"r", "w", "w", "r">>]}

AllFaults == {"init", "reject", "drop", "driver"}

=============================================================================
