---------------------------- MODULE MCTlsStream ----------------------------
(* Small instances of TlsStream: what the peer sends and what fails differ *)
(* from run to run.                                                        *)
EXTENDS TlsStream

NoFailures == {}
AllFailures == {"reset", "driver"}

DataOnly == {"data"}
DataAndClose == {"data", "close_notify"}
BadAndFin == {"bad", "fin"}
CtlOnly == {"ctl"}

=============================================================================
