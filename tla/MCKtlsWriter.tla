--------------------------- MODULE MCKtlsWriter ---------------------------
(* Small instances of KtlsWriter.                                          *)
EXTENDS KtlsWriter

WriteOnly == {"write"}
AllFaults == {"intr", "reset", "zero", "torn", "driver"}

=============================================================================
