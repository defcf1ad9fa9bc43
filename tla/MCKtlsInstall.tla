-------------------------- MODULE MCKtlsInstall --------------------------
(* Small instances of KtlsInstall: every suite from_ids knows, one it does *)
(* not, and every errno classify_ulp_error tells apart and one it does not.*)
EXTENDS KtlsInstall

Suite(version, id) == [version |-> version, id |-> id]

AllSuites ==
  {Suite("1.3", id) : id \in {"TLS_AES_128_GCM_SHA256", "TLS_AES_256_GCM_SHA384",
                              "TLS_CHACHA20_POLY1305_SHA256"}}
    \cup {Suite("1.2", id) : id \in Range128 \cup Range256 \cup Chacha
                                      \cup {"ECDHE_RSA_AES128_CBC_SHA"}}

TwoSuites == {Suite("1.3", "TLS_AES_128_GCM_SHA256"), Suite("1.2", "ECDHE_RSA_AES128_GCM_SHA256")}

AllErrnos == {"ENOENT", "ENOPROTOOPT", "ENOTCONN", "EISCONN", "EBUSY", "EPERM"}
AllFaults == {"platform", "derive", "rx", "tx"}
NoFaults == {}

=============================================================================
