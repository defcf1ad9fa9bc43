------------------------------ MODULE MCConfig ------------------------------
(* A small instance of Config.                                             *)
EXTENDS Config

SomeSuites ==
  {<<>>, <<ALL_CIPHER_SUITES[3], ALL_CIPHER_SUITES[7]>>, <<ALL_CIPHER_SUITES[7], ALL_CIPHER_SUITES[4]>>,
   <<ALL_CIPHER_SUITES[1]>>}
TwoLists == {<<>>, <<<<1>>, <<2, 1>>>>}
ServerFields ==
  [min_version |-> {13}, max_version |-> {12}, cipher_suites |-> SomeSuites,
   named_groups |-> {<<>>, <<"Secp521r1", "X25519MLKEM768">>}, ktls_aead_only |-> BOOLEAN,
   client_auth |-> {"Optional", "Required"},
   alpn_protocols |-> TwoLists \cup {<<<<2, 1>>, <<2>>, <<1>>>>, <<<<1>>, <<>>>>}]
ClientFields ==
  [min_version |-> {13}, max_version |-> {12}, cipher_suites |-> {<<>>, <<ALL_CIPHER_SUITES[9], ALL_CIPHER_SUITES[3]>>},
   named_groups |-> {<<>>, <<"Secp256r1", "X25519">>}, roots |-> {"Disabled"}, client_auth |-> {"Pem"},
   alpn_protocols |-> TwoLists \cup {<<<<1>>, <<1, 2, 1>>>>, <<<<2>>, <<>>>>}]
AllHosts == {"empty", "nul", "dns", "ip", "[ip]"}
CallsFail == {"call"}
ProtoH2 == <<2, 1>>

=============================================================================
