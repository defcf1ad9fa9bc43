SPECIFICATION Spec
CONSTANTS
  ServerValues <- ServerFields
  ClientValues <- ClientFields
  Hosts <- AllHosts
  MaxProto = 2
  H2 <- ProtoH2
  Faults <- CallsFail
INVARIANTS
  NegotiatedAsTold
  AlpnIsServersChoice
  NameIsVerified
CHECK_DEADLOCK FALSE
