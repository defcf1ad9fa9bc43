------------------------------- MODULE Config -------------------------------
(***************************************************************************)
(* What an application tells the two builders, and what a handshake        *)
(* between their contexts then negotiates.  ServerConfigBuilder::finish    *)
(* and ClientConfigBuilder::build turn the fields of a builder into calls  *)
(* on an SSL_CTX; TlsConnector::connect, directly or from                  *)
(* HttpsConnector::call, adds the name of the host; the session is what    *)
(* NegotiatedSession, KtlsEligibility and hyper read back.  How            *)
(* certificates and keys get into a context is in Handles.                 *)
(***************************************************************************)
EXTENDS Integers, Sequences, Functions

CONSTANTS
  ServerValues, ClientValues,   \* what each setter may be called with, by field
  Hosts,          \* what connect or call is asked for: "empty", "nul", "dns", "ip", "[ip]"
  MaxProto,       \* the largest byte, and so the longest ALPN protocol (255)
  H2,             \* the protocol "h2"
  Faults          \* "call": any call of libssl, and the TCP connection, may fail

VARIABLES
  told,           \* per side: the fields of its builder
  pc,             \* "server", "client", "built", "ready", then "done" or "failed"
  ctx,            \* per side: what its SSL_CTX was given
  asked,          \* the host that was asked for, as it came, and by what: a URI or a name
  sni, target,    \* set in the client's SSL: the SNI, the name libssl checks
  agreed          \* what the handshake has negotiated

vars == <<told, pc, ctx, asked, sni, target, agreed>>

Keys == INSTANCE KtlsKeys

Side == {"server", "client"}
Suite(id, version, auth) == [id |-> id, version |-> version, auth |-> auth]
Suites13 == <<"TLS_AES_128_GCM_SHA256", "TLS_AES_256_GCM_SHA384", "TLS_CHACHA20_POLY1305_SHA256">>
SuitesEcdsa == <<"ECDHE_ECDSA_AES128_GCM_SHA256", "ECDHE_ECDSA_AES256_GCM_SHA384",
                 "ECDHE_ECDSA_CHACHA20_POLY1305">>
SuitesRsa == <<"ECDHE_RSA_AES128_GCM_SHA256", "ECDHE_RSA_AES256_GCM_SHA384",
               "ECDHE_RSA_CHACHA20_POLY1305">>
ALL_CIPHER_SUITES ==
  [i \in 1..3 |-> Suite(Suites13[i], 13, "any")] \o [i \in 1..3 |-> Suite(SuitesEcdsa[i], 12, "ecdsa")]
    \o [i \in 1..3 |-> Suite(SuitesRsa[i], 12, "rsa")]

\* The elements of a list that are in a set, in their order.
Keep(list, set) ==
  LET kept[i \in 0..Len(list)] ==
        IF i = 0 THEN <<>>
        ELSE IF list[i] \in set THEN Append(kept[i - 1], list[i]) ELSE kept[i - 1]
  IN kept[Len(list)]

OfVersion(list, v) == Keep(list, {s \in Range(list) : s.version = v})

\* The first element of a list that is in a set, if there is one.
First(list, set) ==
  {list[i] : i \in {k \in DOMAIN list : list[k] \in set /\ \A j \in 1..(k - 1) : list[j] \notin set}}

\* libssl's own defaults: also a CBC suite for TLS 1.2, a hybrid group first.
Aead12 == OfVersion(ALL_CIPHER_SUITES, 12)
Default12 == Aead12 \o <<Suite("ECDHE_RSA_AES128_CBC_SHA", 12, "rsa")>>
DefaultGroups == <<"X25519MLKEM768", "X25519", "Secp256r1", "Secp384r1">>
Hybrid == {"X25519MLKEM768", "SecP256r1MLKEM768", "SecP384r1MLKEM1024"}
NamedGroup == Hybrid \cup {"X25519", "Secp256r1", "Secp384r1", "Secp521r1"}

\* A builder as it starts out: 0 and <<>> where it was told nothing.
Builder ==
  [server |-> [min_version |-> 0, max_version |-> 0, cipher_suites |-> <<>>, named_groups |-> <<>>,
               alpn_protocols |-> <<>>, ktls_aead_only |-> FALSE, client_auth |-> "None"],
   client |-> [min_version |-> 0, max_version |-> 0, cipher_suites |-> <<>>, named_groups |-> <<>>,
               alpn_protocols |-> <<>>, roots |-> "System", client_auth |-> "None"]]

\* The types of the setters' arguments.
Protocols == Seq(Seq(0..MaxProto))
ServerTypes ==
  [min_version |-> {12, 13}, max_version |-> {12, 13}, cipher_suites |-> Seq(Range(ALL_CIPHER_SUITES)),
   named_groups |-> Seq(NamedGroup), alpn_protocols |-> Protocols, ktls_aead_only |-> BOOLEAN,
   client_auth |-> {"None", "Optional", "Required"}]
ClientTypes ==
  [min_version |-> {12, 13}, max_version |-> {12, 13}, cipher_suites |-> Seq(Range(ALL_CIPHER_SUITES)),
   named_groups |-> Seq(NamedGroup), alpn_protocols |-> Protocols,
   roots |-> {"System", "Pem", "Der", "Disabled"}, client_auth |-> {"None", "Pem", "Der"}]

ASSUME ConstantsAssumption ==
  /\ MaxProto \in Nat \ {0} /\ Faults \subseteq {"call"}
  /\ Hosts \subseteq {"empty", "nul", "dns", "ip", "[ip]"}
  /\ DOMAIN ServerValues \subseteq DOMAIN ServerTypes
  /\ \A f \in DOMAIN ServerValues : ServerValues[f] \subseteq ServerTypes[f]
  /\ DOMAIN ClientValues \subseteq DOMAIN ClientTypes
  /\ \A f \in DOMAIN ClientValues : ClientValues[f] \subseteq ClientTypes[f]

\* An SSL_CTX as SSL_CTX_new makes it.
NewCtx ==
  [min |-> 12, max |-> 13, off |-> {}, tls12 |-> Default12,
   tls13 |-> OfVersion(ALL_CIPHER_SUITES, 13), groups |-> DefaultGroups, verify |-> "none", alpn |-> <<>>]

Nothing ==
  [version |-> 0, suite |-> "none", group |-> "none", alpn |-> <<>>, covers |-> {},
   server |-> "none", client |-> "none"]

NoHost == [by |-> "none", host |-> "none"]

Init ==
  /\ told = Builder /\ pc = "server" /\ ctx = [s \in Side |-> NewCtx]
  /\ asked = NoHost /\ sni = "none" /\ target = "none" /\ agreed = Nothing

\* An error is returned; whatever was built is dropped with it.
Fail ==
  /\ pc' = "failed" /\ told' = Builder /\ ctx' = [s \in Side |-> NewCtx]
  /\ asked' = NoHost /\ sni' = "none" /\ target' = "none" /\ UNCHANGED agreed

-----------------------------------------------------------------------------
(* The setters.  A later call replaces an earlier one, and an empty list   *)
(* clears it.                                                              *)

Set(s, values) ==
  /\ pc = s
  /\ \E f \in DOMAIN values : \E v \in values[f] : told' = [told EXCEPT ![s][f] = v]
  /\ UNCHANGED <<pc, ctx, asked, sni, target, agreed>>

server_set == Set("server", ServerValues)
client_set == Set("client", ClientValues)

-----------------------------------------------------------------------------
(* From the fields to the context, in the order of the code.               *)

\* The version bounds, with their defaults.
set_versions(c, b) ==
  [c EXCEPT !.min = IF b.min_version = 0 THEN 12 ELSE b.min_version,
            !.max = IF b.max_version = 0 THEN 13 ELSE b.max_version]

\* "ECDHE+AESGCM:ECDHE+CHACHA20".
ktls_aead_only(c, b) == IF b.ktls_aead_only THEN [c EXCEPT !.tls12 = Aead12] ELSE c

split_for_aws_lc(suites) == <<OfVersion(suites, 12), OfVersion(suites, 13)>>

\* Mutant: a version without a listed suite stays on.
apply_suites_keeps_versions(c, suites) ==
  LET lists == split_for_aws_lc(suites) IN
  IF suites = <<>> THEN c
  ELSE [c EXCEPT !.tls12 = IF lists[1] = <<>> THEN @ ELSE lists[1],
                 !.tls13 = IF lists[2] = <<>> THEN @ ELSE lists[2]]

\* cipher_suite::apply_to_ctx: a version without a listed suite is turned off, its
\* default list left alone.
apply_suites(c, suites) ==
  LET lists == split_for_aws_lc(suites) IN
  IF suites = <<>> THEN c
  ELSE [c EXCEPT !.off = @ \cup {v \in {12, 13} : lists[v - 11] = <<>>},
                 !.tls12 = IF lists[1] = <<>> THEN @ ELSE lists[1],
                 !.tls13 = IF lists[2] = <<>> THEN @ ELSE lists[2]]

\* named_group::apply_to_ctx.
apply_groups(c, groups) == IF groups = <<>> THEN c ELSE [c EXCEPT !.groups = groups]

\* ClientAuthMode as the flags of SSL_CTX_set_verify.
verify_flags(mode) ==
  CASE mode = "None" -> "none" [] mode = "Optional" -> "peer" [] mode = "Required" -> "require"

\* Roots: only Roots::Disabled turns verification off.
verify_roots(roots) == IF roots = "Disabled" THEN "none" ELSE "peer"

-----------------------------------------------------------------------------
(* ALPN.                                                                   *)

\* Mutant: the length is cast to a byte, unchecked.
encode_ok_cast(protos) == TRUE

\* Whether encode_alpn_wire takes the list.
encode_ok(protos) == \A i \in DOMAIN protos : Len(protos[i]) \in 1..MaxProto

u8(n) == n % (MaxProto + 1)

\* The length is pushed as one byte, and then the protocol.
encode_alpn_wire(protos) ==
  LET out[i \in 0..Len(protos)] ==
        IF i = 0 THEN <<>>
        ELSE Append(out[i - 1], u8(Len(protos[i]))) \o protos[i]
  IN out[Len(protos)]

\* The protocols of an encoded list, up to the first that is cut short.
iter_alpn_wire(wire) ==
  LET from[i \in 1..(Len(wire) + 1)] ==
        IF i > Len(wire) \/ i + wire[i] > Len(wire) THEN <<>>
        ELSE <<SubSeq(wire, i + 1, i + wire[i])>> \o from[i + wire[i] + 1]
  IN from[1]

\* The first of the server's protocols that the client offers; to have none is fatal.
alpn_select_cb(server, client) ==
  First(iter_alpn_wire(server), Range(iter_alpn_wire(client)))

-----------------------------------------------------------------------------
(* The builders.                                                           *)

server_ctx(b) ==
  [apply_groups(apply_suites(ktls_aead_only(set_versions(NewCtx, b), b), b.cipher_suites), b.named_groups)
   EXCEPT !.verify = verify_flags(b.client_auth), !.alpn = encode_alpn_wire(b.alpn_protocols)]

client_ctx(b) ==
  [apply_groups(apply_suites(set_versions(NewCtx, b), b.cipher_suites), b.named_groups)
   EXCEPT !.verify = verify_roots(b.roots), !.alpn = encode_alpn_wire(b.alpn_protocols)]

Built(s, c, next) ==
  /\ pc = s
  /\ \/ /\ encode_ok(told[s].alpn_protocols)
        /\ ctx' = [ctx EXCEPT ![s] = c] /\ pc' = next /\ UNCHANGED <<told, asked, sni, target, agreed>>
     \/ (~encode_ok(told[s].alpn_protocols) \/ "call" \in Faults) /\ Fail

finish == Built("server", server_ctx(told["server"]), "client")
build == Built("client", client_ctx(told["client"]), "built")

-----------------------------------------------------------------------------
(* The client's connection.                                                *)

\* The name libssl will look for: an IP SAN or a DNS SAN.
set1_host(name) == name

\* connect: only what parses as an IpAddr is kept out of the SNI.
connect(by, host, name) ==
  \/ /\ name \notin {"empty", "nul"}
     /\ asked' = [by |-> by, host |-> host]
     /\ sni' = IF name = "ip" THEN "none" ELSE name
     /\ target' = set1_host(name)
     /\ pc' = "ready" /\ UNCHANGED <<told, ctx, agreed>>
  \/ (name \in {"empty", "nul"} \/ "call" \in Faults) /\ Fail

\* Mutant: an IPv6 literal keeps its brackets.
strip_brackets_kept(h) == h

strip_brackets(h) == IF h = "[ip]" THEN "ip" ELSE h

\* HttpsConnector::call: the host of the URI, in which no NUL can be, if its
\* scheme is https.
call ==
  /\ pc = "built"
  /\ \/ \E h \in Hosts \ {"nul"}, scheme \in {"https", "http"} :
          \/ scheme = "https" /\ connect("uri", h, strip_brackets(h))
          \/ scheme = "http" /\ Fail
     \/ Fail          \* no host, or no TCP connection

\* TlsConnector::connect, with a name of the application's.
direct == pc = "built" /\ \E h \in Hosts : connect("name", h, h)

-----------------------------------------------------------------------------
(* libssl's negotiation.                                                   *)

Versions(c) == {v \in c.min..c.max : v \notin c.off}
Offered(c, v) == IF v = 13 THEN c.tls13 ELSE c.tls12
SuitesFor(v, key) ==
  First(Offered(ctx["server"], v), {s \in Range(Offered(ctx["client"], v)) : s.auth \in {"any", key}})
GroupsFor(v) ==
  First(ctx["server"].groups, {g \in Range(ctx["client"].groups) : v = 13 \/ g \notin Hybrid})

\* A side lets its peer pass that showed a good certificate, a bad one or none.
Passes(flags, shown) == flags = "none" \/ shown = "good" \/ (flags = "peer" /\ shown = "none")

\* The client's certificate, shown only if the server asks for one.
Shown ==
  IF ctx["server"].verify = "none" \/ told["client"].client_auth = "None" THEN {"none"} ELSE {"good", "bad"}

SSL_do_handshake ==
  /\ pc = "ready"
  /\ LET both == Versions(ctx["server"]) \cap Versions(ctx["client"])
         offers == ctx["server"].alpn # <<>> /\ ctx["client"].alpn # <<>>
         protos == IF offers THEN alpn_select_cb(ctx["server"].alpn, ctx["client"].alpn) ELSE {<<>>}
     IN \/ \E v \in both, key \in {"rsa", "ecdsa"}, covers \in {{"dns"}, {"ip"}},
             server \in {"good", "bad"}, client \in Shown :
             /\ \A w \in both : w <= v
             /\ Passes(ctx["client"].verify, server) /\ Passes(ctx["server"].verify, client)
             /\ ctx["client"].verify # "none" /\ target # "none" => target \in covers
             /\ \E suite \in SuitesFor(v, key), group \in GroupsFor(v), alpn \in protos :
                  agreed' = [version |-> v, suite |-> suite.id, group |-> group, alpn |-> alpn,
                             covers |-> covers, server |-> server, client |-> client]
             /\ pc' = "done" /\ UNCHANGED <<told, ctx, asked, sni, target>>
        \/ Fail

-----------------------------------------------------------------------------
(* The session as a stream shows it.                                       *)

\* NegotiatedSession::from_ssl: the protocol is an Option, None if empty.
negotiated(s) ==
  [version |-> agreed.version, cipher |-> agreed.suite,
   alpn |-> {agreed.alpn} \ {<<>>},
   sni |-> IF s = "server" THEN sni ELSE "none"]

\* KtlsEligibility::from_ssl.
is_compatible ==
  Keys!from_ids(IF agreed.version = 13 THEN "1.3" ELSE "1.2", agreed.suite) # "none"

\* Connection::connected, which picks hyper's protocol.
connected == IF negotiated("client").alpn = {H2} THEN "h2" ELSE "http1"

-----------------------------------------------------------------------------
Next ==
  server_set \/ client_set \/ finish \/ build \/ call \/ direct \/ SSL_do_handshake

Spec == Init /\ [][Next]_vars

-----------------------------------------------------------------------------
(* Properties.                                                             *)

Listed(set, x) == set # {} => x \in set

(* A handshake that ends well has kept to what both builders were told: a  *)
(* list of cipher suites or of groups is an allowlist for both versions,   *)
(* the version is within both sides' bounds, ktls_aead_only leaves only    *)
(* sessions that kTLS can take over, and each side has the proof of its    *)
(* peer it asked for (finish, build, both apply_to_ctx).                   *)
NegotiatedAsTold ==
  pc = "done" =>
    /\ \A s \in Side :
         /\ Listed({x.id : x \in Range(told[s].cipher_suites)}, agreed.suite)
         /\ Listed(Range(told[s].named_groups), agreed.group)
         /\ told[s].min_version # 0 => agreed.version >= told[s].min_version
         /\ told[s].max_version # 0 => agreed.version <= told[s].max_version
    /\ told["server"].ktls_aead_only => is_compatible
    /\ told["client"].roots # "Disabled" => agreed.server = "good"
    /\ told["server"].client_auth = "Required" => agreed.client = "good"
    /\ told["server"].client_auth = "Optional" => agreed.client # "bad"

(* A handshake in which both sides have an ALPN list ends with the first   *)
(* of the server's protocols that the client offers, and with no stream if *)
(* there is none; hyper speaks HTTP/2 exactly if that is h2                *)
(* (alpn_select_cb over the encoded lists, NegotiatedSession, connected).  *)
AlpnIsServersChoice ==
  pc = "done" =>
    LET server == told["server"].alpn_protocols
        client == told["client"].alpn_protocols
        alpn == negotiated("client").alpn
    IN IF server = <<>> \/ client = <<>> THEN alpn = {} /\ connected = "http1"
       ELSE \E i \in DOMAIN server :
              /\ alpn = {server[i]} /\ server[i] \in Range(client)
              /\ \A j \in 1..(i - 1) : server[j] \notin Range(client)
              /\ connected = (IF server[i] = H2 THEN "h2" ELSE "http1")

\* The name that was meant: in a URI, brackets are how an IPv6 address is
\* written; a name is taken as it is.
Meant == IF asked.by = "uri" /\ asked.host = "[ip]" THEN "ip" ELSE asked.host

(* A client that verifies its server hands out a stream only if the        *)
(* certificate covers the host of the URI or the name it was asked for;    *)
(* the server sees that name as SNI, and none if it is an IP address, so   *)
(* the IPv6 literal of a URI neither is looked for nor goes out in its     *)
(* brackets (connect, call).                                               *)
NameIsVerified ==
  pc = "done" =>
    /\ told["client"].roots # "Disabled" => Meant \in agreed.covers
    /\ negotiated("server").sni = IF Meant = "ip" THEN "none" ELSE Meant

=============================================================================
