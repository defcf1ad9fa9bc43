------------------------------- MODULE Handles -------------------------------
(***************************************************************************)
(* Who owns what behind the crate's pointers.  A thread builds one         *)
(* configuration (ServerConfigBuilder::with_pem_files, with_pem_bytes,     *)
(* with_der_bytes and finish, or ClientConfigBuilder::build): it loads     *)
(* certificates, roots and a key into an SSL_CTX.  Connections are then    *)
(* made from it, look at their peer's certificate and go, before or after  *)
(* the configuration.  Every object of libssl carries its reference count; *)
(* every call may fail.  The thread's error queue is part of the state.    *)
(***************************************************************************)
EXTENDS Integers, Sequences, FiniteSets

CONSTANTS
  Bundles,        \* what a loader is given: sequences of "good", "bad", "other"
  MaxItems,       \* bound on their length
  Stale,          \* error queues the thread may come with
  Conns,          \* connections made from the configuration
  Faults          \* "call": any call of libssl may fail

ASSUME ConstantsAssumption ==
  /\ MaxItems \in Nat \ {0} /\ IsFiniteSet(Conns) /\ Faults \subseteq {"call"}
  /\ \A b \in Bundles : b \in Seq({"good", "bad", "other"}) /\ Len(b) <= MaxItems
  /\ \A q \in Stale : q \in Seq({"NO_START_LINE", "ASN1", "PEM_LIB", "SSL"})

VARIABLES
  side, pc,       \* whose builder; its step, then "built", "failed", "dropped"
  job, form,      \* what is being loaded, and its encoding
  input, at,      \* the items given, the next one
  ok,             \* what the call that was handed the local object returned
  errq,           \* the thread's error queue
  refs,           \* the reference count of every object
  local,          \* objects that a local variable or guard stands for
  kept,           \* objects that the SSL_CTX refers to
  ssl             \* per connection: "none", "new", "wired", "plain", "certified", "gone"

loadVars == <<job, form, input, at>>
vars == <<side, pc, loadVars, ok, errq, refs, local, kept, ssl>>

Ctx == <<"ctx", 0>>
Bio == <<"bio", 0>>
Key == <<"key", 0>>
Alpn == <<"alpn", 0>>
Certs == {"chain", "roots"} \X (1..MaxItems)
Ssl(c) == <<"ssl", c>>
Sock(c) == <<"sock", c>>
PeerCert(c) == <<"peer", c>>
Obj == {Ctx, Bio, Key, Alpn} \cup Certs \cup ({"ssl", "sock", "peer"} \X Conns)

Init ==
  /\ side \in {"server", "client"} /\ pc = "new" /\ errq \in Stale
  /\ job = "none" /\ form = "none" /\ input = <<>> /\ at = 1 /\ ok = TRUE
  /\ refs = [o \in Obj |-> 0] /\ local = {} /\ kept = {}
  /\ ssl = [c \in Conns |-> "none"]

-----------------------------------------------------------------------------
(* Reference counts.                                                       *)

Add(r, S) == [o \in Obj |-> IF o \in S THEN r[o] + 1 ELSE r[o]]
Drop(r, S) == [o \in Obj |-> IF o \in S THEN r[o] - 1 ELSE r[o]]

\* SslCtx::drop: the last reference to the context takes with it what it keeps, the
\* ALPN list (alpn_ex_free) included.
SSL_CTX_free(r) == IF r[Ctx] = 1 THEN Drop(r, {Ctx} \cup kept) ELSE Drop(r, {Ctx})
Kept(r) == IF r[Ctx] = 1 THEN {} ELSE kept

\* What is freed by leaving its scope: BioGuard.
guards == local \cap {Bio}

-----------------------------------------------------------------------------
(* Ends of a step.                                                         *)

\* `?` or return Err, after `freed` was freed by hand: the scopes are left, and the
\* builder drops its SslCtx.
Fail(freed, q) ==
  /\ pc' = "failed" /\ errq' = q
  /\ refs' = SSL_CTX_free(Drop(refs, freed \cup guards)) /\ kept' = Kept(refs) /\ local' = {}
  /\ job' = "none" /\ form' = "none" /\ input' = <<>> /\ at' = 1 /\ ok' = TRUE
  /\ UNCHANGED <<side, ssl>>

\* An error whose text is taken from the queue, which is drained.
last_error(freed) == Fail(freed, <<>>)

\* An error that never looks at the queue.
Reject(freed) == Fail(freed, errq)

call_failed == "call" \in Faults /\ last_error({})

\* A loader begins.
Begin(j, f, step) ==
  /\ job' = j /\ form' = f /\ at' = 1 /\ pc' = step
  /\ input' \in (IF j = "key" THEN {b \in Bundles : Len(b) = 1} ELSE Bundles)

\* Where the builder goes on behind a loader.
After ==
  CASE job = "chain" -> "key"
    [] job = "key" -> "check"
    [] job = "roots" -> IF side = "server" THEN "alpn" ELSE "mtls"

\* A loader returns Ok after `freed` was freed by hand.
Return(freed, q) ==
  /\ pc' = After /\ errq' = q /\ refs' = Drop(refs, freed \cup guards) /\ local' = {}
  /\ input' = <<>> /\ at' = 1 /\ ok' = TRUE
  /\ UNCHANGED <<side, job, form, kept, ssl>>

-----------------------------------------------------------------------------
(* Contexts and what is loaded into them.                                  *)

NewCtx == refs' = Add(refs, {Ctx})

\* SSL_CTX_new returned NULL.
NoCtx == "call" \in Faults /\ pc' = "failed" /\ errq' = <<>> /\ UNCHANGED <<loadVars, refs>>

new_server_ctx ==
  /\ pc = "new" /\ side = "server"
  /\ \/ /\ \E f \in {"pem", "der"} : Begin("chain", f, "open")
        /\ NewCtx /\ UNCHANGED errq
     \/ Begin("chain", "file", "paths") /\ NewCtx /\ UNCHANGED errq
     \/ NoCtx
  /\ UNCHANGED <<side, ok, local, kept, ssl>>

new_client_ctx ==
  /\ pc = "new" /\ side = "client"
  /\ \/ /\ \E f \in {"pem", "der"} : Begin("roots", f, "open")
        /\ NewCtx /\ UNCHANGED errq
     \/ pc' = "system" /\ NewCtx /\ UNCHANGED <<loadVars, errq>>
     \/ pc' = "mtls" /\ NewCtx /\ UNCHANGED <<loadVars, errq>>    \* Roots::Disabled
     \/ NoCtx
  /\ UNCHANGED <<side, ok, local, kept, ssl>>

Goto(step) == pc' = step /\ UNCHANGED <<side, loadVars, ok, errq, refs, local, kept, ssl>>

\* Roots::System.
set_default_verify_paths == pc = "system" /\ (Goto("mtls") \/ call_failed)

\* build: a client may have a certificate to present.
client_auth ==
  /\ pc = "mtls"
  /\ \/ /\ \E f \in {"pem", "der"} : Begin("chain", f, "open")
        /\ UNCHANGED <<side, ok, errq, refs, local, kept, ssl>>
     \/ Goto("settings")

\* load_private_key_* follows load_cert_chain_*, with an input of its own.
private_key ==
  /\ pc = "key" /\ Begin("key", form, IF form = "file" THEN "key_file" ELSE "open")
  /\ UNCHANGED <<side, ok, errq, refs, local, kept, ssl>>

\* with_pem_files: both paths are converted before either file is touched.
path_to_cstring == pc = "paths" /\ (Goto("chain_file") \/ Reject({}))

\* libssl opens and reads the files itself.
use_certificate_chain_file ==
  /\ pc = "chain_file"
  /\ \/ /\ \E i \in DOMAIN input : input[i] = "good"
        /\ \A i \in DOMAIN input : input[i] # "bad"
        /\ LET all == {<<job, i>> : i \in {k \in DOMAIN input : input[k] = "good"}} IN
             refs' = Add(refs, all) /\ kept' = kept \cup all
        /\ pc' = "key" /\ input' = <<>> /\ at' = 1
        /\ UNCHANGED <<side, job, form, ok, errq, local, ssl>>
     \/ last_error({})

use_PrivateKey_file ==
  /\ pc = "key_file"
  /\ \/ /\ input[1] = "good"
        /\ refs' = Add(refs, {Key}) /\ kept' = kept \cup {Key}
        /\ pc' = "check" /\ input' = <<>> /\ at' = 1
        /\ UNCHANGED <<side, job, form, ok, errq, local, ssl>>
     \/ last_error({})

-----------------------------------------------------------------------------
(* The loaders over memory.                                                *)

\* BIO_new_mem_buf for PEM; a list of DER certificates must not be empty; the store.
open_input ==
  /\ pc = "open"
  /\ \/ /\ form = "pem" /\ pc' = "read"
        /\ refs' = Add(refs, {Bio}) /\ local' = {Bio}
        /\ UNCHANGED <<side, loadVars, ok, errq, kept, ssl>>
     \/ form = "pem" /\ call_failed
     \/ form = "der" /\ (job # "key" => input # <<>>) /\ Goto("read")
     \/ form = "der" /\ job # "key" /\ input = <<>> /\ Reject({})

\* SSL_CTX_get_cert_store returned NULL.
no_cert_store == pc = "read" /\ job = "roots" /\ at = 1 /\ "call" \in Faults /\ Reject({})

\* What PEM_read_bio_* comes to next: it passes over everything else.
pem_rest == {i \in at..Len(input) : input[i] # "other"}
pem_next == CHOOSE i \in pem_rest : \A k \in pem_rest : i <= k
pem_good == pem_rest # {} /\ input[pem_next] = "good"

\* The queue after a read that returned NULL.
pem_errors == errq \o (IF pem_rest = {} THEN <<"NO_START_LINE">> ELSE <<"ASN1", "PEM_LIB">>)

\* Mutants: the oldest entry is looked at; the end of the bundle stays queued.
pem_eof_or_err_oldest(q) == [eof |-> q = <<>> \/ Head(q) = "NO_START_LINE", queue |-> <<>>]
pem_eof_or_err_undrained(q) ==
  LET eof == q = <<>> \/ q[Len(q)] = "NO_START_LINE"
  IN [eof |-> eof, queue |-> IF eof THEN q ELSE <<>>]

\* Whether a NULL was the end of the bundle, by the entry queued last.
pem_eof_or_err(q) == [eof |-> q = <<>> \/ q[Len(q)] = "NO_START_LINE", queue |-> <<>>]

\* The object for item i of the input, and the one that was read last.
Item(i) == IF job = "key" THEN Key ELSE <<job, i>>
item == Item(at - 1)

\* Mutant: the reader goes one item too far.
Read_skips(i, step) ==
  /\ refs' = Add(refs, {Item(i)}) /\ local' = local \cup {Item(i)}
  /\ at' = i + 2 /\ pc' = step
  /\ UNCHANGED <<side, job, form, input, ok, errq, kept, ssl>>

Read(i, step) ==
  /\ refs' = Add(refs, {Item(i)}) /\ local' = local \cup {Item(i)}
  /\ at' = i + 1 /\ pc' = step
  /\ UNCHANGED <<side, job, form, input, ok, errq, kept, ssl>>

\* The leaf of a chain is still to come.
First == job = "chain" /\ ~\E i \in 1..MaxItems : <<job, i>> \in kept
NoRoots == job = "roots" /\ ~\E i \in 1..MaxItems : <<job, i>> \in kept

Reading(s, j, f) == pc = "read" /\ side = s /\ job = j /\ form = f
read_next == pem_good /\ Read(pem_next, "install")
read_first == read_next \/ (~pem_good /\ last_error({}))

\* PEM_read_bio_X509 until it returns NULL; roots must not be none.
read_rest ==
  \/ read_next
  \/ /\ ~pem_good
     /\ LET r == pem_eof_or_err(pem_errors) IN
          \/ r.eof /\ ~NoRoots /\ Return({}, r.queue)
          \/ r.eof /\ NoRoots /\ Fail({}, r.queue)
          \/ ~r.eof /\ last_error({})

read_chain == IF First THEN read_first ELSE read_rest

load_cert_chain_pem == Reading("server", "chain", "pem") /\ read_chain
load_private_key_pem == Reading("server", "key", "pem") /\ read_first
load_client_ca_roots_pem == Reading("server", "roots", "pem") /\ read_rest
load_client_cert_chain_pem == Reading("client", "chain", "pem") /\ read_chain
load_client_private_key_pem == Reading("client", "key", "pem") /\ read_first
load_trust_anchors_pem == Reading("client", "roots", "pem") /\ read_rest

\* The next object of a list, or the end.  "other" is empty, or has bytes behind the
\* object.
parse ==
  \/ at <= Len(input) /\ input[at] = "good" /\ Read(at, "install")
  \/ at <= Len(input) /\ input[at] = "bad" /\ last_error({})
  \/ at <= Len(input) /\ input[at] = "other" /\ Reject({})
  \/ at <= Len(input) /\ input[at] = "other" /\ Read(at, "trailing")

parse_private_key == parse
parse_x509 == parse \/ (at > Len(input) /\ Return({}, errq))

load_cert_chain_der == Reading("server", "chain", "der") /\ parse_x509
load_private_key_der == Reading("server", "key", "der") /\ parse_private_key
load_client_cert_chain_der == Reading("client", "chain", "der") /\ parse_x509
load_client_private_key_der == Reading("client", "key", "der") /\ parse_private_key
load_trust_anchors_der == Reading("client", "roots", "der") /\ parse_x509

\* Mutant: the object with bytes behind it is forgotten.
trailing_data_leaked == pc = "trailing" /\ Reject({})

trailing_data == pc = "trailing" /\ Reject({item})

\* Whether SSL_CTX_add0_chain_cert gets the object; the others take a reference.
add0 == job = "chain" /\ ~First

\* Mutant: a certificate that add0_chain_cert took over is freed like the others.
install_always_freed ==
  /\ pc = "install"
  /\ kept' = kept \cup {item} /\ ok' = TRUE /\ pc' = "free"
  /\ refs' = IF add0 THEN refs ELSE Add(refs, {item})
  /\ UNCHANGED <<side, loadVars, errq, ssl, local>>

\* SSL_CTX_use_certificate, SSL_CTX_add0_chain_cert, X509_STORE_add_cert or
\* SSL_CTX_use_PrivateKey.
install ==
  /\ pc = "install"
  /\ \/ /\ ~add0 /\ refs' = Add(refs, {item}) /\ kept' = kept \cup {item}
        /\ ok' = TRUE /\ pc' = "free" /\ UNCHANGED local
     \/ /\ add0 /\ kept' = kept \cup {item} /\ local' = local \ {item}
        /\ ok' = TRUE /\ pc' = "read" /\ UNCHANGED refs
     \/ /\ "call" \in Faults /\ ok' = FALSE /\ pc' = "free"
        /\ UNCHANGED <<refs, local, kept>>
  /\ UNCHANGED <<side, loadVars, errq, ssl>>

\* X509_free or EVP_PKEY_free, and only then a look at what the call returned.
free_local ==
  /\ pc = "free"
  /\ \/ /\ ok /\ job # "key"
        /\ refs' = Drop(refs, {item}) /\ local' = local \ {item} /\ pc' = "read"
        /\ UNCHANGED <<side, loadVars, ok, errq, kept, ssl>>
     \/ ok /\ job = "key" /\ Return({item}, errq)
     \/ ~ok /\ last_error({item})

-----------------------------------------------------------------------------
(* The rest of a build.                                                    *)

check_private_key == pc = "check" /\ (Goto("settings") \/ last_error({}))

\* Versions, cipher suites, groups; a server that asks for certificates loads its roots.
settings ==
  /\ pc = "settings"
  /\ \/ Goto("alpn")
     \/ /\ side = "server" /\ Begin("roots", "pem", "open")
        /\ UNCHANGED <<side, ok, errq, refs, local, kept, ssl>>
     \/ call_failed

\* encode_alpn_wire may refuse; SSL_CTX_set_alpn_protos copies the client's list.
set_alpn ==
  /\ pc = "alpn"
  /\ \/ Goto("built")
     \/ Reject({})
     \/ side = "client" /\ call_failed
     \/ /\ side = "server" /\ pc' = "ex_data"
        /\ refs' = Add(refs, {Alpn}) /\ local' = {Alpn}
        /\ UNCHANGED <<side, loadVars, ok, errq, kept, ssl>>

\* SSL_CTX_set_ex_data: the context owns the list, or the Box is taken back.
install_alpn_wire ==
  /\ pc = "ex_data"
  /\ \/ /\ kept' = kept \cup {Alpn} /\ local' = {} /\ pc' = "built"
        /\ UNCHANGED <<side, loadVars, ok, errq, refs, ssl>>
     \/ "call" \in Faults /\ last_error({Alpn})

-----------------------------------------------------------------------------
(* Connections.                                                            *)

SetSsl(c, s) == ssl' = [ssl EXCEPT ![c] = s] /\ UNCHANGED <<side, pc, loadVars, ok>>
Live == {c \in Conns : ssl[c] \notin {"none", "gone"}}

\* What SSL_free releases beside the context.
Inside(c) ==
  {Ssl(c)} \cup (IF ssl[c] # "new" THEN {Sock(c)} ELSE {})
           \cup (IF ssl[c] = "certified" THEN {PeerCert(c)} ELSE {})

\* SSL_new takes a reference to the context.
new_ssl(c) ==
  /\ pc = "built" /\ ssl[c] = "none"
  /\ \/ SetSsl(c, "new") /\ refs' = Add(refs, {Ctx, Ssl(c)}) /\ UNCHANGED errq
     \/ "call" \in Faults /\ errq' = <<>> /\ UNCHANGED <<side, pc, loadVars, ok, refs, ssl>>
  /\ UNCHANGED <<local, kept>>

\* SSL_set_bio takes the BIO over.
attach_socket_bio(c) ==
  /\ ssl[c] = "new"
  /\ SetSsl(c, "wired") /\ refs' = Add(refs, {Sock(c)})
  /\ UNCHANGED <<errq, local, kept>>

\* The handshake is over; the session may hold the peer's certificate.
drive_handshake(c) ==
  /\ ssl[c] = "wired"
  /\ \/ SetSsl(c, "plain") /\ UNCHANGED refs
     \/ SetSsl(c, "certified") /\ refs' = Add(refs, {PeerCert(c)})
  /\ UNCHANGED <<errq, local, kept>>

\* has_peer_certificate and peer_certificate_der hold a reference while they look.
peer_certificate(c) ==
  /\ ssl[c] = "certified" /\ PeerCert(c) \notin local
  /\ refs' = Add(refs, {PeerCert(c)}) /\ local' = local \cup {PeerCert(c)}
  /\ UNCHANGED <<side, pc, loadVars, ok, errq, kept, ssl>>

\* Done looking, or i2d_X509 failed.
peer_certificate_end(c) ==
  /\ PeerCert(c) \in local
  /\ refs' = Drop(refs, {PeerCert(c)}) /\ local' = local \ {PeerCert(c)}
  /\ errq' \in {errq} \cup (IF "call" \in Faults THEN {<<>>} ELSE {})
  /\ UNCHANGED <<side, pc, loadVars, ok, kept, ssl>>

\* Ssl::drop, at the end of a stream, on an early return of connect or accept, or with
\* their futures.
drop_ssl(c) ==
  /\ c \in Live /\ PeerCert(c) \notin local
  /\ refs' = SSL_CTX_free(Drop(refs, Inside(c))) /\ kept' = Kept(refs)
  /\ SetSsl(c, "gone") /\ errq' \in {errq, <<>>} /\ UNCHANGED local

\* The last Arc of the configuration.
drop_config ==
  /\ pc = "built" /\ pc' = "dropped"
  /\ refs' = SSL_CTX_free(refs) /\ kept' = Kept(refs)
  /\ UNCHANGED <<side, loadVars, ok, errq, local, ssl>>

-----------------------------------------------------------------------------
Load ==
  \/ new_server_ctx \/ new_client_ctx \/ set_default_verify_paths \/ client_auth \/ private_key
  \/ path_to_cstring \/ use_certificate_chain_file \/ use_PrivateKey_file
  \/ open_input \/ no_cert_store
  \/ load_cert_chain_pem \/ load_private_key_pem \/ load_client_ca_roots_pem
  \/ load_client_cert_chain_pem \/ load_client_private_key_pem \/ load_trust_anchors_pem
  \/ load_cert_chain_der \/ load_private_key_der
  \/ load_client_cert_chain_der \/ load_client_private_key_der \/ load_trust_anchors_der
  \/ trailing_data \/ install \/ free_local
  \/ check_private_key \/ settings \/ set_alpn \/ install_alpn_wire

Use ==
  \/ drop_config
  \/ \E c \in Conns :
       \/ new_ssl(c) \/ attach_socket_bio(c) \/ drive_handshake(c)
       \/ peer_certificate(c) \/ peer_certificate_end(c) \/ drop_ssl(c)

Next == Load \/ Use

Spec == Init /\ [][Next]_vars

-----------------------------------------------------------------------------
(* Properties.                                                             *)

TypeOK ==
  /\ side \in {"server", "client"} /\ ok \in BOOLEAN
  /\ pc \in {"new", "system", "mtls", "paths", "chain_file", "key_file", "open", "read", "trailing",
             "install", "free", "key", "check", "settings", "alpn", "ex_data",
             "built", "failed", "dropped"}
  /\ job \in {"none", "chain", "key", "roots"} /\ form \in {"none", "pem", "der", "file"}
  /\ input \in Bundles \cup {<<>>} /\ at \in 1..(Len(input) + 1)
  /\ refs \in [Obj -> Int] /\ local \subseteq Obj /\ kept \subseteq Obj
  /\ ssl \in [Conns -> {"none", "new", "wired", "plain", "certified", "gone"}]

\* How many still stand for an object: a local, the context, a connection; for the
\* context, the builder or the configuration and every connection.
One(b) == IF b THEN 1 ELSE 0
Owners(o) ==
  One(o \in local) + One(o \in kept) + One(\E c \in Live : o \in Inside(c))
    + (IF o = Ctx THEN One(pc \notin {"new", "failed", "dropped"}) + Cardinality(Live) ELSE 0)

(* Nothing leaks: no object counts more references than there are owners   *)
(* left, whichever call of a loader fails and in whatever order the        *)
(* configuration and its connections go (load_*, parse_*, BioGuard,        *)
(* install_alpn_wire, the Drop impls of ffi.rs).                           *)
NothingLeaks == \A o \in Obj : refs[o] <= Owners(o)

(* Nothing dangles: whoever still stands for an object has a reference to  *)
(* it, so that no object is freed twice or used after it was freed; the    *)
(* ALPN list outlives every connection that may call back for it.          *)
NothingDangles == \A o \in Obj : refs[o] >= Owners(o)

\* The items of the input that the context has got, and those it should have.
InCtx == {i \in DOMAIN input : <<job, i>> \in kept}
Whole ==
  /\ InCtx = {i \in DOMAIN input : input[i] = "good"} /\ InCtx # {}
  /\ \A i \in DOMAIN input : input[i] # "bad" /\ (form = "der" => input[i] = "good")

(* A loader succeeds only with every certificate it was given: a bundle    *)
(* whose tail does not parse is refused, whatever an earlier call has left *)
(* on the error queue (load_*_pem, load_*_der, pem_eof_or_err).            *)
WholeBundle == [][(pc = "read" /\ pc' = After) => Whole]_vars

(* No call leaves anything of its own on the thread's error queue, where   *)
(* the next failing call would report it (last_error, pem_eof_or_err).     *)
NoResidue == errq \in Stale \cup {<<>>}

=============================================================================
