# A TLA+ model of tokio-aws-lc

tokio-aws-lc is a TLS stream for tokio over AWS-LC's libssl, with an optional
move of an established session into the Linux kernel (kTLS). This directory
models what is stateful in it, checks the models with TLC on small instances,
and proves their safety with TLAPS for every value of their constants.

## The system

| part | source | state | operations | interacts with |
|---|---|---|---|---|
| userspace stream | `stream.rs` | `pending_write`, `write_error`, `shutdown`, `waiters` | `poll_read`, `poll_write`, `poll_flush`, `poll_shutdown`, `poll_pending_write`, `poll_ssl_ready` | libssl, tokio readiness, the two tasks of a split stream |
| kTLS reader | `ktls/io.rs` | `alert`, `alert_len`, `terminal` | `poll_read`, `recv_record`, `consume`, `consume_alert` | the kernel's `recvmsg`, tokio readiness |
| kTLS writer, close | `stream.rs`, `ktls/io.rs` | `shutdown`, `write_error` | `ktls_poll_write`, `poll_close_notify`, `poll_shutdown` | the kernel's `write`/`sendmsg`, tokio readiness |
| kTLS installation | `stream.rs`, `ktls/mod.rs` | `ktls_active`, the socket's ULP, RX, TX | `try_auto_install_ktls`, `install_ktls`, `install_rx_then_tx` | libssl's buffers and sequence numbers, the peer |
| kTLS keys | `ktls/cipher.rs`, `derive.rs`, `mod.rs` | none (pure) | `from_ids`, `derive_crypto_info`, `split_tls12_key_block` | installation |
| handshake | `stream.rs`, `connector.rs`, `acceptor.rs` | the future of `connect`/`accept` | `connect`, `accept`, `drive_handshake` | libssl, tokio readiness, the peer |
| configuration, named groups | `config/*.rs` | the fields of both builders, then the `SSL_CTX` | every setter, `finish`, `build`, `alpn_select_cb`, the host name set by `connect` | a later handshake |
| session inspection, hyper | `session.rs`, `hyper.rs` | none | `NegotiatedSession`, `KtlsEligibility`, `HttpsConnector::call`, `connected` | what was negotiated |
| loaders, errors, FFI handles | `config/server.rs`, `config/client.rs`, `config/der.rs`, `error.rs`, `ffi.rs` | reference counts, the thread's error queue, the ALPN list in `ex_data` | `load_*`, `parse_*`, `last_error`, `pem_eof_or_err`, drops | libssl, connections that outlive a configuration |

What makes it hard: two tasks share one libssl session and one waker per
direction; libssl sees `EAGAIN` behind tokio's back, so the cached readiness bit
is cleared by hand, in a step of its own; a write that blocks is already
committed; futures are dropped at any await; a move to the kernel takes several
system calls, any of which may fail, while the peer may already be sending.

## Modules

| module | what it is |
|---|---|
| `OutboundStream` | the contract of a write half: accepted bytes reach the transport once, in order, at most one chunk late, close_notify last |
| `TlsStream` | the userspace stream, two halves under the lock of `tokio::io::split`, libssl, the socket, the driver, the peer |
| `InboundStream` | the contract of a read half: the wire's bytes in order, the end only at the close_notify and for good |
| `Readiness` | tokio's cached readiness of one socket, as `try_io` and `poll_*_ready` use it (external) |
| `RecordReader` | the kTLS reader over `Readiness` and the kernel's records; it implements `InboundStream` |
| `KtlsWriter` | the kTLS write half over `Readiness`; it too implements `OutboundStream`, with nothing held back |
| `KtlsKeys`, `KtlsInstall` | the key material, and two endpoints that install it, or fail to, while they exchange records |
| `Handshake` | `connect` and `accept` of two endpoints; composes two instances of the readiness of a socket in one `INSTANCE Readiness` over (endpoint, direction) |
| `Config` | two builders, told anything in any order, then a handshake between their contexts for any host, and what is read back from it |
| `Handles` | one configuration that is built, with every loader and every failing call, and the connections made from it: who owns what behind the pointers, and the error queue |
| `*Proofs` | the theorems of `TlsStream`, `KtlsWriter`, `RecordReader`, `Handshake`, `KtlsInstall`, `Config` and `Handles` (the last in two modules: `HandlesLoadProofs` has the invariant and the loaders). `KtlsWriterProofs` also joins a write half and a read half that share a wire |
| `MC*` | constants for TLC |

Variables keep the names of the fields they stand for. `pc` says where a poll
stands; a poll is cut into steps at every point where the kernel, the peer or
tokio's driver can change what it sees next: each system or libssl call, each
look at a readiness bit, each clearing of one. A `Cancel` action is a dropped
future. `woken` is the executor's promise to poll a task again. The driver sets
a bit and wakes a task in two steps. A byte is its position in the
application's stream, so that losing, doubling or reordering one is visible;
close_notify is 0. A read or write with an empty buffer ends before anything
else is looked at (`poll_empty`), so it is the one call that succeeds after a
latched error.

libssl, tokio, the kernel and the peer are modelled from how the code uses them.
libssl commits to the bytes of a blocked `SSL_write`, refuses others, and may
have to finish an exchange of its own, sending before receiving, in any call.
`SSL_has_pending`, `SSL_get_*_sequence` and the record layer of `KtlsKeys` are
what the install relies on. In `Handles` a failing PEM read queues its errors
behind what is already there, and an object dies when its count reaches zero.
In `Config` a handshake takes the highest version both contexts allow, and the
first suite and group of the server's that the client offers and the version and
the certificate's key permit. `asked` keeps the host as the application gave it,
with the door it came through: brackets are syntax in the host of a URI, and
`call` strips them, while `connect` takes a name as it is. What was meant is
derived from that (`Meant`) and not from what the code made of it. A wire byte
has its width (`u8`), so a length that does not fit would be read back wrong.

## Runs

Every passing run has, for each of its properties, a mutation of a mapped
definition (the definitions marked *Mutant* in the modules) under which TLC
finds the property violated.

| run | module | checks | bounds and why they are enough |
|---|---|---|---|
| `StreamSafety` | `MCTlsStream` | bytes once and in order, the same bytes retried, nobody asleep on a drained write, a flush means sent, `OutboundStream` is implemented | chunk 2, buffers to 3, 3 bytes: a buffer that needs two chunks; a full send buffer at the start, one inbound record |
| `StreamFailures` | `MCTlsStream` | a latched error stays, is returned by every later call of either half that has a buffer to work on, and wakes everyone | one byte, one record; resets, bad records, bare FIN, the driver going down |
| `StreamFlushLive` | `MCTlsStream` | a parked half has its present waker registered, flushes and shutdowns end | two tasks in turn on each half; blocked from the start |
| `StreamReadLive` | `MCTlsStream` | reads end although the peer never reads | two bytes, so that one is sent and one is stuck |
| `StreamCtlLive` | `MCTlsStream` | flushes and shutdowns end around an exchange of libssl's own | no application data: the exchange is what blocks |
| `Reader` | `MCRecordReader` | order, authentic end of file, split alerts, sticky verdict, wakeups, reads end, `InboundStream` is implemented | budget 2, buffers 0 to 2, two records of every kind, merged or split by `recvmsg`, every fault |
| `Writer` | `MCKtlsWriter` | the contract, nothing behind an alert, shutdown means closed, calls end | budget 2, one record of room, 4 bytes, every fault |
| `Install` | `MCKtlsInstall` | every record opens, both directions or neither, fresh nonces, coalesced records arrive | all suites, every errno class, 2 records each way |
| `InstallRejection` | `MCKtlsInstall` | **violated**, see Findings | one suite of each version |
| `Handshake` | `MCHandshake` | no lost wakeup, no spinning, the handshake ends | a server flight longer than the socket's buffer of one message, so that both directions are waited for; dropped futures, every fault |
| `Config` | `MCConfig` | the negotiated result keeps to what both sides were told, ALPN is the server's choice, the name is verified | for each field, values that agree, conflict and are refused: lists for one version only, a hybrid group, protocols that are empty or too long; every host by URI and by name; prefix limit 2 in place of 255 |
| `Handles` | `MCHandles` | no leak, nothing dangles, a clean error queue, whole bundles | every bundle of up to 3 items, three stale queues, none of which is another with an entry left behind, two connections, any call failing |

`StreamSafety` and the other stream runs divide what one instance cannot hold:
failures, a second task, libssl's exchanges and application data are each
present in a run, but not all in one. The proofs below have no such limit for
the safety properties.

Deadlock is checked except in `Install`, `InstallRejection`, `Handshake`,
`Config` and `Handles`, whose behaviours end: all records delivered, a handshake
over, a configuration and its connections gone.

### Fairness

- A poll that is running goes on, and a task that was woken is polled: the
  executor's contract. For the halves of a split stream the poll also needs the
  split lock, which is free again and again, hence strong fairness. A task that
  was *not* woken is owed nothing, so a lost wakeup is a liveness violation.
- tokio's driver handles every edge.
- Signals do not interrupt every system call (strong fairness of the calls that
  complete, in `Reader` and `Writer`).
- The peer owes nothing by default. `FlushEnds` and `HandshakeEnds` assume, in
  the property itself, that it reads or takes part; `ReadEnds` and `NoBusyLoop`
  do not. `Writer` assumes that the peer drains, `Install` that applications read.

## Findings

`InstallRejection`: the documentation of `ktls_eligibility` (`stream.rs:220`)
says that "Rejections before either direction goes active fall back to
userspace". An errno of `setsockopt(TCP_ULP)` that `classify_ulp_error`
(`ktls/mod.rs:372`) does not list becomes `SetSockOpt`, and
`try_auto_install_ktls` returns it: the connection fails with neither direction
active. The comment on `classify_ulp_error` says the errno "stays generic", so
the code seems intended and the summary too broad.

## Proofs

Each proof module assumes only the `ConstantsAssumption` of the module it
extends. In each, `Invariant` proves an inductive
invariant `IInv` from one lemma per action, and the theorems follow from it. None
of the properties below is inductive by itself; what had to be added, and why:

| module | theorems | the invariant |
|---|---|---|
| `TlsStreamProofs` | `TypeCorrect`, `BytesExactlyOnce`, `RetriesRepeat`, `CloseComesLast`, `NoLostWaker`, `ErrorWakes`, `DrainWakes`, `FlushIsComplete`, `ErrorStaysLatched`, `ImplementsOutbound` | `Control`: one half runs at a time, and the loop a poll is in tells whether something is buffered, and no poll runs with an empty buffer. `Wakeups`: a half about to look at readiness is registered or already woken. `Data`: the wire told by libssl's state instead of by its last element |
| `KtlsWriterProofs` | `TypesHold`, `ImplementsOutbound`, `AlertIsLast`, `ShutdownIsWhole` | `Control`: which step belongs to which call, and that a step which sends has seen `Open` or `Sending` and no error. `Data`: a torn alert has latched an error, and a wire without close_notify holds exactly what was accepted |
| `RecordReaderProofs` | `StreamInOrder`, `EofIsPeers`, `AlertsStayWhole`, `ParkedIsWoken`, `FinishedStays`, `ImplementsInbound` | `Stream`: the kernel's queue, told as offsets (`Laid`), covers the peer's stream from the last byte delivered to the last byte sent; with the alert bytes already kept, only the last record of the queue can complete a close_notify |
| `KtlsWriterProofs`, both ends | `EndToEndOrder`, `NothingBehindEof`, `KtlsEndToEnd` | `Joint`: the wire is a prefix of what was accepted, whole once it is closed; what is delivered is a prefix of the wire |
| `HandlesLoadProofs`, `HandlesProofs` | `TypeCorrect`, `NoLeaks`, `NoDangling`, `QueueClean`, `BundlesWhole` | `Counts`: references equal owners exactly, which a step from "at most" or "at least" would not preserve. `Control` and `Keeps`: where a loader stands tells which locals it holds and which items the context has got, so that the object of a step is never already counted |
| `HandshakeProofs` | `NoWakeupLost` | `Waits`: a task in `await` with work to do has it announced by the cached bit or an edge in flight, one not woken is armed, and a blocked writer has told the kernel so |
| `KtlsInstallProofs` | `KernelContinues`, `TypeCorrect`, `EveryRecordOpens`, `NeverHalfInstalled`, `NonceUsedOnce` | `Counted`: whoever seals, libssl or the kernel, stands at the number of records sent, and likewise for opening. `Inbound`: the records between the peers, in libssl's buffer and on the wire, carry consecutive numbers. `Staged`: nothing is buffered in libssl once the check has passed |
| `ConfigProofs` | `AlpnRoundTrip`, `KeepsToConfiguration`, `ServerChoosesAlpn`, `NameChecked` | `Told`: a field holds its default or an argument of its setter. `Contexts`: a context is the one its builder describes, so that nothing is said of it field by field until the handshake. `Names`: libssl looks for the name that was meant, and only a DNS name is sent |

`KernelContinues` is a fact about `KtlsKeys` alone: for every suite `from_ids`
accepts, either role and any sequence numbers, the fields that
`derive_crypto_info` fills make the kernel seal and open as libssl does. It is
what lets `EveryRecordOpens` hold when one endpoint has moved and the other has
not.

Refinements are proved as a step simulation: `HistorySteps` (or its like) says
which steps change the history variables, and each maps to one step of the
contract or to none. `EndToEndOrder` and `NothingBehindEof` then compose
contracts, not implementations: they hold of a `TlsStream` or `KtlsWriter`
against a `RecordReader`. `KtlsEndToEnd` puts the `KtlsWriter` itself in place of
its contract: `RefinesOutbound` and the fact that it holds nothing back turn its
steps into steps of the writer.

`ConfigProofs` is for lists of any length. Its operators are recursive functions
(`Keep`, `encode_alpn_wire`, `iter_alpn_wire`), so the lemmas about them need
induction. The library states it over an operator, which the provers cannot
instantiate; `Induction` states it over a *set* of naturals instead, from the
library's theorem that `<` is well-founded on them, and `LoopExists` gets from it
that a definition by recursion has a value. `AlpnRoundTrip` goes by induction
over what is left of the list: behind the bytes of the first `i` protocols
`iter_alpn_wire` finds exactly the others. `ServerCtx` and `ClientCtx` follow
`finish` and `build` call by call to `Obeys`, what a context owes its builder,
with one lemma per call (`SetVersions`, `KtlsOnly`, `ApplySuites`,
`ApplyGroups`). The suites of a version that is not switched off are then the
listed ones, or under `ktls_aead_only` ones kTLS takes, and the handshake picks
from both sides' lists.

Only model-checked: liveness (`FlushEnds`, `ReadEnds`, `WriteEnds`, `AllArrives`,
`HandshakeEnds`, `NoBusyLoop`), because fairness and `ENABLED` are out of the
prover's reach. Every safety property of a passing run has a theorem.

## Not modelled

- tokio's cooperative budget, and the allocation of the shared waker.
- The read half of the userspace stream as an `InboundStream`: libssl decides
  what is the end of the stream, `TlsStream` only passes its verdict on.
- Session resumption, and the contents of certificates beyond good, bad or other
  and the name they cover.
- The crate's `Bio` and `EvpPkey` wrappers and `SslCtx::clone`, which no code
  outside the tests uses.
- Key export and the accessors of a stream, the C layout of the `crypto_info`
  structs (asserted by the code's own tests), `host_ktls_available`, the wording
  of errors: no state of a connection.
- `HyperAcceptor`, a wrapper of `accept`; the TCP dial is one step that may fail.

## Where to go on

Both kTLS halves on one socket, from `Handshake` through `KtlsInstall` into a
data path: today the three meet at their contracts (`KtlsInstall` hands over
sequence numbers, `KtlsEndToEnd` joins the halves), not in one state machine, whose
instances would be out of TLC's reach.
