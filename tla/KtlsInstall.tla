---------------------------- MODULE KtlsInstall ----------------------------
(***************************************************************************)
(* Two endpoints that finish a handshake, each of which then tries to move *)
(* its session into the kernel (TlsStream::try_auto_install_ktls,          *)
(* install_ktls, install_rx_then_tx) while the other may already be        *)
(* sending.                                                                *)
(***************************************************************************)
EXTENDS KtlsKeys

CONSTANTS
  Suites,         \* what may be negotiated: [version, id]
  MaxSent,        \* bound: records an endpoint sends
  Errnos,         \* of setsockopt(TCP_ULP): "ENOENT", "EBUSY", ...
  Faults          \* "platform", "derive", "rx", "tx"

ASSUME ConstantsAssumption ==
  /\ \A s \in Suites : s.version \in {"1.2", "1.3"}
  /\ MaxSent \in Nat /\ Faults \subseteq {"platform", "derive", "rx", "tx"}

VARIABLES
  suite,          \* the negotiated suite
  ktls_disabled,  \* per endpoint, from its configuration
  stage,          \* "handshake", "check", "derive", "ulp", "rx", "tx", then how it runs
  wseq, rseq,     \* libssl's next sequence numbers
  held,           \* records libssl has pulled in and nobody has read
  seqs,           \* the sequence numbers info was derived with, <<>> before
  ktx, krx,       \* the kernel's next sequence numbers, -1 while inactive
  wire,           \* records on their way to an endpoint
  sent, got,      \* history: records sent, records delivered to the application
  used,           \* history: explicit nonces an endpoint has written with
  broken          \* an endpoint met a record that does not open

tlsVars == <<suite, ktls_disabled, wseq, rseq, held>>
kernelVars == <<seqs, ktx, krx>>
dataVars == <<wire, sent, got, used, broken>>
vars == <<stage, tlsVars, kernelVars, dataVars>>

Running == {"userspace", "ktls"}
Stage == {"handshake", "check", "derive", "ulp", "rx", "tx", "failed"} \cup Running

\* The last flight of a full handshake is the client's in TLS 1.3, the server's in 1.2.
First == IF suite.version = "1.3" THEN "client" ELSE "server"
\* Finished is the first record under the keys of TLS 1.2, and used nonce 0.
Base == IF suite.version = "1.3" THEN 0 ELSE 1

Init ==
  /\ suite \in Suites /\ ktls_disabled \in [Role -> BOOLEAN]
  /\ stage = [r \in Role |-> "handshake"]
  /\ wseq = [r \in Role |-> Base] /\ rseq = [r \in Role |-> Base]
  /\ held = [r \in Role |-> <<>>] /\ seqs = [r \in Role |-> <<>>]
  /\ ktx = [r \in Role |-> -1] /\ krx = [r \in Role |-> -1]
  /\ wire = [r \in Role |-> <<>>]
  /\ sent = [r \in Role |-> 0] /\ got = [r \in Role |-> 0]
  /\ used = [r \in Role |-> 0..(Base - 1)] /\ broken = [r \in Role |-> FALSE]

Goto(r, s) == stage' = [stage EXCEPT ![r] = s]

\* libssl ends the handshake; records behind the last flight may come in with it.
HandshakeDone(r) ==
  /\ stage[r] = "handshake"
  /\ r # First => stage[First] # "handshake"
  /\ \E k \in 0..Len(wire[r]) :
       /\ held' = [held EXCEPT ![r] = SubSeq(wire[r], 1, k)]
       /\ wire' = [wire EXCEPT ![r] = SubSeq(@, k + 1, Len(@))]
  /\ Goto(r, "check")
  /\ UNCHANGED <<suite, ktls_disabled, wseq, rseq, kernelVars, sent, got, used, broken>>

-----------------------------------------------------------------------------
(* try_auto_install_ktls.                                                  *)

classify_ulp_error(errno) ==
  CASE errno \in {"ENOENT", "ENOPROTOOPT"} -> "TlsUlpUnavailable"
    [] errno \in {"ENOTCONN", "EISCONN", "EBUSY"} -> "SocketUnattachable"
    [] OTHER -> "SetSockOpt"

KtlsError ==
  {"Unsupported", "IneligibleCipher", "BufferedPlaintext", "TlsUlpUnavailable", "SocketUnattachable",
   "CryptoUnavailable", "SetSockOpt"}

\* How the connection goes on when install_ktls fails, also with an error that is none of
\* kTLS.  BufferedPlaintext is what the check before it returns.
after_error(kind) ==
  IF kind \in KtlsError \ {"BufferedPlaintext", "SetSockOpt"} THEN "userspace" ELSE "failed"

\* Mutant: only decrypted bytes count, and nothing has been decrypted yet.
has_pending_decrypted(r) == FALSE

has_pending(r) == held[r] # <<>>

check(r) ==
  /\ stage[r] = "check"
  /\ LET cipher == from_ids(suite.version, suite.id)
     IN Goto(r, IF ktls_disabled[r] \/ has_pending(r) THEN "userspace"
                ELSE IF cipher = "none" THEN after_error("IneligibleCipher") ELSE "derive")
  /\ UNCHANGED <<tlsVars, kernelVars, dataVars>>

\* Mutant: the kernel's records are counted from zero.
sequences_zero(r) == <<0, 0>>

sequences(r) == <<wseq[r], rseq[r]>>

info(r) == derive_crypto_info(from_ids(suite.version, suite.id), r, seqs[r][1], seqs[r][2])

derive(r) ==
  /\ stage[r] = "derive"
  /\ \/ "platform" \in Faults /\ Goto(r, after_error("Unsupported")) /\ UNCHANGED seqs
     \/ "derive" \in Faults /\ Goto(r, after_error("Init")) /\ UNCHANGED seqs
     \/ seqs' = [seqs EXCEPT ![r] = sequences(r)] /\ Goto(r, "ulp")
  /\ UNCHANGED <<tlsVars, ktx, krx, dataVars>>

\* Attached, the ULP is inert until a direction is set.
set_ulp_tls(r) ==
  /\ stage[r] = "ulp"
  /\ \/ Goto(r, "rx")
     \/ \E e \in Errnos : Goto(r, after_error(classify_ulp_error(e)))
  /\ UNCHANGED <<tlsVars, kernelVars, dataVars>>

rx_error == "CryptoUnavailable"

\* Mutant: a rejected direction is a rejected direction.
tx_error_soft == "CryptoUnavailable"

tx_error == "SetSockOpt"

set_rx(r) ==
  /\ stage[r] = "rx"
  /\ \/ krx' = [krx EXCEPT ![r] = info(r).rx.rec_seq] /\ Goto(r, "tx")
     \/ "rx" \in Faults /\ Goto(r, after_error(rx_error)) /\ UNCHANGED krx
  /\ UNCHANGED <<tlsVars, seqs, ktx, dataVars>>

set_tx(r) ==
  /\ stage[r] = "tx"
  /\ \/ ktx' = [ktx EXCEPT ![r] = info(r).tx.rec_seq] /\ Goto(r, "ktls")
     \/ "tx" \in Faults /\ Goto(r, after_error(tx_error)) /\ UNCHANGED ktx
  /\ UNCHANGED <<tlsVars, seqs, krx, dataVars>>

-----------------------------------------------------------------------------
(* Application data.                                                       *)

\* How a record on the wire was sealed, and how r would open its next one.
SealOf(rec, from) ==
  IF rec.by = "kernel" THEN KernelSeal(info(from).tx, rec.seq)
                       ELSE LibsslSeal(suite.version, suite.id, from, rec.seq)

OpenedBy(r) ==
  IF stage[r] = "ktls" THEN KernelSeal(info(r).rx, krx[r])
                       ELSE LibsslSeal(suite.version, suite.id, Peer(r), rseq[r])

\* An explicit nonce: libssl writes its sequence number, the kernel counts up from iv.
Explicit(r) ==
  IF stage[r] = "userspace" THEN wseq[r]
  ELSE IF suite.version = "1.2" /\ info(r).tx.type # 54
       THEN info(r).tx.iv[1] + ktx[r] - info(r).tx.rec_seq
       ELSE ktx[r]

Send(r) ==
  /\ stage[r] \in Running /\ sent[r] < MaxSent
  /\ stage[Peer(r)] # "failed"
  /\ LET kernel == stage[r] = "ktls"
         rec == [by |-> IF kernel THEN "kernel" ELSE "libssl",
                 seq |-> IF kernel THEN ktx[r] ELSE wseq[r]]
     IN /\ wire' = [wire EXCEPT ![Peer(r)] = Append(@, rec)]
        /\ ktx' = IF kernel THEN [ktx EXCEPT ![r] = @ + 1] ELSE ktx
        /\ wseq' = IF kernel THEN wseq ELSE [wseq EXCEPT ![r] = @ + 1]
  /\ used' = [used EXCEPT ![r] = @ \cup {Explicit(r)}]
  /\ sent' = [sent EXCEPT ![r] = @ + 1]
  /\ UNCHANGED <<stage, suite, ktls_disabled, rseq, held, seqs, krx, got, broken>>

\* libssl reads what it holds first; the kernel path never sees that.
Recv(r) ==
  LET own  == stage[r] = "userspace" /\ held[r] # <<>>
      next == IF own THEN held[r] ELSE wire[r]
  IN /\ stage[r] \in Running /\ ~broken[r] /\ next # <<>>
     /\ held' = IF own THEN [held EXCEPT ![r] = Tail(@)] ELSE held
     /\ wire' = IF own THEN wire ELSE [wire EXCEPT ![r] = Tail(@)]
     /\ IF SealOf(Head(next), Peer(r)) = OpenedBy(r)
        THEN /\ got' = [got EXCEPT ![r] = @ + 1] /\ UNCHANGED broken
             /\ IF stage[r] = "ktls" THEN krx' = [krx EXCEPT ![r] = @ + 1] /\ UNCHANGED rseq
                                     ELSE rseq' = [rseq EXCEPT ![r] = @ + 1] /\ UNCHANGED krx
        ELSE broken' = [broken EXCEPT ![r] = TRUE] /\ UNCHANGED <<got, rseq, krx>>
     /\ UNCHANGED <<stage, suite, ktls_disabled, wseq, seqs, ktx, sent, used>>

-----------------------------------------------------------------------------
Install(r) == check(r) \/ derive(r) \/ set_ulp_tls(r) \/ set_rx(r) \/ set_tx(r)

Next == \E r \in Role : HandshakeDone(r) \/ Install(r) \/ Send(r) \/ Recv(r)

Spec == Init /\ [][Next]_vars

(* The handshake ends, connect and accept run the install to its end, and  *)
(* the applications keep reading.                                          *)
FairSpec ==
  Spec /\ \A r \in Role : WF_vars(HandshakeDone(r)) /\ WF_vars(Install(r)) /\ WF_vars(Recv(r))

-----------------------------------------------------------------------------
(* Properties.                                                             *)

TypeOK ==
  /\ suite \in Suites /\ ktls_disabled \in [Role -> BOOLEAN] /\ stage \in [Role -> Stage]
  /\ \A r \in Role :
       /\ wseq[r] \in Nat /\ rseq[r] \in Nat /\ ktx[r] \in Nat \cup {-1} /\ krx[r] \in Nat \cup {-1}
       /\ seqs[r] # <<>> => CryptoInfoOK(info(r).tx) /\ CryptoInfoOK(info(r).rx)
       /\ sent[r] \in 0..MaxSent /\ got[r] \in Nat /\ broken[r] \in BOOLEAN

(* Every record opens where it arrives, whichever of the endpoints moved   *)
(* to the kernel, whenever they did and whatever was sent meanwhile: the   *)
(* keys, nonces and sequence numbers given to the kernel continue those of *)
(* libssl, and no record is left behind in libssl's buffer.                *)
NothingRejected == \A r \in Role : ~broken[r]

(* An endpoint that hands its stream to the application has moved both     *)
(* directions to the kernel or neither; with RX alone it has failed        *)
(* (install_rx_then_tx, try_auto_install_ktls).                            *)
BothOrNeither ==
  \A r \in Role :
    /\ stage[r] = "ktls" => krx[r] # -1 /\ ktx[r] # -1
    /\ stage[r] = "userspace" => krx[r] = -1 /\ ktx[r] = -1

(* No endpoint ever writes two records with the same nonce: the Base +     *)
(* sent[r] records it has written have used that many numbers, without a   *)
(* gap, for the kernel goes on where libssl stopped (sequences, rec_seq    *)
(* and iv).                                                                *)
NoncesAreFresh == \A r \in Role : used[r] = 0..(Base + sent[r] - 1)

(* What an endpoint sends is delivered, in either data path and also when  *)
(* it was coalesced with the last flight, unless an endpoint failed.       *)
AllArrives ==
  \A r \in Role :
    (sent[r] > got[Peer(r)]) ~>
      (got[Peer(r)] = sent[r] \/ \E e \in Role : stage[e] = "failed")

(* "Rejections before either direction goes active fall back to userspace; *)
(* partial installs fail closed" (TlsStream::ktls_eligibility): only an    *)
(* endpoint whose RX is active fails.                                      *)
RejectionFallsBack == \A r \in Role : stage[r] = "failed" => krx[r] # -1

=============================================================================
