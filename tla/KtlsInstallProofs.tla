------------------------- MODULE KtlsInstallProofs -------------------------
(***************************************************************************)
(* Theorems about KtlsKeys and KtlsInstall, for every set of suites, any   *)
(* number of records, every errno and every combination of faults.  That   *)
(* the kernel seals as libssl would (KernelContinues) is about the key     *)
(* material alone; the invariant says which record each data path is at.   *)
(***************************************************************************)
EXTENDS KtlsInstall, TLAPS

-----------------------------------------------------------------------------
(* The key material: what derive_crypto_info gives to the kernel is what   *)
(* libssl uses.                                                            *)

\* The parameters of a suite, as LibsslSeal has them.
TypeOf(id) ==
  CASE id \in Range128 \cup {"TLS_AES_128_GCM_SHA256"} -> 51
    [] id \in Range256 \cup {"TLS_AES_256_GCM_SHA384"} -> 52
    [] id \in Chacha \cup {"TLS_CHACHA20_POLY1305_SHA256"} -> 54
    [] OTHER -> 0
KeyLen(t) == IF t = 51 THEN 16 ELSE 32
IvLen(version, t) == IF version = "1.3" \/ t = 54 THEN 12 ELSE 4
HashOf(t) == IF t = 52 THEN "Sha384" ELSE "Sha256"

LEMMA ArmOf ==
  ASSUME NEW v, NEW id, from_ids(v, id) # "none"
  PROVE  LET a == Arms[from_ids(v, id)]
             t == TypeOf(id)
         IN /\ v \in {"1.2", "1.3"} /\ t \in {51, 52, 54}
            /\ a.version = v /\ a.type = t /\ a.key_len = KeyLen(t) /\ a.iv_len = IvLen(v, t)
            /\ v = "1.3" => a.hash = HashOf(t)
<1>1. CASE v = "1.3" /\ id = "TLS_AES_128_GCM_SHA256"
  <2>1. from_ids(v, id) = "Tls13Aes128Gcm" /\ TypeOf(id) = 51
    BY <1>1 DEF from_ids, TypeOf, Range128, Range256, Chacha
  <2> QED
    BY <1>1, <2>1 DEF Arms, Arm, KeyLen, IvLen, HashOf
<1>2. CASE v = "1.3" /\ id = "TLS_AES_256_GCM_SHA384"
  <2>1. from_ids(v, id) = "Tls13Aes256Gcm" /\ TypeOf(id) = 52
    BY <1>2 DEF from_ids, TypeOf, Range128, Range256, Chacha
  <2> QED
    BY <1>2, <2>1 DEF Arms, Arm, KeyLen, IvLen, HashOf
<1>3. CASE v = "1.3" /\ id = "TLS_CHACHA20_POLY1305_SHA256"
  <2>1. from_ids(v, id) = "Tls13Chacha20Poly1305" /\ TypeOf(id) = 54
    BY <1>3 DEF from_ids, TypeOf, Range128, Range256, Chacha
  <2> QED
    BY <1>3, <2>1 DEF Arms, Arm, KeyLen, IvLen, HashOf
<1>4. CASE v = "1.2" /\ id \in Range128
  <2>1. from_ids(v, id) = "Tls12Aes128Gcm" /\ TypeOf(id) = 51
    BY <1>4 DEF from_ids, TypeOf, Range128, Range256, Chacha
  <2> QED
    BY <1>4, <2>1 DEF Arms, Arm, KeyLen, IvLen, HashOf
<1>5. CASE v = "1.2" /\ id \in Range256
  <2>1. from_ids(v, id) = "Tls12Aes256Gcm" /\ TypeOf(id) = 52
    BY <1>5 DEF from_ids, TypeOf, Range128, Range256, Chacha
  <2> QED
    BY <1>5, <2>1 DEF Arms, Arm, KeyLen, IvLen, HashOf
<1>6. CASE v = "1.2" /\ id \in Chacha
  <2>1. from_ids(v, id) = "Tls12Chacha20Poly1305" /\ TypeOf(id) = 54
    BY <1>6 DEF from_ids, TypeOf, Range128, Range256, Chacha
  <2> QED
    BY <1>6, <2>1 DEF Arms, Arm, KeyLen, IvLen, HashOf
<1> QED
  BY <1>1, <1>2, <1>3, <1>4, <1>5, <1>6, Zenon DEF from_ids

\* A stretch of the key block is a run of its bytes.
Run(from, n) == [i \in 1..n |-> from + i]

LEMMA RunIs ==
  ASSUME NEW from \in Nat, NEW n \in Nat
  PROVE  Run(from, n) \in Seq(Int) /\ Len(Run(from, n)) = n /\ \A i \in 1..n : Run(from, n)[i] = from + i
BY DEF Run

LEMMA Stretch ==
  ASSUME NEW len \in Nat, NEW from \in Nat, NEW n \in Nat, from + n <= len
  PROVE  SubSeq(SSL_generate_key_block(len), from + 1, from + n) = Run(from, n)
<1> DEFINE b == SSL_generate_key_block(len)
           u == SubSeq(b, from + 1, from + n)
<1>1. b \in Seq(Int) /\ Len(b) = len /\ \A i \in 1..len : b[i] = i
  BY DEF SSL_generate_key_block
<1>2. u \in Seq(Int) /\ Len(u) = n /\ \A i \in 1..n : u[i] = b[from + i]
  <2> HIDE DEF b
  <2>1. from + 1 \in 1..Len(b) + 1 /\ from + n \in (from + 1) - 1..Len(b)
    BY <1>1
  <2>2. /\ u \in Seq(Int) /\ Len(u) = (from + n) - (from + 1) + 1
        /\ \A i \in 1..(from + n) - (from + 1) + 1 : u[i] = b[(from + 1) + i - 1]
    BY <1>1, <2>1
  <2>3. (from + n) - (from + 1) + 1 = n /\ \A i \in 1..n : (from + 1) + i - 1 = from + i
    OBVIOUS
  <2> QED
    BY <2>2, <2>3
<1> DEFINE r == Run(from, n)
<1>3. r \in Seq(Int) /\ Len(r) = n /\ \A i \in 1..n : r[i] = from + i
  BY RunIs
<1> HIDE DEF b, u, r
<1>4. \A i \in 1..n : u[i] = r[i]
  <2> TAKE i \in 1..n
  <2>1. from + i \in 1..len
    OBVIOUS
  <2> QED
    BY <1>1, <1>2, <1>3, <2>1
<1>5. u = r
  BY <1>2, <1>3, <1>4
<1> QED
  BY <1>5 DEF u, r, b

\* The key and the nonce `of' writes with.
Mine(of) == IF of = "client" THEN 0 ELSE 1
KeyOf(v, t, of) ==
  IF v = "1.3" THEN hkdf_expand_label(HashOf(t), of, "key", KeyLen(t)) ELSE Run(Mine(of) * KeyLen(t), KeyLen(t))
IvOf(v, t, of) ==
  IF v = "1.3" THEN hkdf_expand_label(HashOf(t), of, "iv", IvLen(v, t))
               ELSE Run(2 * KeyLen(t) + Mine(of) * IvLen(v, t), IvLen(v, t))

LEMMA LibsslSealIs ==
  ASSUME NEW v, NEW id, NEW of, NEW n
  PROVE  LibsslSeal(v, id, of, n) =
           [version |-> v, type |-> TypeOf(id), seq |-> n,
            key |-> KeyOf(v, TypeOf(id), of), nonce |-> IvOf(v, TypeOf(id), of)]
BY DEF LibsslSeal, TypeOf, KeyOf, IvOf, KeyLen, IvLen, HashOf, Mine, Run

\* The bytes of a string.
Bytes(s) == {s[i] : i \in DOMAIN s}

LEMMA StringIs ==
  ASSUME NEW n \in Nat, NEW s, s = [i \in 1..n |-> s[i]]
  PROVE  s \in Seq(Bytes(s)) /\ Len(s) = n
<1>1. DOMAIN s = 1..n /\ \A i \in 1..n : s[i] \in Bytes(s)
  BY DEF Bytes
<1>2. s \in [1..n -> Bytes(s)]
  BY <1>1
<1> QED
  BY <1>1, <1>2

LEMMA Lengths ==
  ASSUME NEW v \in {"1.2", "1.3"}, NEW t \in {51, 52, 54}, NEW of \in Role
  PROVE  Len(KeyOf(v, t, of)) = KeyLen(t) /\ Len(IvOf(v, t, of)) = IvLen(v, t)
<1>1. KeyLen(t) \in Nat /\ IvLen(v, t) \in Nat
  BY DEF KeyLen, IvLen
<1>2. KeyOf(v, t, of) = [i \in 1..KeyLen(t) |-> KeyOf(v, t, of)[i]]
  BY <1>1, Zenon DEF KeyOf, hkdf_expand_label, Run
<1>3. IvOf(v, t, of) = [i \in 1..IvLen(v, t) |-> IvOf(v, t, of)[i]]
  BY <1>1, Zenon DEF IvOf, hkdf_expand_label, Run
<1> QED
  BY <1>1, <1>2, <1>3, StringIs

LEMMA IvBytes ==
  ASSUME NEW v \in {"1.2", "1.3"}, NEW t \in {51, 52, 54}, NEW of \in Role
  PROVE  IvOf(v, t, of) \in Seq(Bytes(IvOf(v, t, of)))
<1>1. IvLen(v, t) \in Nat
  BY DEF IvLen
<1>2. IvOf(v, t, of) = [i \in 1..IvLen(v, t) |-> IvOf(v, t, of)[i]]
  BY <1>1, Zenon DEF IvOf, hkdf_expand_label, Run
<1> QED
  BY <1>1, <1>2, StringIs

LEMMA BuildIs ==
  ASSUME NEW v \in {"1.2", "1.3"}, NEW t \in {51, 52, 54}, NEW a, a.version = v, a.type = t,
         NEW key, Len(key) = KeyLen(t), NEW S, NEW iv \in Seq(S), Len(iv) = IvLen(v, t), NEW w
  PROVE  /\ \A n : KernelSeal(Build(a, key, iv, w), n) =
                    [version |-> v, type |-> t, seq |-> n, key |-> key, nonce |-> iv]
         /\ CryptoInfoOK(Build(a, key, iv, w)) /\ Build(a, key, iv, w).rec_seq = w
         /\ v = "1.2" /\ t # 54 => Build(a, key, iv, w).iv[1] = w
         /\ Build(a, key, iv, w).type = t
<1> DEFINE b == Build(a, key, iv, w)
<1>1. /\ b.version = v /\ b.type = t /\ b.key = key /\ b.rec_seq = w
      /\ b.salt = IF t = 54 THEN <<>> ELSE SubSeq(iv, 1, 4)
      /\ b.iv = IF t = 54 THEN iv ELSE IF v = "1.2" THEN <<w>> ELSE SubSeq(iv, 5, Len(iv))
  BY DEF Build
<1> HIDE DEF b
<1>2. CASE t = 54
  <2>1. b.salt = <<>> /\ b.iv = iv /\ <<>> \o iv = iv /\ Len(iv) = 12
    BY <1>1, <1>2 DEF IvLen
  <2> QED
    BY <1>1, <1>2, <2>1, Zenon DEF KernelSeal, CryptoInfoOK, KeyLen, b
<1>3. CASE t # 54 /\ v = "1.2"
  <2>1. Len(iv) = 4 /\ SubSeq(iv, 1, 4) = iv
    BY <1>3 DEF IvLen
  <2>2. b.salt = iv /\ b.iv = <<w>>
    BY <1>1, <1>3, <2>1, Zenon
  <2> QED
    BY <1>1, <1>3, <2>1, <2>2 DEF KernelSeal, CryptoInfoOK, KeyLen, b
<1>4. CASE t # 54 /\ v = "1.3"
  <2>1. Len(iv) = 12
    BY <1>4 DEF IvLen
  <2>2. SubSeq(iv, 1, 4) \o SubSeq(iv, 5, 12) = iv
    <3>1. 4 + 1 = 5
      OBVIOUS
    <3>2. SubSeq(iv, 1, 4) \o SubSeq(iv, 4 + 1, 12) = SubSeq(iv, 1, 12)
      BY <2>1
    <3>3. SubSeq(iv, 1, 12) = iv
      BY <2>1
    <3> QED
      BY <3>1, <3>2, <3>3, Zenon
  <2>3. Len(SubSeq(iv, 1, 4)) = 4 /\ Len(SubSeq(iv, 5, 12)) = 8
    BY <2>1
  <2>4. b.salt = SubSeq(iv, 1, 4) /\ b.iv = SubSeq(iv, 5, 12)
    BY <1>1, <1>4, <2>1, Zenon
  <2> QED
    BY <1>1, <1>4, <2>2, <2>3, <2>4, ZenonT(30) DEF KernelSeal, CryptoInfoOK, KeyLen, b
<1> QED
  BY <1>2, <1>3, <1>4

LEMMA SplitIs ==
  ASSUME NEW k \in Nat, NEW n \in Nat, NEW is_server \in BOOLEAN
  PROVE  LET block == SSL_generate_key_block(2 * (k + n))
             m     == split_tls12_key_block(block, k, n, is_server)
         IN /\ m.wk = IF is_server THEN Run(k, k) ELSE Run(0, k)
            /\ m.rk = IF is_server THEN Run(0, k) ELSE Run(k, k)
            /\ m.wi = IF is_server THEN Run(2 * k + n, n) ELSE Run(2 * k, n)
            /\ m.ri = IF is_server THEN Run(2 * k, n) ELSE Run(2 * k + n, n)
<1> DEFINE block == SSL_generate_key_block(2 * (k + n))
<1>1. SubSeq(block, 1, k) = Run(0, k)
  <2>1. SubSeq(block, 0 + 1, 0 + k) = Run(0, k)
    BY Stretch
  <2>2. 0 + 1 = 1 /\ 0 + k = k
    OBVIOUS
  <2> QED
    BY <2>1, <2>2, Zenon
<1>2. SubSeq(block, k + 1, 2 * k) = Run(k, k)
  <2>1. SubSeq(block, k + 1, k + k) = Run(k, k)
    BY Stretch
  <2>2. 2 * k = k + k
    OBVIOUS
  <2> QED
    BY <2>1, <2>2, Zenon
<1>3. SubSeq(block, 2 * k + 1, 2 * k + n) = Run(2 * k, n)
  <2>1. 2 * k \in Nat /\ 2 * (k + n) \in Nat /\ 2 * k + n <= 2 * (k + n)
    OBVIOUS
  <2> QED
    BY <2>1, Stretch, Zenon
<1>4. SubSeq(block, 2 * k + n + 1, Len(block)) = Run(2 * k + n, n)
  <2>1. SubSeq(block, 2 * k + n + 1, 2 * k + n + n) = Run(2 * k + n, n)
    BY Stretch
  <2>2. Len(block) = 2 * k + n + n
    BY DEF SSL_generate_key_block
  <2> QED
    BY <2>1, <2>2, Zenon
<1> HIDE DEF block
<1> QED
  BY <1>1, <1>2, <1>3, <1>4, Zenon DEF split_tls12_key_block, block

LEMMA DeriveIs ==
  ASSUME NEW v, NEW id, from_ids(v, id) # "none", NEW r \in Role, NEW w, NEW rd
  PROVE  LET a == Arms[from_ids(v, id)]
             t == TypeOf(id)
             i == derive_crypto_info(from_ids(v, id), r, w, rd)
         IN /\ i.tx = Build(a, KeyOf(v, t, r), IvOf(v, t, r), w)
            /\ i.rx = Build(a, KeyOf(v, t, Peer(r)), IvOf(v, t, Peer(r)), rd)
<1> DEFINE a == Arms[from_ids(v, id)]
           t == TypeOf(id)
           k == KeyLen(t)
           n == IvLen(v, t)
<1>1. /\ v \in {"1.2", "1.3"} /\ t \in {51, 52, 54} /\ a.version = v /\ a.type = t
      /\ a.key_len = k /\ a.iv_len = n /\ (v = "1.3" => a.hash = HashOf(t))
  BY ArmOf
<1>2. k \in {16, 32} /\ n \in {4, 12}
  BY SMTT(30) DEF KeyLen, IvLen
<1>3. CASE v = "1.3"
  BY <1>1, <1>3, Zenon DEF derive_crypto_info, KeyOf, IvOf
<1>4. CASE v = "1.2"
  <2> DEFINE m == split_tls12_key_block(SSL_generate_key_block(2 * (k + n)), k, n, r = "server")
  <2>1. /\ m.wk = IF r = "server" THEN Run(k, k) ELSE Run(0, k)
        /\ m.rk = IF r = "server" THEN Run(0, k) ELSE Run(k, k)
        /\ m.wi = IF r = "server" THEN Run(2 * k + n, n) ELSE Run(2 * k, n)
        /\ m.ri = IF r = "server" THEN Run(2 * k, n) ELSE Run(2 * k + n, n)
    <3>1. k \in Nat /\ n \in Nat /\ (r = "server") \in BOOLEAN
      BY <1>2
    <3> HIDE DEF k, n
    <3> QED
      BY <3>1, SplitIs, Zenon
  <2>2. /\ derive_crypto_info(from_ids(v, id), r, w, rd).tx = Build(a, m.wk, m.wi, w)
        /\ derive_crypto_info(from_ids(v, id), r, w, rd).rx = Build(a, m.rk, m.ri, rd)
    BY <1>1, <1>4, Zenon DEF derive_crypto_info
  <2>3. \A of \in Role : /\ KeyOf(v, t, of) = IF of = "server" THEN Run(k, k) ELSE Run(0, k)
                         /\ IvOf(v, t, of) = IF of = "server" THEN Run(2 * k + n, n) ELSE Run(2 * k, n)
    <3> TAKE of \in Role
    <3>1. /\ KeyOf(v, t, of) = Run(Mine(of) * k, k) /\ IvOf(v, t, of) = Run(2 * k + Mine(of) * n, n)
      BY <1>4 DEF KeyOf, IvOf
    <3> HIDE DEF k, n
    <3>2. CASE of = "server"
      <4>1. Mine(of) * k = k /\ 2 * k + Mine(of) * n = 2 * k + n
        BY <1>2, <3>2 DEF Mine
      <4> QED
        BY <3>1, <3>2, <4>1
    <3>3. CASE of = "client"
      <4>1. Mine(of) * k = 0 /\ 2 * k + Mine(of) * n = 2 * k
        BY <1>2, <3>3 DEF Mine
      <4> QED
        BY <3>1, <3>3, <4>1
    <3> QED
      BY <3>2, <3>3 DEF Role
  <2> HIDE DEF m, k, n, t, a
  <2>4. KeyOf(v, t, r) = m.wk /\ IvOf(v, t, r) = m.wi
    BY <2>1, <2>3
  <2>5. KeyOf(v, t, Peer(r)) = m.rk /\ IvOf(v, t, Peer(r)) = m.ri
    BY <2>1, <2>3 DEF Peer, Role
  <2> QED
    BY <2>2, <2>4, <2>5 DEF t, a
<1> QED
  BY <1>1, <1>3, <1>4

(* With what derive_crypto_info gives it, and for every eligible suite,    *)
(* either role and any sequence numbers, the kernel seals its records, and *)
(* opens the peer's, as libssl would; every field is filled, and the       *)
(* explicit nonce of a TLS 1.2 GCM suite starts at the sequence number.    *)
THEOREM KernelContinues ==
  ASSUME NEW v, NEW id, from_ids(v, id) # "none", NEW r \in Role, NEW w, NEW rd
  PROVE  LET i == derive_crypto_info(from_ids(v, id), r, w, rd)
         IN /\ \A n : /\ KernelSeal(i.tx, n) = LibsslSeal(v, id, r, n)
                      /\ KernelSeal(i.rx, n) = LibsslSeal(v, id, Peer(r), n)
            /\ CryptoInfoOK(i.tx) /\ CryptoInfoOK(i.rx)
            /\ i.tx.rec_seq = w /\ i.rx.rec_seq = rd
            /\ v = "1.2" /\ i.tx.type # 54 => i.tx.iv[1] = w
<1> DEFINE a == Arms[from_ids(v, id)]
           t == TypeOf(id)
           i == derive_crypto_info(from_ids(v, id), r, w, rd)
           tx == Build(a, KeyOf(v, t, r), IvOf(v, t, r), w)
           rx == Build(a, KeyOf(v, t, Peer(r)), IvOf(v, t, Peer(r)), rd)
<1>1. /\ v \in {"1.2", "1.3"} /\ t \in {51, 52, 54} /\ a.version = v /\ a.type = t
  BY ArmOf
<1>2. Peer(r) \in Role
  BY DEF Role, Peer
<1>3. i.tx = tx /\ i.rx = rx
  BY DeriveIs
<1>4. \A of, n : LibsslSeal(v, id, of, n) =
                   [version |-> v, type |-> t, seq |-> n, key |-> KeyOf(v, t, of), nonce |-> IvOf(v, t, of)]
  BY LibsslSealIs
<1> HIDE DEF a, t, i
<1>5. /\ Len(KeyOf(v, t, r)) = KeyLen(t) /\ Len(IvOf(v, t, r)) = IvLen(v, t)
      /\ Len(KeyOf(v, t, Peer(r))) = KeyLen(t) /\ Len(IvOf(v, t, Peer(r))) = IvLen(v, t)
  <2>1. \A of \in Role : Len(KeyOf(v, t, of)) = KeyLen(t) /\ Len(IvOf(v, t, of)) = IvLen(v, t)
    <3> TAKE of \in Role
    <3> QED
      BY <1>1, Lengths, SMTT(30)
  <2> QED
    BY <1>2, <2>1
<1>6. IvOf(v, t, r) \in Seq(Bytes(IvOf(v, t, r)))
  BY <1>1, IvBytes
<1>7. IvOf(v, t, Peer(r)) \in Seq(Bytes(IvOf(v, t, Peer(r))))
  BY <1>1, <1>2, IvBytes
<1>8. /\ \A n : KernelSeal(tx, n) =
                  [version |-> v, type |-> t, seq |-> n, key |-> KeyOf(v, t, r), nonce |-> IvOf(v, t, r)]
      /\ CryptoInfoOK(tx) /\ tx.rec_seq = w /\ (v = "1.2" /\ t # 54 => tx.iv[1] = w) /\ tx.type = t
  BY <1>1, <1>5, <1>6, BuildIs
<1>9. /\ \A n : KernelSeal(rx, n) = [version |-> v, type |-> t, seq |-> n, key |-> KeyOf(v, t, Peer(r)),
                                      nonce |-> IvOf(v, t, Peer(r))]
       /\ CryptoInfoOK(rx) /\ rx.rec_seq = rd
  BY <1>1, <1>5, <1>7, BuildIs
<1> HIDE DEF tx, rx
<1> QED
  BY <1>3, <1>4, <1>8, <1>9 DEF i

-----------------------------------------------------------------------------
(* The invariant.  Before an endpoint runs it has sent and read nothing, so *)
(* that the numbers it derives with are those after the handshake; records *)
(* are numbered as they are sent, and those still to be read go on from    *)
(* the ones that were.                                                     *)

Record == [by : {"kernel", "libssl"}, seq : Nat]
Eligible == from_ids(suite.version, suite.id) # "none"

Types ==
  /\ suite \in Suites /\ ktls_disabled \in [Role -> BOOLEAN] /\ stage \in [Role -> Stage]
  /\ wseq \in [Role -> Nat] /\ rseq \in [Role -> Nat]
  /\ held \in [Role -> Seq(Record)] /\ wire \in [Role -> Seq(Record)]
  /\ seqs \in [Role -> {<<>>, <<Base, Base>>}]
  /\ ktx \in [Role -> Nat \cup {-1}] /\ krx \in [Role -> Nat \cup {-1}]
  /\ sent \in [Role -> Nat] /\ got \in [Role -> Nat] /\ used \in [Role -> SUBSET Nat]
  /\ broken \in [Role -> BOOLEAN]

\* Which steps of the install an endpoint has behind it.
Staged(r) ==
  /\ seqs[r] # <<>> => Eligible
  /\ stage[r] \in {"handshake", "check", "derive"} => seqs[r] = <<>>
  /\ stage[r] \in {"ulp", "rx", "tx", "ktls"} => seqs[r] # <<>>
  /\ stage[r] \in {"derive", "ulp", "rx", "tx", "ktls"} => Eligible /\ held[r] = <<>>
  /\ stage[r] = "handshake" => held[r] = <<>>
  /\ stage[r] \notin Running => sent[r] = 0 /\ got[r] = 0
  /\ stage[r] # "ktls" => ktx[r] = -1
  /\ stage[r] \in Stage \ {"tx", "ktls", "failed"} => krx[r] = -1

\* How far it has written and read.
Counted(r) ==
  /\ stage[r] = "ktls" => ktx[r] = Base + sent[r]
  /\ stage[r] # "ktls" => wseq[r] = Base + sent[r]
  /\ stage[r] \in {"tx", "ktls"} => krx[r] = Base + got[r]
  /\ stage[r] # "ktls" => rseq[r] = Base + got[r]
  /\ used[r] = 0..(Base + sent[r] - 1) /\ sent[r] <= MaxSent
  /\ ~broken[r]

\* What is on its way to r: every record carries the number of its place.
Inbound(r) ==
  /\ got[r] + Len(held[r]) + Len(wire[r]) = sent[Peer(r)]
  /\ \A i \in 1..Len(held[r]) : held[r][i].seq = Base + got[r] + i - 1
  /\ \A i \in 1..Len(wire[r]) : wire[r][i].seq = Base + got[r] + Len(held[r]) + i - 1
  /\ \A i \in 1..Len(held[r]) : held[r][i].by = "kernel" => stage[Peer(r)] = "ktls"
  /\ \A i \in 1..Len(wire[r]) : wire[r][i].by = "kernel" => stage[Peer(r)] = "ktls"

IInv == Types /\ \A r \in Role : Staged(r) /\ Counted(r) /\ Inbound(r)

LEMMA Peers ==
  ASSUME NEW r \in Role
  PROVE  /\ Peer(r) \in Role /\ Peer(r) # r /\ Peer(Peer(r)) = r
         /\ \A f \in Role : f = r \/ f = Peer(r)
BY DEF Role, Peer

LEMMA Update ==
  ASSUME NEW S, NEW f \in [Role -> S], NEW a \in Role, NEW x, NEW g, g = [f EXCEPT ![a] = x]
  PROVE  /\ g[a] = x /\ (\A e \in Role : e # a => g[e] = f[e])
         /\ x \in S => g \in [Role -> S]
OBVIOUS

\* An endpoint that a step leaves alone.
LEMMA Keeps ==
  ASSUME NEW e \in Role, Staged(e), Counted(e), Base' = Base, Eligible' <=> Eligible,
         stage'[e] = stage[e], seqs'[e] = seqs[e], held'[e] = held[e], ktx'[e] = ktx[e], krx'[e] = krx[e],
         wseq'[e] = wseq[e], rseq'[e] = rseq[e], sent'[e] = sent[e], got'[e] = got[e],
         used'[e] = used[e], broken'[e] = broken[e]
  PROVE  Staged(e)' /\ Counted(e)'
<1>1. Staged(e)'
  BY DEF Staged
<1>2. Counted(e)'
  BY DEF Counted
<1> QED
  BY <1>1, <1>2

LEMMA KeepsInbound ==
  ASSUME NEW e \in Role, Inbound(e), Base' = Base, got'[e] = got[e], held'[e] = held[e], wire'[e] = wire[e],
         sent'[Peer(e)] = sent[Peer(e)], stage[Peer(e)] = "ktls" => stage'[Peer(e)] = "ktls"
  PROVE  Inbound(e)'
BY Zenon DEF Inbound

LEMMA BaseIs ==
  ASSUME Types
  PROVE  Base \in {0, 1}
BY SMTT(30) DEF Base

\* What install_ktls gave to the kernel.
LEMMA InfoIs ==
  ASSUME IInv, NEW r \in Role, seqs[r] # <<>>
  PROVE  /\ \A n : /\ KernelSeal(info(r).tx, n) = LibsslSeal(suite.version, suite.id, r, n)
                   /\ KernelSeal(info(r).rx, n) = LibsslSeal(suite.version, suite.id, Peer(r), n)
         /\ CryptoInfoOK(info(r).tx) /\ CryptoInfoOK(info(r).rx)
         /\ info(r).tx.rec_seq = Base /\ info(r).rx.rec_seq = Base
         /\ suite.version = "1.2" /\ info(r).tx.type # 54 => info(r).tx.iv[1] = Base
<1>1. seqs[r] = <<Base, Base>> /\ from_ids(suite.version, suite.id) # "none"
  BY SMTT(30) DEF IInv, Types, Staged, Eligible
<1>2. seqs[r][1] = Base /\ seqs[r][2] = Base
  BY <1>1
<1> QED
  BY <1>1, <1>2, KernelContinues DEF info

LEMMA InitInv == Init => IInv
<1> SUFFICES ASSUME Init PROVE IInv
  OBVIOUS
<1>1. Base \in {0, 1}
  BY DEF Base
<1>2. Types
  BY <1>1 DEF Init, Types, Stage
<1>3. ASSUME NEW r \in Role PROVE Staged(r) /\ Counted(r) /\ Inbound(r)
  <2>1. Staged(r)
    BY <1>3 DEF Init, Staged, Running
  <2>2. Counted(r)
    BY <1>1, <1>3, ConstantsAssumption DEF Init, Counted
  <2>3. Inbound(r)
    BY <1>3, Peers DEF Init, Inbound
  <2> QED
    BY <2>1, <2>2, <2>3
<1> QED
  BY <1>2, <1>3 DEF IInv

-----------------------------------------------------------------------------
(* The steps of an install.                                                *)

Installing == {"check", "derive", "ulp", "rx", "tx"}

LEMMA Untouched ==
  ASSUME UNCHANGED <<tlsVars, dataVars>>, NEW a \in Role
  PROVE  /\ Base' = Base /\ (Eligible' <=> Eligible) /\ held'[a] = held[a] /\ sent'[a] = sent[a] /\ got'[a] = got[a]
         /\ wseq'[a] = wseq[a] /\ rseq'[a] = rseq[a] /\ used'[a] = used[a] /\ broken'[a] = broken[a]
<1>1. UNCHANGED <<suite, ktls_disabled, held, sent, got, wseq, rseq, used, broken>>
  BY Zenon DEF tlsVars, dataVars
<1> QED
  BY <1>1, Zenon DEF Base, Eligible

LEMMA InstallKeeps ==
  ASSUME IInv, NEW a \in Role, stage[a] \in Installing, UNCHANGED <<tlsVars, dataVars>>,
         NEW s \in Stage, stage' = [stage EXCEPT ![a] = s], Types', Staged(a)', Counted(a)',
         \A e \in Role \ {a} : seqs'[e] = seqs[e] /\ ktx'[e] = ktx[e] /\ krx'[e] = krx[e]
  PROVE  IInv'
<1>1. Types /\ Base' = Base /\ (Eligible' <=> Eligible)
  BY DEF IInv, Base, Eligible, tlsVars
<1>2. ASSUME NEW e \in Role PROVE Staged(e)' /\ Counted(e)'
  <2>1. CASE e = a
    BY <2>1
  <2>2. CASE e # a
    <3>1. stage'[e] = stage[e] /\ seqs'[e] = seqs[e] /\ ktx'[e] = ktx[e] /\ krx'[e] = krx[e]
      BY <1>1, <2>2 DEF Types
    <3>2. Staged(e) /\ Counted(e)
      BY Zenon DEF IInv
    <3> QED
      BY <3>1, <3>2, Untouched, Keeps, Zenon
  <2> QED
    BY <2>1, <2>2
<1>3. ASSUME NEW e \in Role PROVE Inbound(e)'
  <2>1. Inbound(e) /\ UNCHANGED <<got, held, wire, sent>>
    BY Zenon DEF IInv, tlsVars, dataVars
  <2>2. stage[Peer(e)] = "ktls" => stage'[Peer(e)] = "ktls"
    BY <1>1, Peers, Zenon DEF Types, Installing
  <2> QED
    BY <1>1, <2>1, <2>2, KeepsInbound, Zenon
<1> QED
  BY <1>2, <1>3 DEF IInv

LEMMA AfterError ==
  \A kind : after_error(kind) \in {"userspace", "failed"}
BY DEF after_error

\* A step after which the endpoint goes on, or falls back, with nothing set.
LEMMA InstallMoves ==
  ASSUME IInv, NEW a \in Role, stage[a] \in Installing, UNCHANGED <<tlsVars, dataVars, kernelVars>>,
         NEW s \in {"userspace", "failed", "derive", "rx"}, Goto(a, s),
         s = "userspace" => krx[a] = -1,
         s = "derive" => stage[a] = "check" /\ Eligible /\ held[a] = <<>>,
         s = "rx" => stage[a] = "ulp"
  PROVE  IInv'
<1>1. Types /\ Base' = Base /\ (Eligible' <=> Eligible) /\ Staged(a) /\ Counted(a) /\ s \in Stage
  BY DEF IInv, Base, Eligible, tlsVars, Stage, Running
<1>2. stage' = [stage EXCEPT ![a] = s] /\ UNCHANGED <<tlsVars, dataVars, seqs, ktx, krx>>
  BY DEF Goto, kernelVars
<1>3. Types'
  BY <1>1, <1>2, SMTT(30) DEF Types, tlsVars, dataVars
<1>4. stage'[a] = s
  BY <1>1, <1>2 DEF Types
<1>5. Staged(a)'
  BY <1>1, <1>2, <1>4, SMTT(30) DEF Staged, tlsVars, dataVars, Installing, Stage, Running
<1>6. Counted(a)'
  BY <1>1, <1>2, <1>4 DEF Counted, tlsVars, dataVars, Installing
<1> QED
  BY <1>1, <1>2, <1>3, <1>5, <1>6, InstallKeeps, Zenon

LEMMA CheckStep ==
  ASSUME IInv, NEW a \in Role, check(a)
  PROVE  IInv'
<1>1. stage[a] = "check" /\ stage[a] \in Installing /\ UNCHANGED <<tlsVars, dataVars, kernelVars>>
  BY DEF check, Installing
<1>2. krx[a] = -1
  BY <1>1 DEF IInv, Staged, Stage
<1>3. CASE Goto(a, "userspace")
  BY <1>1, <1>2, <1>3, InstallMoves
<1>4. CASE Goto(a, "derive") /\ Eligible /\ held[a] = <<>>
  BY <1>1, <1>4, InstallMoves
<1>5. after_error("IneligibleCipher") = "userspace"
  BY DEF after_error, KtlsError
<1> QED
  BY <1>3, <1>4, <1>5 DEF check, has_pending, Eligible

LEMMA DeriveStep ==
  ASSUME IInv, NEW a \in Role, derive(a)
  PROVE  IInv'
<1>1. /\ stage[a] = "derive" /\ stage[a] \in Installing /\ UNCHANGED <<tlsVars, dataVars, ktx, krx>>
      /\ Types /\ Staged(a) /\ Counted(a)
  BY DEF derive, Installing, IInv
<1>2. krx[a] = -1 /\ Eligible /\ held[a] = <<>> /\ sent[a] = 0 /\ got[a] = 0 /\ seqs[a] = <<>>
  BY <1>1 DEF Staged, Stage, Running
<1>3. ASSUME NEW kind, Goto(a, after_error(kind)), UNCHANGED seqs PROVE IInv'
  BY <1>1, <1>2, <1>3, AfterError, InstallMoves, SMTT(30) DEF kernelVars
<1>4. CASE seqs' = [seqs EXCEPT ![a] = sequences(a)] /\ Goto(a, "ulp")
  <2>1. Base \in Nat /\ Base' = Base /\ (Eligible' <=> Eligible) /\ "ulp" \in Stage
    BY <1>1 DEF Base, Eligible, tlsVars, Stage
  <2>2. sequences(a) = <<Base, Base>>
    BY <1>1, <1>2, <2>1 DEF sequences, Counted
  <2>3. stage' = [stage EXCEPT ![a] = "ulp"] /\ stage'[a] = "ulp" /\ seqs'[a] = <<Base, Base>>
    BY <1>1, <1>4, <2>2 DEF Goto, Types
  <2>4. seqs' \in [Role -> {<<>>, <<Base, Base>>}]
    BY <1>1, <1>4, <2>2 DEF Types
  <2>5. Types'
    BY <1>1, <2>1, <2>3, <2>4, Zenon DEF Types, tlsVars, dataVars
  <2>6. Staged(a)'
    BY <1>1, <1>2, <2>1, <2>3 DEF Staged, tlsVars, dataVars, Stage, Running
  <2>7. Counted(a)'
    BY <1>1, <2>1, <2>3 DEF Counted, tlsVars, dataVars
  <2>8. \A e \in Role \ {a} : seqs'[e] = seqs[e] /\ ktx'[e] = ktx[e] /\ krx'[e] = krx[e]
    BY <1>1, <1>4 DEF Types
  <2> QED
    BY <1>1, <2>1, <2>3, <2>5, <2>6, <2>7, <2>8, InstallKeeps, Zenon
<1> QED
  BY <1>3, <1>4 DEF derive

LEMMA UlpStep ==
  ASSUME IInv, NEW a \in Role, set_ulp_tls(a)
  PROVE  IInv'
<1>1. stage[a] = "ulp" /\ stage[a] \in Installing /\ UNCHANGED <<tlsVars, dataVars, kernelVars>>
  BY DEF set_ulp_tls, Installing
<1>2. krx[a] = -1
  BY <1>1 DEF IInv, Staged, Stage
<1>3. CASE Goto(a, "rx")
  BY <1>1, <1>3, InstallMoves
<1>4. ASSUME NEW kind, Goto(a, after_error(kind)) PROVE IInv'
  BY <1>1, <1>2, <1>4, AfterError, InstallMoves
<1> QED
  BY <1>3, <1>4 DEF set_ulp_tls

LEMMA RxStep ==
  ASSUME IInv, NEW a \in Role, set_rx(a)
  PROVE  IInv'
<1>0. stage[a] = "rx" /\ stage[a] \in Installing /\ Types /\ Staged(a) /\ Counted(a)
  BY DEF set_rx, Installing, IInv
<1>1. UNCHANGED <<tlsVars, dataVars, seqs, ktx>>
  BY Zenon DEF set_rx
<1>2. krx[a] = -1 /\ Eligible /\ held[a] = <<>> /\ sent[a] = 0 /\ got[a] = 0 /\ seqs[a] # <<>>
  BY <1>0 DEF Staged, Stage, Running
<1>3. CASE Goto(a, after_error(rx_error)) /\ UNCHANGED krx
  BY <1>0, <1>1, <1>2, <1>3, AfterError, InstallMoves, SMTT(30) DEF kernelVars
<1>4. CASE krx' = [krx EXCEPT ![a] = info(a).rx.rec_seq] /\ Goto(a, "tx")
  <2>1. /\ Base \in Nat /\ "tx" \in Stage /\ Base' = Base /\ (Eligible' <=> Eligible)
        /\ held'[a] = held[a] /\ sent'[a] = sent[a] /\ got'[a] = got[a] /\ wseq'[a] = wseq[a]
        /\ rseq'[a] = rseq[a] /\ used'[a] = used[a] /\ broken'[a] = broken[a]
    <3>1. Base \in Nat /\ "tx" \in Stage
      BY <1>0, BaseIs DEF Stage, Running
    <3> QED
      BY <1>1, <3>1, Untouched, Zenon
  <2>2. krx' = [krx EXCEPT ![a] = Base]
    BY <1>2, <1>4, InfoIs, Zenon
  <2>3. stage' = [stage EXCEPT ![a] = "tx"] /\ stage'[a] = "tx" /\ krx'[a] = Base
    BY <1>0, <1>4, <2>2 DEF Goto, Types
  <2>4. Types'
    <3>1. stage \in [Role -> Stage] /\ krx \in [Role -> Nat \cup {-1}] /\ Base \in Nat \cup {-1}
      BY <1>0, <2>1, Zenon DEF Types
    <3>2. stage' \in [Role -> Stage] /\ krx' \in [Role -> Nat \cup {-1}]
      BY <2>1, <2>2, <2>3, <3>1, Update, Zenon
    <3> QED
      BY <1>0, <1>1, <2>1, <3>2, Zenon DEF Types, tlsVars, dataVars
  <2>5. Staged(a)'
    <3>1. seqs'[a] = seqs[a] /\ ktx'[a] = ktx[a]
      BY <1>1, Zenon
    <3> QED
      BY <1>0, <1>2, <2>1, <2>3, <3>1 DEF Staged, Stage, Running
  <2>6. Counted(a)'
    <3>1. ktx'[a] = ktx[a] /\ Base = Base + sent[a] /\ Base = Base + got[a]
      BY <1>1, <1>2, <2>1
    <3> QED
      BY <1>0, <2>1, <2>3, <3>1, Zenon DEF Counted
  <2>7. \A e \in Role \ {a} : seqs'[e] = seqs[e] /\ ktx'[e] = ktx[e] /\ krx'[e] = krx[e]
    BY <1>0, <1>1, <2>2 DEF Types
  <2> QED
    BY <1>0, <1>1, <2>1, <2>3, <2>4, <2>5, <2>6, <2>7, InstallKeeps, Zenon
<1> QED
  BY <1>3, <1>4 DEF set_rx

LEMMA TxStep ==
  ASSUME IInv, NEW a \in Role, set_tx(a)
  PROVE  IInv'
<1>0. stage[a] = "tx" /\ stage[a] \in Installing /\ Types /\ Staged(a) /\ Counted(a)
  BY DEF set_tx, Installing, IInv
<1>1. UNCHANGED <<tlsVars, dataVars, seqs, krx>>
  BY Zenon DEF set_tx
<1>2. Eligible /\ held[a] = <<>> /\ sent[a] = 0 /\ got[a] = 0 /\ seqs[a] # <<>>
  BY <1>0 DEF Staged, Stage, Running
<1>3. CASE Goto(a, after_error(tx_error)) /\ UNCHANGED ktx
  <2>1. after_error(tx_error) = "failed"
    BY DEF after_error, tx_error, KtlsError
  <2> QED
    BY <1>0, <1>1, <1>3, <2>1, InstallMoves DEF kernelVars
<1>4. CASE ktx' = [ktx EXCEPT ![a] = info(a).tx.rec_seq] /\ Goto(a, "ktls")
  <2>1. /\ Base \in Nat /\ "ktls" \in Stage /\ Base' = Base /\ (Eligible' <=> Eligible)
        /\ held'[a] = held[a] /\ sent'[a] = sent[a] /\ got'[a] = got[a] /\ wseq'[a] = wseq[a]
        /\ rseq'[a] = rseq[a] /\ used'[a] = used[a] /\ broken'[a] = broken[a]
    <3>1. Base \in Nat /\ "ktls" \in Stage
      BY <1>0, BaseIs DEF Stage, Running
    <3> QED
      BY <1>1, <3>1, Untouched, Zenon
  <2>2. ktx' = [ktx EXCEPT ![a] = Base]
    BY <1>2, <1>4, InfoIs, Zenon
  <2>3. stage' = [stage EXCEPT ![a] = "ktls"] /\ stage'[a] = "ktls" /\ ktx'[a] = Base
    BY <1>0, <1>4, <2>2 DEF Goto, Types
  <2>4. Types'
    <3>1. stage \in [Role -> Stage] /\ ktx \in [Role -> Nat \cup {-1}] /\ Base \in Nat \cup {-1}
      BY <1>0, <2>1, Zenon DEF Types
    <3>2. stage' \in [Role -> Stage] /\ ktx' \in [Role -> Nat \cup {-1}]
      BY <2>1, <2>2, <2>3, <3>1, Update, Zenon
    <3> QED
      BY <1>0, <1>1, <2>1, <3>2, Zenon DEF Types, tlsVars, dataVars
  <2>5. Staged(a)'
    <3>1. seqs'[a] = seqs[a] /\ krx'[a] = krx[a]
      BY <1>1, Zenon
    <3> QED
      BY <1>0, <1>2, <2>1, <2>3, <3>1 DEF Staged, Stage, Running
  <2>6. Counted(a)'
    <3>1. krx'[a] = krx[a] /\ Base = Base + sent[a] /\ Base = Base + got[a]
      BY <1>1, <1>2, <2>1
    <3> QED
      BY <1>0, <2>1, <2>3, <3>1, Zenon DEF Counted
  <2>7. \A e \in Role \ {a} : seqs'[e] = seqs[e] /\ ktx'[e] = ktx[e] /\ krx'[e] = krx[e]
    BY <1>0, <1>1, <2>2 DEF Types
  <2> QED
    BY <1>0, <1>1, <2>1, <2>3, <2>4, <2>5, <2>6, <2>7, InstallKeeps, Zenon
<1> QED
  BY <1>3, <1>4 DEF set_tx

-----------------------------------------------------------------------------
(* Records.                                                                *)

LEMMA Cut ==
  ASSUME NEW s \in Seq(Record), NEW k \in 0..Len(s)
  PROVE  /\ SubSeq(s, 1, k) \in Seq(Record) /\ Len(SubSeq(s, 1, k)) = k
         /\ \A i \in 1..k : SubSeq(s, 1, k)[i] = s[i]
         /\ SubSeq(s, k + 1, Len(s)) \in Seq(Record) /\ Len(SubSeq(s, k + 1, Len(s))) = Len(s) - k
         /\ \A i \in 1..(Len(s) - k) : SubSeq(s, k + 1, Len(s))[i] = s[k + i]
OBVIOUS

LEMMA HandshakeStep ==
  ASSUME IInv, NEW a \in Role, HandshakeDone(a)
  PROVE  IInv'
<1>1. stage \in [Role -> Stage] /\ held \in [Role -> Seq(Record)] /\ wire \in [Role -> Seq(Record)]
  BY Zenon DEF IInv, Types
<1>2. Types /\ Staged(a) /\ Counted(a) /\ Inbound(a)
  BY Zenon DEF IInv
<1>3. /\ stage[a] = "handshake" /\ stage' = [stage EXCEPT ![a] = "check"]
      /\ UNCHANGED <<suite, ktls_disabled, wseq, rseq, seqs, ktx, krx, sent, got, used, broken>>
  BY Zenon DEF HandshakeDone, Goto, kernelVars
<1>4. PICK k \in 0..Len(wire[a]) :
         /\ held' = [held EXCEPT ![a] = SubSeq(wire[a], 1, k)]
         /\ wire' = [wire EXCEPT ![a] = SubSeq(wire[a], k + 1, Len(wire[a]))]
  BY Zenon DEF HandshakeDone
<1> DEFINE v == wire[a]
           h == SubSeq(v, 1, k)
           w == SubSeq(v, k + 1, Len(v))
<1>5. v \in Seq(Record) /\ Len(v) \in Nat /\ k \in 0..Len(v)
  BY <1>1
<1>6. /\ h \in Seq(Record) /\ Len(h) = k /\ \A i \in 1..k : h[i] = v[i]
      /\ w \in Seq(Record) /\ Len(w) = Len(v) - k
      /\ \A i \in 1..(Len(v) - k) : w[i] = v[k + i]
  BY <1>5, Cut, ZenonT(30)
<1>7. held' = [held EXCEPT ![a] = h] /\ wire' = [wire EXCEPT ![a] = w]
  BY <1>4, Zenon
<1> HIDE DEF h, w
<1>8. Base' = Base /\ (Eligible' <=> Eligible)
  BY <1>3, Zenon DEF Base, Eligible
<1>9. /\ held'[a] = h /\ held' \in [Role -> Seq(Record)] /\ wire'[a] = w /\ wire' \in [Role -> Seq(Record)]
      /\ \A e \in Role : e # a => held'[e] = held[e] /\ wire'[e] = wire[e]
  BY <1>1, <1>6, <1>7, Update, Zenon
<1>10. /\ stage'[a] = "check" /\ stage' \in [Role -> Stage]
       /\ \A e \in Role : e # a => stage'[e] = stage[e]
  <2>1. "check" \in Stage
    BY DEF Stage
  <2> QED
    BY <1>1, <1>3, <2>1, Update, Zenon
<1>11. Types'
  BY <1>2, <1>3, <1>8, <1>9, <1>10, Zenon DEF Types
<1>12. Staged(a)' /\ Counted(a)'
  <2>1. /\ wseq'[a] = wseq[a] /\ rseq'[a] = rseq[a] /\ seqs'[a] = seqs[a] /\ ktx'[a] = ktx[a] /\ krx'[a] = krx[a]
        /\ sent'[a] = sent[a] /\ got'[a] = got[a] /\ used'[a] = used[a] /\ broken'[a] = broken[a]
        /\ stage[a] = "handshake" /\ stage'[a] = "check"
    BY <1>3, <1>10, Zenon
  <2>2. Staged(a)'
    BY <1>2, <1>8, <2>1 DEF Staged, Running, Stage
  <2>3. Counted(a)'
    BY <1>2, <1>8, <2>1 DEF Counted
  <2> QED
    BY <2>2, <2>3
<1>13. ASSUME NEW e \in Role, e # a PROVE Staged(e)' /\ Counted(e)'
  <2>1. Staged(e) /\ Counted(e) /\ held'[e] = held[e] /\ stage'[e] = stage[e]
    BY <1>9, <1>10, <1>13, Zenon DEF IInv
  <2> QED
    BY <1>3, <1>8, <2>1, Keeps, Zenon
<1>14. ASSUME NEW e \in Role PROVE stage[e] = "ktls" => stage'[e] = "ktls"
  BY <1>3, <1>10
<1>15. ASSUME NEW e \in Role, e # a PROVE Inbound(e)'
  <2>1. Inbound(e) /\ held'[e] = held[e] /\ wire'[e] = wire[e] /\ Peer(e) \in Role
    BY <1>9, <1>15, Peers, Zenon DEF IInv
  <2> QED
    BY <1>3, <1>8, <1>14, <2>1, KeepsInbound, Zenon
<1>16. Inbound(a)'
  <2>1. got[a] = 0 /\ Len(held[a]) = 0
    BY <1>2, <1>3 DEF Staged, Running
  <2>2. /\ got[a] + Len(held[a]) + Len(v) = sent[Peer(a)]
        /\ \A i \in 1..Len(v) : v[i].seq = Base + got[a] + Len(held[a]) + i - 1
        /\ \A i \in 1..Len(v) : v[i].by = "kernel" => stage[Peer(a)] = "ktls"
    BY <1>2, Zenon DEF Inbound
  <2>3. stage'[Peer(a)] = stage[Peer(a)]
    BY <1>10, Peers, Zenon
  <2>4. ASSUME 0 + Len(h) + Len(w) = sent[Peer(a)],
               \A i \in 1..Len(h) : h[i].seq = Base + 0 + i - 1,
               \A i \in 1..Len(w) : w[i].seq = Base + 0 + Len(h) + i - 1,
               \A i \in 1..Len(h) : h[i].by = "kernel" => stage[Peer(a)] = "ktls",
               \A i \in 1..Len(w) : w[i].by = "kernel" => stage[Peer(a)] = "ktls"
        PROVE  Inbound(a)'
    BY <1>3, <1>8, <1>9, <2>1, <2>3, <2>4, Zenon DEF Inbound
  <2> DEFINE b == Base
             s == sent[Peer(a)]
             K(x) == x.by = "kernel" => stage[Peer(a)] = "ktls"
  <2>5. b \in Nat
    BY <1>2, BaseIs
  <2>6. 0 + 0 + Len(v) = s
    BY <2>1, <2>2, Zenon
  <2>7. \A i \in 1..Len(v) : v[i].seq = b + 0 + 0 + i - 1 /\ K(v[i])
    BY <2>1, <2>2, Zenon
  <2> HIDE DEF v, b, s, K
  <2>8. 0 + Len(h) + Len(w) = s
    BY <1>5, <1>6, <2>6
  <2>9. ASSUME NEW i \in 1..Len(h) PROVE h[i].seq = b + 0 + i - 1 /\ K(h[i])
    <3>1. i \in 1..Len(v) /\ h[i] = v[i] /\ b + 0 + 0 + i - 1 = b + 0 + i - 1
      BY <1>5, <1>6, <2>5
    <3> QED
      BY <2>7, <3>1, Zenon
  <2>10. ASSUME NEW i \in 1..Len(w) PROVE w[i].seq = b + 0 + Len(h) + i - 1 /\ K(w[i])
    <3>1. k + i \in 1..Len(v) /\ w[i] = v[k + i] /\ b + 0 + 0 + (k + i) - 1 = b + 0 + Len(h) + i - 1
      BY <1>5, <1>6, <2>5
    <3> QED
      BY <2>7, <3>1, Zenon
  <2> QED
    BY <2>4, <2>8, <2>9, <2>10, Zenon DEF b, s, K
<1> QED
  BY <1>11, <1>12, <1>13, <1>15, <1>16, Zenon DEF IInv

LEMMA ExplicitIs ==
  ASSUME IInv, NEW a \in Role, stage[a] \in Running
  PROVE  Explicit(a) = Base + sent[a]
<1>1. Types /\ Staged(a) /\ Counted(a) /\ Base \in Nat /\ sent[a] \in Nat
  <2>1. Types /\ Staged(a) /\ Counted(a) /\ sent[a] \in Nat
    BY Zenon DEF IInv, Types
  <2> QED
    BY <2>1, BaseIs
<1>2. CASE stage[a] = "userspace"
  <2>1. wseq[a] = Base + sent[a]
    BY <1>1, <1>2 DEF Counted
  <2> QED
    BY <1>2, <2>1 DEF Explicit
<1>3. CASE stage[a] = "ktls"
  <2>1. ktx[a] = Base + sent[a] /\ seqs[a] # <<>>
    BY <1>1, <1>3, SMTT(30) DEF Counted, Staged
  <2>2. /\ info(a).tx.rec_seq = Base
        /\ suite.version = "1.2" /\ info(a).tx.type # 54 => info(a).tx.iv[1] = Base
    BY <2>1, InfoIs, SMTT(30)
  <2>3. CASE suite.version = "1.2" /\ info(a).tx.type # 54
    <3>1. Explicit(a) = info(a).tx.iv[1] + ktx[a] - info(a).tx.rec_seq
      BY <1>3, <2>3 DEF Explicit
    <3>2. Base + (Base + sent[a]) - Base = Base + sent[a]
      BY <1>1
    <3> QED
      BY <2>1, <2>2, <2>3, <3>1, <3>2
  <2>4. CASE ~(suite.version = "1.2" /\ info(a).tx.type # 54)
    BY <1>3, <2>1, <2>4 DEF Explicit
  <2> QED
    BY <2>3, <2>4
<1> QED
  BY <1>2, <1>3 DEF Running

LEMMA SendStep ==
  ASSUME IInv, NEW a \in Role, Send(a)
  PROVE  IInv'
<1> DEFINE p   == Peer(a)
           n   == Base + sent[a]
           rec == [by |-> IF stage[a] = "ktls" THEN "kernel" ELSE "libssl", seq |-> n]
<1>1. /\ stage \in [Role -> Stage] /\ held \in [Role -> Seq(Record)] /\ wire \in [Role -> Seq(Record)]
      /\ got \in [Role -> Nat] /\ sent \in [Role -> Nat] /\ wseq \in [Role -> Nat]
      /\ ktx \in [Role -> Nat \cup {-1}] /\ used \in [Role -> SUBSET Nat]
  BY Zenon DEF IInv, Types
<1>2. p \in Role /\ p # a /\ Peer(p) = a
  BY Peers
<1>3. Types /\ Staged(a) /\ Counted(a) /\ Inbound(p)
  BY <1>2, Zenon DEF IInv
<1>4. /\ stage[a] \in Running /\ sent[a] < MaxSent
      /\ UNCHANGED <<stage, suite, ktls_disabled, rseq, held, seqs, krx, got, broken>>
  BY Zenon DEF Send
<1>5. used' = [used EXCEPT ![a] = used[a] \cup {n}] /\ sent' = [sent EXCEPT ![a] = sent[a] + 1]
  BY <1>4, ExplicitIs, Zenon DEF Send
<1>6. /\ wire' = [wire EXCEPT ![p] = Append(wire[p], rec)]
      /\ stage[a] = "ktls" => ktx' = [ktx EXCEPT ![a] = n + 1] /\ wseq' = wseq
      /\ stage[a] # "ktls" => ktx' = ktx /\ wseq' = [wseq EXCEPT ![a] = n + 1]
  BY <1>3, Zenon DEF Send, Counted
<1>7. Base' = Base /\ (Eligible' <=> Eligible)
  BY <1>4, Zenon DEF Base, Eligible
<1>8. Base \in Nat /\ sent[a] \in Nat /\ wire[p] \in Seq(Record) /\ used[a] \in SUBSET Nat
  BY <1>1, <1>2, <1>3, BaseIs
<1>9. n \in Nat /\ n + 1 \in Nat /\ sent[a] + 1 \in Nat /\ n + 1 = Base + (sent[a] + 1)
  BY <1>8
<1>10. rec \in Record /\ rec.seq = n /\ (rec.by = "kernel" => stage[a] = "ktls")
  BY <1>9 DEF Record
<1> HIDE DEF rec, n, p
<1>11. /\ Append(wire[p], rec) \in Seq(Record) /\ Len(Append(wire[p], rec)) = Len(wire[p]) + 1
       /\ Len(wire[p]) \in Nat /\ Append(wire[p], rec)[Len(wire[p]) + 1] = rec
       /\ \A i \in 1..Len(wire[p]) : Append(wire[p], rec)[i] = wire[p][i]
  BY <1>8, <1>10
<1>12. /\ wire'[p] = Append(wire[p], rec) /\ wire' \in [Role -> Seq(Record)]
       /\ \A e \in Role : e # p => wire'[e] = wire[e]
  BY <1>1, <1>2, <1>6, <1>11, Update, Zenon
<1>13. /\ sent'[a] = sent[a] + 1 /\ sent' \in [Role -> Nat]
       /\ \A e \in Role : e # a => sent'[e] = sent[e]
  BY <1>1, <1>5, <1>9, Update, Zenon
<1>14. /\ used'[a] = used[a] \cup {n} /\ used' \in [Role -> SUBSET Nat]
       /\ \A e \in Role : e # a => used'[e] = used[e]
  <2>1. used[a] \cup {n} \in SUBSET Nat
    BY <1>8, <1>9
  <2> QED
    BY <1>1, <1>5, <2>1, Update, Zenon
<1>15. /\ ktx' \in [Role -> Nat \cup {-1}] /\ wseq' \in [Role -> Nat]
       /\ \A e \in Role : e # a => ktx'[e] = ktx[e] /\ wseq'[e] = wseq[e]
       /\ stage[a] = "ktls" => ktx'[a] = n + 1
       /\ stage[a] # "ktls" => wseq'[a] = n + 1 /\ ktx' = ktx
  <2>1. n + 1 \in Nat \cup {-1}
    BY <1>9
  <2>2. CASE stage[a] = "ktls"
    <3>1. ktx' = [ktx EXCEPT ![a] = n + 1] /\ wseq' = wseq
      BY <1>6, <2>2, Zenon
    <3> QED
      BY <1>1, <2>1, <2>2, <3>1, Update, Zenon
  <2>3. CASE stage[a] # "ktls"
    <3>1. ktx' = ktx /\ wseq' = [wseq EXCEPT ![a] = n + 1]
      BY <1>6, <2>3, Zenon
    <3>2. n + 1 \in Nat
      BY <1>9
    <3> QED
      BY <1>1, <2>3, <3>1, <3>2, Update, Zenon
  <2> QED
    BY <2>2, <2>3, Zenon
<1>16. Types'
  BY <1>3, <1>4, <1>7, <1>12, <1>13, <1>14, <1>15, Zenon DEF Types
<1>17. Staged(a)' /\ Counted(a)'
  <2>1. /\ stage'[a] = stage[a] /\ rseq'[a] = rseq[a] /\ held'[a] = held[a] /\ seqs'[a] = seqs[a]
        /\ krx'[a] = krx[a] /\ got'[a] = got[a] /\ broken'[a] = broken[a]
    BY <1>4, Zenon
  <2>2. Staged(a)'
    BY <1>3, <1>4, <1>7, <1>15, <2>1 DEF Staged, Running
  <2>3. used'[a] = 0..(Base + sent'[a] - 1)
    <3>1. used[a] = 0..(n - 1)
      <4>1. used[a] = 0..(Base + sent[a] - 1)
        BY <1>3, Zenon DEF Counted
      <4>2. n = Base + sent[a]
        BY DEF n
      <4> QED
        BY <1>8, <4>1, <4>2
    <3>2. (0..(n - 1)) \cup {n} = 0..n
      BY <1>9
    <3>3. Base + sent'[a] - 1 = n
      BY <1>8, <1>13 DEF n
    <3> QED
      BY <1>14, <3>1, <3>2, <3>3, Zenon
  <2>4. sent'[a] <= MaxSent
    BY <1>4, <1>8, <1>13, ConstantsAssumption
  <2>5. Base + sent'[a] = n + 1
    BY <1>9, <1>13, Zenon
  <2>6. Counted(a)'
    BY <1>3, <1>7, <1>15, <2>1, <2>3, <2>4, <2>5, Zenon DEF Counted
  <2> QED
    BY <2>2, <2>6
<1>18. ASSUME NEW e \in Role, e # a PROVE Staged(e)' /\ Counted(e)'
  <2>1. /\ Staged(e) /\ Counted(e) /\ ktx'[e] = ktx[e] /\ wseq'[e] = wseq[e]
        /\ sent'[e] = sent[e] /\ used'[e] = used[e]
    BY <1>13, <1>14, <1>15, <1>18, Zenon DEF IInv
  <2>2. /\ stage'[e] = stage[e] /\ rseq'[e] = rseq[e] /\ held'[e] = held[e] /\ seqs'[e] = seqs[e]
        /\ krx'[e] = krx[e] /\ got'[e] = got[e] /\ broken'[e] = broken[e]
    BY <1>4, Zenon
  <2> QED
    BY <1>7, <2>1, <2>2, Keeps, Zenon
<1>19. Inbound(a)'
  <2>1. Inbound(a) /\ wire'[a] = wire[a] /\ sent'[Peer(a)] = sent[Peer(a)]
    BY <1>2, <1>12, <1>13, Zenon DEF IInv, p
  <2>2. got'[a] = got[a] /\ held'[a] = held[a] /\ stage'[Peer(a)] = stage[Peer(a)]
    BY <1>4, Zenon
  <2> QED
    BY <1>7, <2>1, <2>2, KeepsInbound, Zenon
<1>20. Inbound(p)'
  <2> DEFINE w == wire[p]
             g == got[p]
             h == Len(held[p])
             l == Len(w)
             m == sent[a]
  <2>1. got'[p] = got[p] /\ held'[p] = held[p] /\ stage' = stage
    BY <1>4, Zenon
  <2>2. got[p] \in Nat /\ held[p] \in Seq(Record)
    BY <1>1, <1>2
  <2>3. g \in Nat /\ h \in Nat /\ l \in Nat /\ m \in Nat
    BY <1>8, <2>2
  <2>4. g + h + l = m
    BY <1>2, <1>3, Zenon DEF Inbound
  <2>5. /\ \A i \in 1..l : w[i].seq = Base + g + h + i - 1
        /\ \A i \in 1..l : w[i].by = "kernel" => stage[a] = "ktls"
    BY <1>2, <1>3, Zenon DEF Inbound
  <2>6. n = Base + m
    BY DEF n
  <2>7. /\ wire'[p] = Append(w, rec) /\ Len(wire'[p]) = l + 1 /\ wire'[p][l + 1] = rec
        /\ \A i \in 1..l : wire'[p][i] = w[i]
    BY <1>11, <1>12, Zenon
  <2>8. /\ \A i \in 1..Len(held[p]) : held[p][i].seq = Base + g + i - 1
        /\ \A i \in 1..Len(held[p]) : held[p][i].by = "kernel" => stage[a] = "ktls"
    BY <1>2, <1>3, Zenon DEF Inbound
  <2>9. ASSUME g + h + Len(wire'[p]) = m + 1,
               \A i \in 1..Len(wire'[p]) : wire'[p][i].seq = Base + g + h + i - 1,
               \A i \in 1..Len(wire'[p]) : wire'[p][i].by = "kernel" => stage[a] = "ktls"
        PROVE  Inbound(p)'
    BY <1>2, <1>7, <1>13, <2>1, <2>8, <2>9, Zenon DEF Inbound
  <2> HIDE DEF w, g, h, l, m
  <2>10. g + h + (l + 1) = m + 1 /\ n = Base + g + h + (l + 1) - 1
    BY <1>8, <2>3, <2>4, <2>6
  <2>11. ASSUME NEW i \in 1..Len(wire'[p])
         PROVE  /\ wire'[p][i].seq = Base + g + h + i - 1
                /\ wire'[p][i].by = "kernel" => stage[a] = "ktls"
    <3>1. CASE i = l + 1
      BY <1>10, <2>7, <2>10, <3>1, Zenon
    <3>2. CASE i \in 1..l
      BY <2>5, <2>7, <3>2, Zenon
    <3>3. i = l + 1 \/ i \in 1..l
      BY <2>3, <2>7
    <3> QED
      BY <3>1, <3>2, <3>3, Zenon
  <2> QED
    BY <2>7, <2>9, <2>10, <2>11, Zenon
<1> QED
  BY <1>16, <1>17, <1>18, <1>19, <1>20, Peers, Zenon DEF IInv, p

\* The next record for r is the one its data path waits for.
LEMMA Opens ==
  ASSUME IInv, NEW a \in Role, stage[a] \in Running, NEW rec, rec.seq = Base + got[a],
         rec.by = "kernel" => stage[Peer(a)] = "ktls"
  PROVE  SealOf(rec, Peer(a)) = OpenedBy(a)
<1> DEFINE seal == LibsslSeal(suite.version, suite.id, Peer(a), Base + got[a])
<1>1. Peer(a) \in Role /\ Staged(Peer(a)) /\ Staged(a) /\ Counted(a)
  BY Peers DEF IInv
<1>2. SealOf(rec, Peer(a)) = seal
  <2>1. CASE rec.by = "kernel"
    <3>1. seqs[Peer(a)] # <<>>
      BY <1>1, <2>1, SMTT(30) DEF Staged
    <3>2. KernelSeal(info(Peer(a)).tx, rec.seq) = LibsslSeal(suite.version, suite.id, Peer(a), rec.seq)
      BY <1>1, <3>1, InfoIs
    <3> QED
      BY <2>1, <3>2, SMTT(30) DEF SealOf
  <2>2. CASE rec.by # "kernel"
    BY <2>2 DEF SealOf
  <2> QED
    BY <2>1, <2>2, SMTT(30)
<1>3. OpenedBy(a) = seal
  <2>1. CASE stage[a] = "ktls"
    <3>1. seqs[a] # <<>> /\ krx[a] = Base + got[a]
      BY <1>1, <2>1, SMTT(30) DEF Staged, Counted
    <3>2. KernelSeal(info(a).rx, krx[a]) = LibsslSeal(suite.version, suite.id, Peer(a), krx[a])
      BY <3>1, InfoIs, SMTT(30)
    <3> QED
      BY <2>1, <3>1, <3>2, SMTT(30) DEF OpenedBy
  <2>2. CASE stage[a] # "ktls"
    BY <1>1, <2>2 DEF OpenedBy, Counted
  <2> QED
    BY <2>1, <2>2, SMTT(30)
<1> QED
  BY <1>2, <1>3

LEMMA Behead ==
  ASSUME NEW s \in Seq(Record), s # <<>>
  PROVE  /\ Tail(s) \in Seq(Record) /\ Len(Tail(s)) = Len(s) - 1 /\ Head(s) = s[1] /\ Len(s) \in Nat \ {0}
         /\ \A i \in 1..(Len(s) - 1) : Tail(s)[i] = s[i + 1]
OBVIOUS

LEMMA RecvStep ==
  ASSUME IInv, NEW a \in Role, Recv(a)
  PROVE  IInv'
<1> DEFINE own  == stage[a] = "userspace" /\ held[a] # <<>>
           next == IF own THEN held[a] ELSE wire[a]
<1>1. /\ stage \in [Role -> Stage] /\ held \in [Role -> Seq(Record)] /\ wire \in [Role -> Seq(Record)]
      /\ got \in [Role -> Nat] /\ sent \in [Role -> Nat] /\ rseq \in [Role -> Nat]
      /\ krx \in [Role -> Nat \cup {-1}]
  BY Zenon DEF IInv, Types
<1>2. Types /\ Staged(a) /\ Counted(a) /\ Inbound(a)
  BY Zenon DEF IInv
<1>3. stage[a] \in Running /\ UNCHANGED <<stage, suite, ktls_disabled, wseq, seqs, ktx, sent, used>>
  BY Zenon DEF Recv
<1>4. /\ held' = IF own THEN [held EXCEPT ![a] = Tail(@)] ELSE held
      /\ wire' = IF own THEN wire ELSE [wire EXCEPT ![a] = Tail(@)]
  BY Zenon DEF Recv
<1>5. Base' = Base /\ (Eligible' <=> Eligible) /\ suite' = suite
  BY <1>3, Zenon DEF Base, Eligible
<1>6. Base \in Nat /\ got[a] \in Nat /\ held[a] \in Seq(Record) /\ wire[a] \in Seq(Record)
  BY <1>1, <1>2, BaseIs
<1>7. /\ own => held[a] # <<>> /\ stage[a] # "ktls" /\ next = held[a]
      /\ ~own => held[a] = <<>> /\ Len(held[a]) = 0 /\ wire[a] # <<>> /\ next = wire[a]
  <2>1. next # <<>>
    BY Zenon DEF Recv
  <2> QED
    BY <1>2, <1>3, <2>1 DEF Staged, Running
<1>8. own \in BOOLEAN
  OBVIOUS
<1>9. SealOf(Head(next), Peer(a)) = OpenedBy(a) =>
        /\ got' = [got EXCEPT ![a] = @ + 1] /\ broken' = broken
        /\ stage[a] = "ktls" => krx' = [krx EXCEPT ![a] = @ + 1] /\ rseq' = rseq
        /\ stage[a] # "ktls" => rseq' = [rseq EXCEPT ![a] = @ + 1] /\ krx' = krx
  BY Zenon DEF Recv
<1> HIDE DEF own, next
<1>10. Head(next).seq = Base + got[a] /\ (Head(next).by = "kernel" => stage[Peer(a)] = "ktls")
  <2>1. CASE own
    <3>1. Head(next) = held[a][1] /\ 1 \in 1..Len(held[a])
      BY <1>6, <1>7, <2>1, Behead
    <3>2. \A i \in 1..Len(held[a]) : /\ held[a][i].seq = Base + got[a] + i - 1
                                     /\ held[a][i].by = "kernel" => stage[Peer(a)] = "ktls"
      BY <1>2, Zenon DEF Inbound
    <3> QED
      BY <1>6, <3>1, <3>2
  <2>2. CASE ~own
    <3>1. Head(next) = wire[a][1] /\ 1 \in 1..Len(wire[a]) /\ Len(held[a]) = 0
      BY <1>6, <1>7, <2>2, Behead
    <3>2. \A i \in 1..Len(wire[a]) : /\ wire[a][i].seq = Base + got[a] + Len(held[a]) + i - 1
                                     /\ wire[a][i].by = "kernel" => stage[Peer(a)] = "ktls"
      BY <1>2, Zenon DEF Inbound
    <3> QED
      BY <1>6, <3>1, <3>2
  <2> QED
    BY <2>1, <2>2
<1>11. /\ got' = [got EXCEPT ![a] = got[a] + 1] /\ broken' = broken
       /\ stage[a] = "ktls" => krx' = [krx EXCEPT ![a] = krx[a] + 1] /\ rseq' = rseq
       /\ stage[a] # "ktls" => rseq' = [rseq EXCEPT ![a] = rseq[a] + 1] /\ krx' = krx
  BY <1>3, <1>9, <1>10, Opens, Zenon
<1>12. /\ got'[a] = got[a] + 1 /\ got' \in [Role -> Nat]
       /\ \A e \in Role : e # a => got'[e] = got[e]
  <2>1. got[a] + 1 \in Nat
    BY <1>6
  <2> QED
    BY <1>1, <1>11, <2>1, Update, Zenon
<1>13. /\ own => held'[a] = Tail(held[a]) /\ wire'[a] = wire[a]
       /\ ~own => held'[a] = held[a] /\ wire'[a] = Tail(wire[a])
       /\ held' \in [Role -> Seq(Record)] /\ wire' \in [Role -> Seq(Record)]
       /\ \A e \in Role : e # a => held'[e] = held[e] /\ wire'[e] = wire[e]
  <2>1. CASE own
    <3>1. Tail(held[a]) \in Seq(Record) /\ held' = [held EXCEPT ![a] = Tail(held[a])] /\ wire' = wire
      BY <1>4, <1>6, <1>7, <2>1, Behead, Zenon
    <3> QED
      BY <1>1, <2>1, <3>1, Update, Zenon
  <2>2. CASE ~own
    <3>1. Tail(wire[a]) \in Seq(Record) /\ wire' = [wire EXCEPT ![a] = Tail(wire[a])] /\ held' = held
      BY <1>4, <1>6, <1>7, <2>2, Behead, Zenon
    <3> QED
      BY <1>1, <2>2, <3>1, Update, Zenon
  <2> QED
    BY <1>8, <2>1, <2>2, Zenon
<1>14. /\ Base + got[a] + 1 \in Nat /\ Base + got[a] + 1 \in Nat \cup {-1}
       /\ Base + got[a] + 1 = Base + (got[a] + 1)
  BY <1>6
<1>15. /\ krx' \in [Role -> Nat \cup {-1}] /\ rseq' \in [Role -> Nat]
       /\ \A e \in Role : e # a => krx'[e] = krx[e] /\ rseq'[e] = rseq[e]
       /\ stage[a] = "ktls" => krx'[a] = Base + got'[a]
       /\ stage[a] # "ktls" => rseq'[a] = Base + got'[a] /\ krx' = krx
  <2>1. CASE stage[a] = "ktls"
    <3>1. krx[a] = Base + got[a]
      BY <1>2, <2>1, Zenon DEF Counted
    <3>2. krx[a] + 1 \in Nat \cup {-1} /\ krx[a] + 1 = Base + got'[a]
      BY <1>12, <1>14, <3>1, Zenon
    <3>3. krx' = [krx EXCEPT ![a] = krx[a] + 1] /\ rseq' = rseq
      BY <1>11, <2>1, Zenon
    <3> QED
      BY <1>1, <2>1, <3>2, <3>3, Update, Zenon
  <2>2. CASE stage[a] # "ktls"
    <3>1. rseq[a] = Base + got[a]
      BY <1>2, <2>2, Zenon DEF Counted
    <3>2. rseq[a] + 1 \in Nat /\ rseq[a] + 1 = Base + got'[a]
      BY <1>12, <1>14, <3>1, Zenon
    <3>3. rseq' = [rseq EXCEPT ![a] = rseq[a] + 1] /\ krx' = krx
      BY <1>11, <2>2, Zenon
    <3> QED
      BY <1>1, <2>2, <3>2, <3>3, Update, Zenon
  <2> QED
    BY <2>1, <2>2, Zenon
<1>16. Types'
  BY <1>2, <1>3, <1>5, <1>11, <1>12, <1>13, <1>15, Zenon DEF Types
<1>17. Staged(a)' /\ Counted(a)'
  <2>1. stage[a] = "ktls" => held'[a] = held[a]
    BY <1>7, <1>8, <1>13, Zenon
  <2>2. Staged(a)'
    BY <1>2, <1>3, <1>5, <1>7, <1>15, <2>1 DEF Staged, Running, Stage
  <2>3. Counted(a)'
    <3>1. stage[a] \in {"tx", "ktls"} => stage[a] = "ktls"
      BY <1>3 DEF Running
    <3>2. /\ stage'[a] = stage[a] /\ ktx'[a] = ktx[a] /\ wseq'[a] = wseq[a] /\ sent'[a] = sent[a]
          /\ used'[a] = used[a] /\ broken'[a] = broken[a]
      BY <1>3, <1>11, Zenon
    <3> QED
      BY <1>2, <1>5, <1>15, <3>1, <3>2, Zenon DEF Counted
  <2> QED
    BY <2>2, <2>3
<1>18. ASSUME NEW e \in Role, e # a PROVE Staged(e)' /\ Counted(e)' /\ Inbound(e)'
  <2>1. Staged(e) /\ Counted(e) /\ Inbound(e)
    BY Zenon DEF IInv
  <2>2. /\ stage'[e] = stage[e] /\ seqs'[e] = seqs[e] /\ ktx'[e] = ktx[e] /\ wseq'[e] = wseq[e]
        /\ sent'[e] = sent[e] /\ used'[e] = used[e] /\ broken'[e] = broken[e]
        /\ sent'[Peer(e)] = sent[Peer(e)] /\ stage'[Peer(e)] = stage[Peer(e)]
    BY <1>3, <1>11, Zenon
  <2>3. held'[e] = held[e] /\ wire'[e] = wire[e] /\ got'[e] = got[e] /\ krx'[e] = krx[e] /\ rseq'[e] = rseq[e]
    BY <1>12, <1>13, <1>15, <1>18, Zenon
  <2> QED
    BY <1>5, <2>1, <2>2, <2>3, Keeps, KeepsInbound, Zenon
<1>19. Inbound(a)'
  <2> DEFINE h == held[a]
             w == wire[a]
             g == got[a]
             b == Base
             s == sent[Peer(a)]
             K(rec) == rec.by = "kernel" => stage[Peer(a)] = "ktls"
  <2>1. g \in Nat /\ b \in Nat /\ s \in Nat /\ Len(h) \in Nat /\ Len(w) \in Nat
    BY <1>1, <1>6, Peers
  <2>2. g + Len(h) + Len(w) = s
    BY <1>2, Zenon DEF Inbound
  <2>3. /\ \A i \in 1..Len(h) : h[i].seq = b + g + i - 1 /\ K(h[i])
        /\ \A i \in 1..Len(w) : w[i].seq = b + g + Len(h) + i - 1 /\ K(w[i])
    BY <1>2, Zenon DEF Inbound
  <2>4. ASSUME NEW hh, NEW ww, held'[a] = hh, wire'[a] = ww, (g + 1) + Len(hh) + Len(ww) = s,
               \A i \in 1..Len(hh) : hh[i].seq = b + (g + 1) + i - 1 /\ K(hh[i]),
               \A i \in 1..Len(ww) : ww[i].seq = b + (g + 1) + Len(hh) + i - 1 /\ K(ww[i])
        PROVE  Inbound(a)'
    BY <1>3, <1>5, <1>12, <2>4, Zenon DEF Inbound
  <2>5. CASE own
    <3>1. held'[a] = Tail(h) /\ wire'[a] = w
      BY <1>13, <2>5, Zenon
    <3>2. /\ Len(Tail(h)) = Len(h) - 1 /\ Len(h) \in Nat \ {0}
          /\ \A i \in 1..(Len(h) - 1) : Tail(h)[i] = h[i + 1] /\ i + 1 \in 1..Len(h)
      BY <1>6, <1>7, <2>5, Behead
    <3> HIDE DEF h, w, g, b, s, K
    <3>3. (g + 1) + Len(Tail(h)) + Len(w) = s
      BY <2>1, <2>2, <3>2
    <3>4. \A i \in 1..Len(Tail(h)) : Tail(h)[i].seq = b + (g + 1) + i - 1 /\ K(Tail(h)[i])
      BY <2>1, <2>3, <3>2
    <3>5. \A i \in 1..Len(w) : w[i].seq = b + (g + 1) + Len(Tail(h)) + i - 1 /\ K(w[i])
      BY <2>1, <2>3, <3>2
    <3> QED
      BY <2>4, <3>1, <3>3, <3>4, <3>5, Zenon
  <2>6. CASE ~own
    <3>1. Len(h) = 0
      BY <1>7, <2>6, Zenon
    <3>2. held'[a] = h /\ wire'[a] = Tail(w)
      BY <1>13, <2>6, Zenon
    <3>3. /\ Len(Tail(w)) = Len(w) - 1 /\ Len(w) \in Nat \ {0}
          /\ \A i \in 1..(Len(w) - 1) : Tail(w)[i] = w[i + 1] /\ i + 1 \in 1..Len(w)
      BY <1>6, <1>7, <2>6, Behead
    <3> HIDE DEF h, w, g, b, s, K
    <3>4. (g + 1) + Len(h) + Len(Tail(w)) = s
      BY <2>1, <2>2, <3>1, <3>3
    <3>5. \A i \in 1..Len(Tail(w)) : Tail(w)[i].seq = b + (g + 1) + Len(h) + i - 1 /\ K(Tail(w)[i])
      BY <2>1, <2>3, <3>1, <3>3
    <3>6. \A i \in 1..Len(h) : h[i].seq = b + (g + 1) + i - 1 /\ K(h[i])
      BY <3>1
    <3> QED
      BY <2>4, <3>4, <3>5, <3>6, <3>2, Zenon
  <2> QED
    BY <2>5, <2>6
<1> QED
  BY <1>16, <1>17, <1>18, <1>19, Zenon DEF IInv

-----------------------------------------------------------------------------
(* The theorems.                                                           *)

LEMMA StepInv ==
  ASSUME IInv, [Next]_vars
  PROVE  IInv'
<1>1. ASSUME NEW r \in Role, HandshakeDone(r) \/ Install(r) \/ Send(r) \/ Recv(r) PROVE IInv'
  BY <1>1, HandshakeStep, CheckStep, DeriveStep, UlpStep, RxStep, TxStep, SendStep, RecvStep DEF Install
<1>2. CASE UNCHANGED vars
  <2>1. /\ UNCHANGED <<stage, suite, ktls_disabled, wseq, rseq, held, seqs, ktx, krx, wire, sent, got, used, broken>>
        /\ Base' = Base /\ (Eligible' <=> Eligible)
    BY <1>2 DEF vars, tlsVars, kernelVars, dataVars, Base, Eligible
  <2>2. Types'
    BY <2>1, Zenon DEF IInv, Types
  <2>3. ASSUME NEW r \in Role PROVE Staged(r)' /\ Counted(r)' /\ Inbound(r)'
    <3>1. Staged(r) /\ Counted(r) /\ Inbound(r)
      BY Zenon DEF IInv
    <3> QED
      BY <2>1, <3>1, Keeps, KeepsInbound, Zenon
  <2> QED
    BY <2>2, <2>3, Zenon DEF IInv
<1> QED
  BY <1>1, <1>2 DEF Next

(* The invariant holds in every reachable state.                           *)
THEOREM Invariant == Spec => []IInv
<1>1. Init => IInv
  BY InitInv
<1>2. IInv /\ [Next]_vars => IInv'
  BY StepInv
<1> QED
  BY <1>1, <1>2, PTL DEF Spec

(* The state keeps its type, and every crypto_info given to the kernel is  *)
(* complete, for every suite (derive_crypto_info).                         *)
THEOREM TypeCorrect == Spec => []TypeOK
<1>1. ASSUME IInv PROVE TypeOK
  <2>1. \A r \in Role : seqs[r] # <<>> => CryptoInfoOK(info(r).tx) /\ CryptoInfoOK(info(r).rx)
    BY <1>1, InfoIs
  <2>2. \A r \in Role : sent[r] \in 0..MaxSent
    <3>1. \A r \in Role : sent[r] \in Nat /\ sent[r] <= MaxSent
      BY <1>1, Zenon DEF IInv, Types, Counted
    <3>2. MaxSent \in Nat
      BY ConstantsAssumption
    <3> QED
      <4> TAKE r \in Role
      <4> DEFINE m == sent[r]
      <4>1. m \in Nat /\ m <= MaxSent
        BY <3>1
      <4> HIDE DEF m
      <4>2. m \in 0..MaxSent
        BY <3>2, <4>1
      <4> QED
        BY <4>2 DEF m
  <2>3. Types
    BY <1>1, Zenon DEF IInv
  <2> QED
    BY <2>1, <2>2, <2>3, Zenon DEF Types, TypeOK
<1> QED
  BY <1>1, Invariant, PTL

(* Every record opens where it arrives, whichever endpoints moved to the   *)
(* kernel, whenever they did and however much was sent meanwhile           *)
(* (try_auto_install_ktls, install_ktls).                                  *)
THEOREM EveryRecordOpens == Spec => []NothingRejected
<1>1. IInv => NothingRejected
  BY ZenonT(30) DEF IInv, Counted, NothingRejected
<1> QED
  BY <1>1, Invariant, PTL

(* A stream that is handed out has both directions in the kernel or        *)
(* neither, whichever call failed (install_rx_then_tx).                    *)
THEOREM NeverHalfInstalled == Spec => []BothOrNeither
<1>1. ASSUME IInv, NEW r \in Role
      PROVE  /\ stage[r] = "ktls" => krx[r] # -1 /\ ktx[r] # -1
             /\ stage[r] = "userspace" => krx[r] = -1 /\ ktx[r] = -1
  <2>1. /\ Staged(r) /\ Types /\ sent[r] \in Nat /\ got[r] \in Nat
        /\ stage[r] = "ktls" => krx[r] = Base + got[r] /\ ktx[r] = Base + sent[r]
    BY <1>1, Zenon DEF IInv, Types, Counted
  <2>2. stage[r] = "ktls" => krx[r] # -1 /\ ktx[r] # -1
    <3>1. \A x, y \in Nat : x + y # -1
      OBVIOUS
    <3>2. Base \in Nat
      BY <2>1, BaseIs
    <3> QED
      BY <2>1, <3>1, <3>2, Zenon
  <2>3. stage[r] = "userspace" => krx[r] = -1 /\ ktx[r] = -1
    BY <2>1 DEF Staged, Stage, Running
  <2> QED
    BY <2>2, <2>3
<1>2. IInv => BothOrNeither
  BY <1>1, Zenon DEF BothOrNeither
<1> QED
  BY <1>2, Invariant, PTL

(* No endpoint writes two records with one nonce, however many it writes   *)
(* and with every suite (sequences, rec_seq and iv).                       *)
THEOREM NonceUsedOnce == Spec => []NoncesAreFresh
<1>1. IInv => NoncesAreFresh
  BY Zenon DEF IInv, Counted, NoncesAreFresh
<1> QED
  BY <1>1, Invariant, PTL

=============================================================================
