------------------------------ MODULE KtlsKeys ------------------------------
(***************************************************************************)
(* What install_ktls hands to the kernel for a negotiated suite: the       *)
(* eligible ciphers (KtlsCipher::from_ids) and the key material of each    *)
(* direction (derive_crypto_info, split_tls12_key_block), beside what      *)
(* libssl itself uses.  A byte string is a sequence of byte names.         *)
(***************************************************************************)
EXTENDS Integers, Sequences

Role == {"client", "server"}
Peer(r) == IF r = "client" THEN "server" ELSE "client"

Range128 == {"ECDHE_ECDSA_AES128_GCM_SHA256", "ECDHE_RSA_AES128_GCM_SHA256"}
Range256 == {"ECDHE_ECDSA_AES256_GCM_SHA384", "ECDHE_RSA_AES256_GCM_SHA384"}
Chacha   == {"ECDHE_ECDSA_CHACHA20_POLY1305", "ECDHE_RSA_CHACHA20_POLY1305"}

from_ids(version, id) ==
  CASE version = "1.3" /\ id = "TLS_AES_128_GCM_SHA256"       -> "Tls13Aes128Gcm"
    [] version = "1.3" /\ id = "TLS_AES_256_GCM_SHA384"       -> "Tls13Aes256Gcm"
    [] version = "1.3" /\ id = "TLS_CHACHA20_POLY1305_SHA256" -> "Tls13Chacha20Poly1305"
    [] version = "1.2" /\ id \in Range128 -> "Tls12Aes128Gcm"
    [] version = "1.2" /\ id \in Range256 -> "Tls12Aes256Gcm"
    [] version = "1.2" /\ id \in Chacha   -> "Tls12Chacha20Poly1305"
    [] OTHER -> "none"

\* The constants of each arm of derive_crypto_info.
Arm(version, type, key_len, iv_len, hash) ==
  [version |-> version, type |-> type, key_len |-> key_len, iv_len |-> iv_len, hash |-> hash]

Arms == [
  Tls13Aes128Gcm        |-> Arm("1.3", 51, 16, 12, "Sha256"),
  Tls13Aes256Gcm        |-> Arm("1.3", 52, 32, 12, "Sha384"),
  Tls13Chacha20Poly1305 |-> Arm("1.3", 54, 32, 12, "Sha256"),
  Tls12Aes128Gcm        |-> Arm("1.2", 51, 16, 4, "none"),
  Tls12Aes256Gcm        |-> Arm("1.2", 52, 32, 4, "none"),
  Tls12Chacha20Poly1305 |-> Arm("1.2", 54, 32, 12, "none")]

\* libssl: the TLS 1.2 key block, and HKDF over the secret `of' writes with.
SSL_generate_key_block(len) == [i \in 1..len |-> i]
hkdf_expand_label(hash, of, label, n) == [i \in 1..n |-> <<hash, of, label, n, i>>]

\* Mutant: both endpoints take the client's half for their own.
split_tls12_key_block_roleless(block, key_len, iv_len, is_server) ==
  [wk |-> SubSeq(block, 1, key_len),
   rk |-> SubSeq(block, key_len + 1, 2 * key_len),
   wi |-> SubSeq(block, 2 * key_len + 1, 2 * key_len + iv_len),
   ri |-> SubSeq(block, 2 * key_len + iv_len + 1, Len(block))]

\* Mutant: the IVs are split where the keys are.
split_tls12_key_block_long(block, key_len, iv_len, is_server) ==
  [wk |-> SubSeq(block, 1, key_len), rk |-> SubSeq(block, key_len + 1, 2 * key_len),
   wi |-> SubSeq(block, 2 * key_len + 1, Len(block)),
   ri |-> SubSeq(block, 2 * key_len + iv_len + 1, Len(block))]

split_tls12_key_block(block, key_len, iv_len, is_server) ==
  LET client_key == SubSeq(block, 1, key_len)
      server_key == SubSeq(block, key_len + 1, 2 * key_len)
      client_iv  == SubSeq(block, 2 * key_len + 1, 2 * key_len + iv_len)
      server_iv  == SubSeq(block, 2 * key_len + iv_len + 1, Len(block))
  IN IF is_server THEN [wk |-> server_key, wi |-> server_iv, rk |-> client_key, ri |-> client_iv]
                  ELSE [wk |-> client_key, wi |-> client_iv, rk |-> server_key, ri |-> server_iv]

\* build_aes_gcm_*: a 4-byte salt and an 8-byte iv; chacha has no salt.  For TLS 1.2
\* AES-GCM the 8 bytes are those of the sequence number, here the number itself.
Build(arm, key, iv, seq) ==
  [version |-> arm.version, type |-> arm.type, key |-> key, rec_seq |-> seq,
   salt |-> IF arm.type = 54 THEN <<>> ELSE SubSeq(iv, 1, 4),
   iv   |-> IF arm.type = 54 THEN iv
            ELSE IF arm.version = "1.2" THEN <<seq>> ELSE SubSeq(iv, 5, Len(iv))]

derive_crypto_info(cipher, role, write_seq, read_seq) ==
  LET a == Arms[cipher]
      m == IF a.version = "1.3"
           THEN [wk |-> hkdf_expand_label(a.hash, role, "key", a.key_len),
                 wi |-> hkdf_expand_label(a.hash, role, "iv", a.iv_len),
                 rk |-> hkdf_expand_label(a.hash, Peer(role), "key", a.key_len),
                 ri |-> hkdf_expand_label(a.hash, Peer(role), "iv", a.iv_len)]
           ELSE split_tls12_key_block(SSL_generate_key_block(2 * (a.key_len + a.iv_len)),
                                      a.key_len, a.iv_len, role = "server")
  IN [tx |-> Build(a, m.wk, m.wi, write_seq), rx |-> Build(a, m.rk, m.ri, read_seq)]

\* The fields the kernel's structs have, all of which copy_from_slice must fill.
CryptoInfoOK(i) ==
  /\ Len(i.key) = (IF i.type = 51 THEN 16 ELSE 32)
  /\ Len(i.salt) = (IF i.type = 54 THEN 0 ELSE 4)
  /\ Len(i.iv) = (IF i.type = 54 THEN 12 ELSE IF i.version = "1.2" THEN 1 ELSE 8)

-----------------------------------------------------------------------------
(* How a record with sequence number seq is sealed.                        *)

\* By the kernel, from a crypto_info; its explicit nonce counts up from iv.
KernelSeal(info, seq) ==
  [version |-> info.version, type |-> info.type, key |-> info.key, seq |-> seq,
   nonce |-> IF info.version = "1.2" /\ info.type # 54 THEN info.salt ELSE info.salt \o info.iv]

\* By libssl, when `of' writes (RFC 8446 7.3, RFC 5246 6.3, RFC 7905).
LibsslSeal(version, id, of, seq) ==
  LET type  == CASE id \in Range128 \cup {"TLS_AES_128_GCM_SHA256"} -> 51
                 [] id \in Range256 \cup {"TLS_AES_256_GCM_SHA384"} -> 52
                 [] id \in Chacha \cup {"TLS_CHACHA20_POLY1305_SHA256"} -> 54
                 [] OTHER -> 0
      k     == IF type = 51 THEN 16 ELSE 32
      n     == IF version = "1.3" \/ type = 54 THEN 12 ELSE 4
      hash  == IF type = 52 THEN "Sha384" ELSE "Sha256"
      mine  == IF of = "client" THEN 0 ELSE 1
  IN [version |-> version, type |-> type, seq |-> seq,
      key   |-> IF version = "1.3" THEN hkdf_expand_label(hash, of, "key", k)
                ELSE [i \in 1..k |-> mine * k + i],
      nonce |-> IF version = "1.3" THEN hkdf_expand_label(hash, of, "iv", n)
                ELSE [i \in 1..n |-> 2 * k + mine * n + i]]

=============================================================================
