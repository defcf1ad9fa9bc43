---------------------------- MODULE ConfigProofs ----------------------------
(***************************************************************************)
(* Theorems about Config, for every list of suites, groups and protocols   *)
(* and every order of the setters.                                         *)
(*                                                                         *)
(* First the operators: Keep filters, and an ALPN list that                *)
(* encode_alpn_wire takes is what iter_alpn_wire reads back.  Both are     *)
(* recursive functions, so both rest on induction, here over a set of      *)
(* naturals.  Then what each step of finish and build leaves in the        *)
(* context, which adds up to Obeys: the context owes its builder version   *)
(* bounds, suites, groups and the encoded list.  The invariant says only   *)
(* that a context is the one its builder describes, and that libssl looks  *)
(* for the name that was meant; the handshake does the rest.               *)
(***************************************************************************)
EXTENDS Config, WellFoundedInduction, TLAPS

-----------------------------------------------------------------------------
(* Induction over the naturals, for a set in place of a predicate, and the *)
(* recursive functions it gives.                                           *)

LEMMA Least ==
  ASSUME NEW T \in SUBSET Nat, T # {}
  PROVE  \E x \in T : \A y \in T : x <= y
<1>1. PICK x \in T : \A y \in T : ~(<<y, x>> \in OpToRel(<, Nat))
  BY NatLessThanWellFounded, WFMin, Zenon
<1>2. ASSUME NEW y \in T PROVE x <= y
  <2>1. ~(y < x)
    BY <1>1, Zenon DEF OpToRel
  <2> QED
    BY <2>1
<1> QED
  BY <1>2

LEMMA Induction ==
  ASSUME NEW T \in SUBSET Nat, 0 \in T, \A n \in T : n + 1 \in T
  PROVE  T = Nat
<1>1. SUFFICES ASSUME Nat \ T # {} PROVE FALSE
  BY Zenon
<1>2. PICK x \in Nat \ T : \A y \in Nat \ T : x <= y
  BY <1>1, Least, Zenon
<1>3. x - 1 \in T
  BY <1>2
<1> QED
  BY <1>2, <1>3

\* A loop over the indices 1..n of a list.
Loop(g, n, a, step) == g[0] = a /\ \A i \in 1..n : g[i] = step[i][g[i - 1]]

LEMMA LoopExists ==
  ASSUME NEW n \in Nat, NEW X, NEW a \in X, NEW step \in [1..n -> [X -> X]]
  PROVE  \E g \in [0..n -> X] : Loop(g, n, a, step)
<1> DEFINE T == {m \in Nat : m <= n => \E g \in [0..m -> X] : Loop(g, m, a, step)}
<1>1. 0 \in T
  <2> DEFINE g == [i \in 0..0 |-> a]
  <2>1. g \in [0..0 -> X] /\ Loop(g, 0, a, step)
    BY DEF Loop
  <2> QED
    BY <2>1
<1>2. ASSUME NEW m \in T PROVE m + 1 \in T
  <2> SUFFICES ASSUME m + 1 <= n PROVE \E g \in [0..(m + 1) -> X] : Loop(g, m + 1, a, step)
    OBVIOUS
  <2>1. PICK f \in [0..m -> X] : Loop(f, m, a, step)
    OBVIOUS
  <2>2. f[m] \in X /\ step[m + 1] \in [X -> X]
    OBVIOUS
  <2> DEFINE g == [i \in 0..(m + 1) |-> IF i = m + 1 THEN step[m + 1][f[m]] ELSE f[i]]
  <2>3. g \in [0..(m + 1) -> X]
    BY <2>2
  <2>4. g[0] = a
    BY <2>1 DEF Loop
  <2>5. ASSUME NEW i \in 1..(m + 1) PROVE g[i] = step[i][g[i - 1]]
    <3>1. CASE i = m + 1
      BY <3>1
    <3>2. CASE i # m + 1
      <4>1. i \in 1..m /\ i - 1 \in 0..m
        BY <3>2
      <4>2. g[i] = f[i] /\ g[i - 1] = f[i - 1]
        BY <4>1
      <4> QED
        BY <2>1, <4>1, <4>2 DEF Loop
    <3> QED
      BY <3>1, <3>2
  <2> QED
    BY <2>3, <2>4, <2>5, Zenon DEF Loop
<1>3. T = Nat
  <2> HIDE DEF T
  <2>1. T \in SUBSET Nat
    BY DEF T
  <2> QED
    BY <1>1, <1>2, <2>1, Induction
<1> QED
  BY <1>3

LEMMA LoopStays ==
  ASSUME NEW n \in Nat, NEW X, NEW step \in [1..n -> [X -> X]],
         NEW f, f[0] \in X, \A i \in 1..n : f[i - 1] \in X => f[i] = step[i][f[i - 1]]
  PROVE  \A i \in 0..n : f[i] \in X
<1> DEFINE T == {m \in Nat : m <= n => f[m] \in X}
<1>1. 0 \in T
  OBVIOUS
<1>2. ASSUME NEW m \in T PROVE m + 1 \in T
  <2> SUFFICES ASSUME m + 1 <= n PROVE f[m + 1] \in X
    OBVIOUS
  <2>1. m + 1 \in 1..n /\ (m + 1) - 1 = m /\ f[m] \in X
    OBVIOUS
  <2>2. f[m + 1] = step[m + 1][f[m]]
    BY <2>1
  <2> QED
    BY <2>1, <2>2
<1>3. T = Nat
  <2> HIDE DEF T
  <2>1. T \in SUBSET Nat
    BY DEF T
  <2> QED
    BY <1>1, <1>2, <2>1, Induction, Zenon
<1> QED
  BY <1>3

-----------------------------------------------------------------------------
(* Lists.                                                                  *)

\* What split_for_aws_lc keeps of a list is in the list and was asked for.
LEMMA KeepWithin ==
  ASSUME NEW S, NEW list \in Seq(S), NEW set
  PROVE  Keep(list, set) \in Seq(Range(list) \cap set)
<1> DEFINE n == Len(list)
           X == Seq(Range(list) \cap set)
           IsKept(f) == f = [i \in 0..n |-> IF i = 0 THEN <<>>
                                            ELSE IF list[i] \in set THEN Append(f[i - 1], list[i])
                                            ELSE f[i - 1]]
           step == [i \in 1..n |-> [t \in X |-> IF list[i] \in set THEN Append(t, list[i]) ELSE t]]
<1>1. n \in Nat /\ <<>> \in X
  OBVIOUS
<1>2. \A i \in 1..n : list[i] \in Range(list)
  BY DEF Range
<1>3. step \in [1..n -> [X -> X]]
  <2> SUFFICES ASSUME NEW i \in 1..n, NEW t \in X
      PROVE  (IF list[i] \in set THEN Append(t, list[i]) ELSE t) \in X
    OBVIOUS
  <2>1. list[i] \in Range(list)
    BY <1>2
  <2> QED
    BY <2>1
<1> HIDE DEF n, X
<1>4. PICK g \in [0..n -> X] : Loop(g, n, <<>>, step)
  <2> HIDE DEF step
  <2> QED
    BY <1>1, <1>3, LoopExists, Zenon
<1>5. IsKept(g)
  <2>1. g[0] = <<>>
    BY <1>4 DEF Loop
  <2>2. ASSUME NEW i \in 0..n, i # 0
        PROVE  g[i] = IF list[i] \in set THEN Append(g[i - 1], list[i]) ELSE g[i - 1]
    <3>1. i \in 1..n /\ i - 1 \in 0..n
      BY <1>1, <2>2
    <3>2. g[i] = step[i][g[i - 1]] /\ g[i - 1] \in X
      BY <1>4, <3>1, Zenon DEF Loop
    <3> QED
      BY <3>1, <3>2
  <2>3. g = [i \in 0..n |-> g[i]]
    BY <1>4
  <2> QED
    BY <2>1, <2>2, <2>3, Zenon
<1>6. PICK f : IsKept(f) /\ Keep(list, set) = f[n]
  BY <1>5, Zenon DEF Keep, n
<1>7. f[0] \in X
  BY <1>1, <1>6
<1>8. ASSUME NEW i \in 1..n, f[i - 1] \in X PROVE f[i] = step[i][f[i - 1]]
  <2>1. i \in 0..n /\ i # 0
    BY <1>1
  <2>2. f[i] = IF list[i] \in set THEN Append(f[i - 1], list[i]) ELSE f[i - 1]
    BY <1>6, <2>1, Zenon
  <2> QED
    BY <1>8, <2>2
<1>9. \A i \in 0..n : f[i] \in X
  <2> HIDE DEF step
  <2> QED
    BY <1>1, <1>3, <1>7, <1>8, LoopStays, Zenon
<1> QED
  BY <1>1, <1>6, <1>9 DEF X

-----------------------------------------------------------------------------
(* ALPN lists.                                                             *)

Byte == 0..MaxProto

\* The loop of encode_alpn_wire: what has been pushed after i protocols.
Pushed(out, protos) ==
  /\ out \in [0..Len(protos) -> Seq(Byte)] /\ out[0] = <<>>
  /\ \A i \in 1..Len(protos) : out[i] = Append(out[i - 1], Len(protos[i])) \o protos[i]

\* A length that try_into takes is pushed as it is.
LEMMA OneByte ==
  ASSUME NEW n \in 1..MaxProto
  PROVE  u8(n) = n
<1>1. MaxProto \in Nat
  BY ConstantsAssumption
<1>2. n = (MaxProto + 1) * (n \div (MaxProto + 1)) + u8(n) /\ u8(n) \in 0..MaxProto
  BY <1>1 DEF u8
<1> QED
  BY <1>1, <1>2 DEF u8

LEMMA Encoded ==
  ASSUME NEW protos \in Protocols, encode_ok(protos)
  PROVE  \E out : Pushed(out, protos) /\ encode_alpn_wire(protos) = out[Len(protos)]
<1> DEFINE n == Len(protos)
           X == Seq(Byte)
           IsOut(f) == f = [i \in 0..n |-> IF i = 0 THEN <<>>
                                           ELSE Append(f[i - 1], u8(Len(protos[i]))) \o protos[i]]
           step == [i \in 1..n |-> [t \in X |-> Append(t, u8(Len(protos[i]))) \o protos[i]]]
<1>1. n \in Nat /\ <<>> \in X
  BY DEF Protocols
<1>2. ASSUME NEW i \in 1..n
      PROVE  protos[i] \in X /\ u8(Len(protos[i])) \in Byte /\ u8(Len(protos[i])) = Len(protos[i])
  <2>1. protos[i] \in X
    BY DEF Protocols, Byte
  <2>2. Len(protos[i]) \in 1..MaxProto
    BY DEF encode_ok, Protocols
  <2> QED
    BY <2>1, <2>2, OneByte, ConstantsAssumption DEF Byte
<1>3. step \in [1..n -> [X -> X]]
  <2> SUFFICES ASSUME NEW i \in 1..n, NEW t \in X
      PROVE  Append(t, u8(Len(protos[i]))) \o protos[i] \in X
    OBVIOUS
  <2>1. Append(t, u8(Len(protos[i]))) \in X
    BY <1>2
  <2> QED
    BY <1>2, <2>1
<1>4. ASSUME NEW i \in 1..n, NEW t \in X
      PROVE  Append(t, u8(Len(protos[i]))) \o protos[i] = step[i][t]
  BY Zenon
<1> HIDE DEF n, X
<1>5. PICK g \in [0..n -> X] : Loop(g, n, <<>>, step)
  <2> HIDE DEF step
  <2> QED
    BY <1>1, <1>3, LoopExists, Zenon
<1>6. IsOut(g)
  <2>1. g[0] = <<>>
    BY <1>5 DEF Loop
  <2>2. ASSUME NEW i \in 0..n, i # 0
        PROVE  g[i] = Append(g[i - 1], u8(Len(protos[i]))) \o protos[i]
    <3>1. i \in 1..n /\ i - 1 \in 0..n
      BY <1>1, <2>2
    <3>2. g[i] = step[i][g[i - 1]] /\ g[i - 1] \in X
      BY <1>5, <3>1, Zenon DEF Loop
    <3> QED
      BY <1>4, <3>1, <3>2, Zenon
  <2>3. g = [i \in 0..n |-> g[i]]
    BY <1>5
  <2> QED
    BY <2>1, <2>2, <2>3, Zenon
<1>7. PICK f : IsOut(f) /\ encode_alpn_wire(protos) = f[n]
  BY <1>6, Zenon DEF encode_alpn_wire, n
<1>8. f[0] = <<>>
  BY <1>1, <1>7
<1>9. ASSUME NEW i \in 1..n, f[i - 1] \in X PROVE f[i] = step[i][f[i - 1]]
  <2>1. i \in 0..n /\ i # 0
    BY <1>1
  <2>2. f[i] = Append(f[i - 1], u8(Len(protos[i]))) \o protos[i]
    BY <1>7, <2>1, Zenon
  <2> QED
    BY <1>4, <1>9, <2>2, Zenon
<1>10. \A i \in 0..n : f[i] \in X
  <2> HIDE DEF step
  <2>1. f[0] \in X
    BY <1>1, <1>8
  <2> QED
    BY <1>1, <1>3, <1>9, <2>1, LoopStays, Zenon
<1>11. f \in [0..n -> X]
  <2>1. f = [i \in 0..n |-> f[i]]
    BY <1>7, Zenon
  <2> QED
    BY <1>10, <2>1, Zenon
<1>12. ASSUME NEW i \in 1..n PROVE f[i] = Append(f[i - 1], Len(protos[i])) \o protos[i]
  <2>1. f[i - 1] \in X
    BY <1>1, <1>10
  <2>2. f[i] = Append(f[i - 1], u8(Len(protos[i]))) \o protos[i]
    BY <1>4, <1>9, <2>1, Zenon
  <2> QED
    BY <1>2, <2>2, Zenon
<1> QED
  BY <1>7, <1>8, <1>11, <1>12, Zenon DEF Pushed, n, X

LEMMA ByteStrings ==
  ASSUME NEW protos \in Protocols, NEW i \in 1..Len(protos)
  PROVE  protos[i] \in Seq(Byte)
BY DEF Protocols, Byte

\* What a round of the loop does to the string.
LEMMA Push ==
  ASSUME NEW a \in Seq(Byte), NEW x, NEW b \in Seq(Byte)
  PROVE  LET c == Append(a, x) \o b
         IN /\ Len(c) = Len(a) + 1 + Len(b) /\ c[Len(a) + 1] = x
            /\ \A k \in 1..Len(a) : c[k] = a[k]
            /\ \A k \in 1..Len(b) : c[Len(a) + 1 + k] = b[k]
<1>1. a \in Seq(Byte \cup {x}) /\ b \in Seq(Byte \cup {x}) /\ x \in Byte \cup {x}
  OBVIOUS
<1>2. PICK c : c = Append(a, x) \o b
  BY Zenon
<1>3. PICK d : d = Append(a, x)
  BY Zenon
<1>4. /\ d \in Seq(Byte \cup {x}) /\ Len(d) = Len(a) + 1 /\ d[Len(a) + 1] = x
      /\ \A k \in 1..Len(a) : d[k] = a[k]
  BY <1>1, <1>3
<1>5. Len(a) \in Nat /\ Len(b) \in Nat
  OBVIOUS
<1>6. /\ Len(c) = Len(d) + Len(b)
      /\ \A k \in 1..Len(d) : c[k] = d[k]
      /\ \A k \in 1..Len(b) : c[Len(d) + k] = b[k]
  BY <1>1, <1>2, <1>3, <1>4
<1> QED
  BY <1>2, <1>4, <1>5, <1>6

\* What has been pushed stays where it is.
LEMMA PushedStays ==
  ASSUME NEW protos \in Protocols, NEW out, Pushed(out, protos), NEW i \in 0..Len(protos)
  PROVE  /\ Len(out[i]) <= Len(out[Len(protos)])
         /\ \A k \in 1..Len(out[i]) : out[Len(protos)][k] = out[i][k]
<1> DEFINE n == Len(protos)
           T == {d \in Nat : i + d <= n => /\ Len(out[i]) <= Len(out[i + d])
                                           /\ \A k \in 1..Len(out[i]) : out[i + d][k] = out[i][k]}
<1>1. n \in Nat /\ i \in 0..n
  BY DEF Protocols
<1>2. 0 \in T
  <2>1. i + 0 = i /\ Len(out[i]) \in Nat
    BY <1>1 DEF Pushed
  <2> QED
    BY <2>1
<1>3. ASSUME NEW d \in T PROVE d + 1 \in T
  <2> SUFFICES ASSUME i + (d + 1) <= n
      PROVE  /\ Len(out[i]) <= Len(out[i + (d + 1)])
             /\ \A k \in 1..Len(out[i]) : out[i + (d + 1)][k] = out[i][k]
    OBVIOUS
  <2> DEFINE m == i + (d + 1)
             was == out[i + d]
             now == out[m]
             had == out[i]
             proto == protos[m]
             len == Len(proto)
  <2>1. m \in 1..n /\ m - 1 = i + d /\ i + d \in 0..n
    BY <1>1
  <2>2. now = Append(was, len) \o proto
    BY <2>1, Zenon DEF Pushed
  <2>3. was \in Seq(Byte) /\ had \in Seq(Byte) /\ proto \in Seq(Byte)
    BY <1>1, <2>1, ByteStrings, Zenon DEF Pushed
  <2>4. Len(had) <= Len(was) /\ \A k \in 1..Len(had) : was[k] = had[k]
    BY <2>1
  <2>5. len \in Nat /\ Len(was) \in Nat /\ Len(had) \in Nat
    BY <2>3
  <2>6. Len(now) = Len(was) + 1 + len /\ \A k \in 1..Len(was) : now[k] = was[k]
    <3> HIDE DEF was, now, proto
    <3> QED
      BY <2>2, <2>3, Push
  <2>7. Len(had) <= Len(now) /\ \A k \in 1..Len(had) : now[k] = had[k]
    <3> HIDE DEF had, was, now, len
    <3> QED
      BY <2>4, <2>5, <2>6
  <2> QED
    BY <2>7
<1>4. T = Nat
  <2> HIDE DEF T
  <2>1. T \in SUBSET Nat
    BY DEF T
  <2> QED
    BY <1>2, <1>3, <2>1, Induction
<1>5. n - i \in T /\ i + (n - i) = n
  <2> HIDE DEF T, n
  <2> QED
    BY <1>1, <1>4
<1> QED
  BY <1>5

LEMMA Within ==
  ASSUME NEW at \in Nat, NEW len \in Nat, NEW end \in Nat, at >= 1, at + len <= end
  PROVE  at \in 1..(end + 1)
OBVIOUS

\* One entry of the list: where the next begins, and what it is.
LEMMA Entry ==
  ASSUME NEW protos \in Protocols, NEW out, Pushed(out, protos), NEW i \in 1..Len(protos)
  PROVE  LET wire == out[Len(protos)]
             at == Len(out[i - 1]) + 1
             len == Len(protos[i])
         IN /\ wire[at] = len /\ at + len = Len(out[i]) /\ at + len <= Len(wire)
            /\ \A k \in 1..len : wire[at + k] = protos[i][k]
<1> DEFINE wire == out[Len(protos)]
           was == out[i - 1]
           now == out[i]
           proto == protos[i]
           at == Len(was) + 1
           len == Len(proto)
<1>1. Len(protos) \in Nat /\ i \in 0..Len(protos) /\ i - 1 \in 0..Len(protos)
  BY DEF Protocols
<1>2. was \in Seq(Byte) /\ now \in Seq(Byte) /\ proto \in Seq(Byte)
  BY <1>1, ByteStrings, Zenon DEF Pushed
<1>3. now = Append(was, len) \o proto
  BY DEF Pushed
<1>4. at \in Nat /\ len \in Nat
  BY <1>2
<1>5. /\ Len(now) = at + len /\ now[at] = len
      /\ \A k \in 1..len : now[at + k] = proto[k]
  <2> HIDE DEF was, now, proto
  <2> QED
    BY <1>2, <1>3, Push
<1>6. Len(now) <= Len(wire) /\ \A k \in 1..Len(now) : wire[k] = now[k]
  BY <1>1, PushedStays
<1>7. at \in 1..Len(now) /\ \A k \in 1..len : at + k \in 1..Len(now)
  <2>1. at >= 1
    BY <1>2
  <2> HIDE DEF now, at, len
  <2> QED
    BY <1>4, <1>5, <2>1
<1>8. wire[at] = len /\ \A k \in 1..len : wire[at + k] = proto[k]
  <2> HIDE DEF wire, now, at, len, proto
  <2> QED
    BY <1>5, <1>6, <1>7
<1> QED
  BY <1>5, <1>6, <1>8, Zenon

\* The iterator at position i of a list, given what it yields further on.
Yield(wire, i, g) ==
  IF i > Len(wire) \/ i + wire[i] > Len(wire) THEN <<>>
  ELSE <<SubSeq(wire, i + 1, i + wire[i])>> \o g[i + wire[i] + 1]

LEMMA Iterates ==
  ASSUME NEW wire \in Seq(Byte)
  PROVE  \E g : /\ \A i \in 1..(Len(wire) + 1) : g[i] = Yield(wire, i, g)
                /\ iter_alpn_wire(wire) = g[1]
<1> DEFINE L == Len(wire)
           IsFrom(f, n) == f = [i \in n..(L + 1) |-> Yield(wire, i, f)]
           T == {m \in Nat : m <= L => \E g : IsFrom(g, L + 1 - m)}
<1>1. L \in Nat /\ \A i \in 1..L : wire[i] \in Nat
  <2>1. ASSUME NEW i \in 1..L PROVE wire[i] \in Byte
    OBVIOUS
  <2> QED
    BY <2>1 DEF Byte
<1>2. 0 \in T
  <2> DEFINE g == [i \in (L + 1)..(L + 1) |-> <<>>]
  <2>1. IsFrom(g, L + 1)
    BY <1>1 DEF Yield
  <2>2. L + 1 - 0 = L + 1
    BY <1>1
  <2> QED
    BY <2>1, <2>2, Zenon
<1>3. ASSUME NEW m \in T PROVE m + 1 \in T
  <2> SUFFICES ASSUME m + 1 <= L PROVE \E g : IsFrom(g, L + 1 - (m + 1))
    OBVIOUS
  <2> DEFINE n == L + 1 - (m + 1)
  <2>1. n \in 1..L /\ L + 1 - m = n + 1 /\ m <= L
    BY <1>1
  <2>2. PICK f : IsFrom(f, n + 1)
    BY <2>1
  <2> HIDE DEF n
  <2> DEFINE g == [i \in n..(L + 1) |-> IF i = n THEN Yield(wire, n, f) ELSE f[i]]
  <2>3. ASSUME NEW i \in n..(L + 1), i <= L, i + wire[i] <= L
        PROVE  g[i + wire[i] + 1] = f[i + wire[i] + 1]
    <3>1. i \in 1..L /\ wire[i] \in Nat
      BY <1>1, <2>1, <2>3
    <3>2. i + wire[i] + 1 \in n..(L + 1) /\ i + wire[i] + 1 # n
      BY <1>1, <2>1, <2>3, <3>1
    <3> QED
      BY <3>2
  <2>4. ASSUME NEW i \in n..(L + 1) PROVE Yield(wire, i, g) = Yield(wire, i, f)
    <3> HIDE DEF g
    <3>1. i \in Nat /\ (i <= L => wire[i] \in Nat)
      BY <1>1, <2>1
    <3> QED
      BY <1>1, <2>3, <3>1 DEF Yield
  <2>5. ASSUME NEW i \in n..(L + 1) PROVE g[i] = Yield(wire, i, f)
    <3>1. CASE i = n
      BY <3>1
    <3>2. CASE i # n
      <4>1. i \in (n + 1)..(L + 1)
        BY <1>1, <2>1, <3>2
      <4>2. f[i] = Yield(wire, i, f)
        BY <2>2, <4>1, Zenon
      <4> QED
        BY <3>2, <4>2
    <3> QED
      BY <3>1, <3>2
  <2>6. g = [i \in n..(L + 1) |-> g[i]]
    OBVIOUS
  <2>7. IsFrom(g, n)
    <3> HIDE DEF g
    <3> QED
      BY <2>4, <2>5, <2>6
  <2> QED
    BY <2>7, Zenon DEF n
<1>4. T = Nat
  <2> HIDE DEF T
  <2>1. T \in SUBSET Nat
    BY DEF T
  <2> QED
    BY <1>2, <1>3, <2>1, Induction
<1>5. PICK g : IsFrom(g, 1)
  <2>1. L \in T /\ L + 1 - L = 1
    BY <1>1, <1>4
  <2> QED
    BY <2>1
<1>6. PICK f : IsFrom(f, 1) /\ iter_alpn_wire(wire) = f[1]
  BY <1>5, Zenon DEF iter_alpn_wire, Yield
<1> QED
  BY <1>6, Zenon

LEMMA Slice ==
  ASSUME NEW wire \in Seq(Byte), NEW p \in Seq(Byte), NEW at \in Nat, at + Len(p) <= Len(wire),
         \A k \in 1..Len(p) : wire[at + k] = p[k]
  PROVE  SubSeq(wire, at + 1, at + Len(p)) = p
<1> DEFINE s == SubSeq(wire, at + 1, at + Len(p))
<1>1. Len(p) \in Nat /\ Len(wire) \in Nat
  OBVIOUS
<1>2. s \in Seq(Byte) /\ Len(s) = Len(p)
  BY <1>1
<1>3. ASSUME NEW k \in 1..Len(p) PROVE s[k] = p[k]
  <2>1. s[k] = wire[at + k]
    BY <1>1
  <2> QED
    BY <2>1
<1> HIDE DEF s
<1>4. s = p
  BY <1>2, <1>3
<1> QED
  BY <1>4 DEF s

(* The list that alpn_select_cb reads back from the bytes of an encoded    *)
(* list is the list: encode_alpn_wire and iter_alpn_wire are inverse on    *)
(* every list the first accepts, and only the empty list has no bytes.     *)
THEOREM AlpnRoundTrip ==
  ASSUME NEW protos \in Protocols, encode_ok(protos)
  PROVE  /\ iter_alpn_wire(encode_alpn_wire(protos)) = protos
         /\ encode_alpn_wire(protos) = <<>> <=> protos = <<>>
<1> DEFINE n == Len(protos)
           wire == encode_alpn_wire(protos)
<1>1. PICK out : Pushed(out, protos) /\ wire = out[n]
  BY Encoded, Zenon
<1>2. n \in Nat /\ \A i \in 0..n : out[i] \in Seq(Byte)
  <2>1. n \in Nat
    BY DEF Protocols
  <2> QED
    BY <1>1, <2>1 DEF Pushed
<1>3. wire \in Seq(Byte) /\ Len(wire) \in Nat
  BY <1>1, <1>2
<1> HIDE DEF wire, n
<1>4. PICK g : /\ \A i \in 1..(Len(wire) + 1) : g[i] = Yield(wire, i, g)
               /\ iter_alpn_wire(wire) = g[1]
  BY <1>3, Iterates, Zenon
<1> DEFINE Rest(d) == g[Len(out[n - d]) + 1]
           T == {d \in Nat : d <= n => /\ Rest(d) \in Seq(Seq(Byte)) /\ Len(Rest(d)) = d
                                       /\ \A j \in 1..d : Rest(d)[j] = protos[n - d + j]}
<1>5. 0 \in T
  <2>1. Rest(0) = Yield(wire, Len(wire) + 1, g)
    BY <1>1, <1>2, <1>3, <1>4
  <2>2. Yield(wire, Len(wire) + 1, g) = <<>>
    BY <1>3 DEF Yield
  <2>3. Rest(0) = <<>>
    BY <2>1, <2>2, Zenon
  <2>4. Rest(0) \in Seq(Seq(Byte)) /\ Len(Rest(0)) = 0 /\ \A j : j \notin 1..0
    BY <2>3
  <2> HIDE DEF Rest
  <2> QED
    BY <2>4, Zenon
<1>6. ASSUME NEW d \in T PROVE d + 1 \in T
  <2> SUFFICES ASSUME d + 1 <= n
      PROVE  /\ Rest(d + 1) \in Seq(Seq(Byte)) /\ Len(Rest(d + 1)) = d + 1
             /\ \A j \in 1..(d + 1) : Rest(d + 1)[j] = protos[n - (d + 1) + j]
    OBVIOUS
  <2> DEFINE i == n - d
             at == Len(out[i - 1]) + 1
             proto == protos[i]
             len == Len(proto)
             rest == Rest(d)
  <2>1. d \in Nat /\ d <= n /\ i \in 1..n /\ i - 1 \in 0..n /\ i \in 0..n /\ n - (d + 1) = i - 1
    BY <1>2
  <2>2. rest \in Seq(Seq(Byte)) /\ Len(rest) = d /\ \A j \in 1..d : rest[j] = protos[i + j]
    BY <2>1
  <2>3. Rest(d + 1) = g[at] /\ rest = g[Len(out[i]) + 1]
    BY <2>1
  <2> HIDE DEF T, Rest
  <2>4. proto \in Seq(Byte) /\ len \in Nat /\ at \in Nat /\ at >= 1
    <3>1. out[i - 1] \in Seq(Byte)
      BY <1>2, <2>1
    <3>2. proto \in Seq(Byte)
      BY <2>1, ByteStrings DEF n
    <3> QED
      BY <3>1, <3>2
  <2>5. /\ wire[at] = len /\ at + len = Len(out[i]) /\ at + len <= Len(wire)
        /\ \A k \in 1..len : wire[at + k] = proto[k]
    <3>1. i \in 1..Len(protos) /\ wire = out[Len(protos)]
      BY <1>1, <2>1 DEF n
    <3> HIDE DEF i
    <3>2. /\ out[Len(protos)][at] = len /\ at + len = Len(out[i]) /\ at + len <= Len(out[Len(protos)])
          /\ \A k \in 1..len : out[Len(protos)][at + k] = proto[k]
      BY <1>1, <3>1, Entry, Zenon
    <3> QED
      BY <3>1, <3>2, Zenon
  <2> HIDE DEF i, at, proto
  <2>6. SubSeq(wire, at + 1, at + len) = proto
    BY <1>3, <2>4, <2>5, Slice
  <2> HIDE DEF len, rest
  <2>7. g[at] = <<proto>> \o rest
    <3>1. at \in 1..(Len(wire) + 1) /\ at + len + 1 = Len(out[i]) + 1
      <4>1. at + len = Len(out[i]) /\ at + len <= Len(wire)
        BY <2>5
      <4>2. Len(wire) \in Nat
        BY <1>3
      <4> QED
        BY <2>4, <4>1, <4>2, Within, Zenon
    <3>2. g[at] = Yield(wire, at, g)
      BY <1>4, <3>1
    <3>3. ~(at > Len(wire) \/ at + wire[at] > Len(wire))
      BY <1>3, <2>4, <2>5
    <3>4. Yield(wire, at, g) = <<SubSeq(wire, at + 1, at + len)>> \o g[at + len + 1]
      BY <2>5, <3>3, Zenon DEF Yield
    <3> QED
      BY <2>3, <2>6, <3>1, <3>2, <3>4, Zenon
  <2>8. /\ <<proto>> \o rest \in Seq(Seq(Byte)) /\ Len(<<proto>> \o rest) = d + 1
        /\ (<<proto>> \o rest)[1] = proto
        /\ \A j \in 1..d : (<<proto>> \o rest)[j + 1] = rest[j]
    BY <2>2, <2>4
  <2>9. ASSUME NEW j \in 1..(d + 1) PROVE (<<proto>> \o rest)[j] = protos[(i - 1) + j]
    <3>1. i \in Nat /\ d \in Nat
      BY <1>2, <2>1
    <3>2. CASE j = 1
      <4>1. (i - 1) + 1 = i
        BY <3>1
      <4> QED
        BY <2>8, <3>2, <4>1 DEF proto
    <3>3. CASE j # 1
      <4>1. j - 1 \in 1..d /\ (j - 1) + 1 = j /\ i + (j - 1) = (i - 1) + j
        BY <3>1, <3>3
      <4> QED
        BY <2>2, <2>8, <4>1
    <3> QED
      BY <3>2, <3>3, Zenon
  <2> QED
    BY <2>1, <2>3, <2>7, <2>8, <2>9, Zenon
<1>7. T = Nat
  <2> HIDE DEF T
  <2>1. T \in SUBSET Nat
    BY DEF T
  <2> QED
    BY <1>5, <1>6, <2>1, Induction
<1>8. iter_alpn_wire(wire) = protos
  <2>1. n \in T
    BY <1>2, <1>7, Zenon
  <2>2. n - n = 0 /\ out[0] = <<>> /\ \A j \in 1..n : n - n + j = j
    BY <1>1, <1>2 DEF Pushed
  <2>3. Rest(n) = g[1]
    BY <2>2
  <2>4. g[1] \in Seq(Seq(Byte)) /\ Len(g[1]) = n /\ \A j \in 1..n : g[1][j] = protos[j]
    BY <1>2, <2>1, <2>2, <2>3
  <2>5. protos \in Seq(Seq(Byte)) /\ Len(protos) = n
    BY DEF Protocols, Byte, n
  <2>6. g[1] = protos
    BY <2>4, <2>5
  <2> QED
    BY <1>4, <2>6
<1>9. wire = <<>> <=> protos = <<>>
  <2>1. CASE n = 0
    BY <1>1, <2>1 DEF Pushed, Protocols, n
  <2>2. CASE n # 0
    <3>1. PICK i \in 1..n : i - 1 \in 0..n
      BY <1>2, <2>2
    <3>2. Len(out[i - 1]) + 1 + Len(protos[i]) <= Len(wire)
      BY <1>1, <3>1, Entry, Zenon DEF n
    <3>3. out[i - 1] \in Seq(Byte) /\ protos[i] \in Seq(Byte)
      BY <1>2, <3>1, ByteStrings DEF n
    <3>4. Len(out[i - 1]) \in Nat /\ Len(protos[i]) \in Nat
      BY <3>3
    <3>5. \A a, l, w \in Nat : a + 1 + l <= w => w > 0
      OBVIOUS
    <3>6. Len(wire) > 0
      BY <1>3, <3>2, <3>4, <3>5, Zenon
    <3> QED
      BY <1>3, <2>2, <3>6 DEF n
  <2> QED
    BY <2>1, <2>2
<1> QED
  BY <1>8, <1>9 DEF wire

-----------------------------------------------------------------------------
(* What the builders put into a context.                                   *)

Ids13 == {"TLS_AES_128_GCM_SHA256", "TLS_AES_256_GCM_SHA384", "TLS_CHACHA20_POLY1305_SHA256"}
Ids12 == Keys!Range128 \cup Keys!Range256 \cup Keys!Chacha

\* The suites the API can name, each with the version it belongs to.
Known == {Suite(i, 13, "any") : i \in Ids13} \cup {Suite(i, 12, a) : i \in Ids12, a \in {"ecdsa", "rsa"}}
Cbc == Suite("ECDHE_RSA_AES128_CBC_SHA", 12, "rsa")

LEMMA KnownSuites == ALL_CIPHER_SUITES \in Seq(Known) /\ Range(ALL_CIPHER_SUITES) \subseteq Known
<1> DEFINE a == [i \in 1..3 |-> Suite(Suites13[i], 13, "any")]
           b == [i \in 1..3 |-> Suite(SuitesEcdsa[i], 12, "ecdsa")]
           c == [i \in 1..3 |-> Suite(SuitesRsa[i], 12, "rsa")]
<1>1. ASSUME NEW i \in 1..3 PROVE Suites13[i] \in Ids13 /\ SuitesEcdsa[i] \in Ids12 /\ SuitesRsa[i] \in Ids12
  <2>1. i = 1 \/ i = 2 \/ i = 3
    OBVIOUS
  <2> QED
    BY <2>1 DEF Suites13, SuitesEcdsa, SuitesRsa, Ids13, Ids12, Keys!Range128, Keys!Range256, Keys!Chacha
<1>2. ASSUME NEW i \in 1..3 PROVE a[i] \in Known /\ b[i] \in Known /\ c[i] \in Known
  <2>1. /\ a[i] = Suite(Suites13[i], 13, "any") /\ b[i] = Suite(SuitesEcdsa[i], 12, "ecdsa")
        /\ c[i] = Suite(SuitesRsa[i], 12, "rsa")
    OBVIOUS
  <2>2. /\ \A x \in Ids13 : Suite(x, 13, "any") \in Known
        /\ \A x \in Ids12 : Suite(x, 12, "ecdsa") \in Known /\ Suite(x, 12, "rsa") \in Known
    BY DEF Known
  <2> HIDE DEF a, b, c
  <2> QED
    BY <1>1, <2>1, <2>2, Zenon
<1>3. a \in Seq(Known) /\ b \in Seq(Known) /\ c \in Seq(Known)
  <2> HIDE DEF Known
  <2> QED
    BY <1>2
<1> HIDE DEF a, b, c
<1>4. a \o b \o c \in Seq(Known)
  BY <1>3
<1>5. ALL_CIPHER_SUITES \in Seq(Known)
  BY <1>4 DEF ALL_CIPHER_SUITES, a, b, c
<1> QED
  BY <1>5 DEF Range

\* Every suite the API can name is one that kTLS takes, in the version it names.
LEMMA KnownEligible ==
  ASSUME NEW x \in Known
  PROVE  /\ x.version \in {12, 13}
         /\ Keys!from_ids(IF x.version = 13 THEN "1.3" ELSE "1.2", x.id) # "none"
<1>1. CASE \E i \in Ids13 : x = Suite(i, 13, "any")
  <2>1. PICK i \in Ids13 : x = Suite(i, 13, "any")
    BY <1>1
  <2>2. x.version = 13 /\ x.id = i
    BY <2>1 DEF Suite
  <2>3. Keys!from_ids("1.3", i) # "none"
    BY <2>1 DEF Keys!from_ids, Ids13
  <2> QED
    BY <2>2, <2>3
<1>2. CASE \E i \in Ids12, a \in {"ecdsa", "rsa"} : x = Suite(i, 12, a)
  <2>1. PICK i \in Ids12, a \in {"ecdsa", "rsa"} : x = Suite(i, 12, a)
    BY <1>2
  <2>2. x.version = 12 /\ x.id = i
    BY <2>1 DEF Suite
  <2>3. i \in Keys!Range128 \/ i \in Keys!Range256 \/ i \in Keys!Chacha
    BY DEF Ids12
  <2>4. Keys!from_ids("1.2", i) # "none"
    BY <2>3 DEF Keys!from_ids
  <2> QED
    BY <2>2, <2>4
<1> QED
  BY <1>1, <1>2 DEF Known

Only(list, v) == {s \in Range(list) : s.version = v}

LEMMA OfVersionWithin ==
  ASSUME NEW S, NEW list \in Seq(S), NEW v
  PROVE  OfVersion(list, v) \in Seq(Only(list, v))
<1>1. OfVersion(list, v) \in Seq(Range(list) \cap Only(list, v))
  BY KeepWithin DEF OfVersion, Only
<1>2. Range(list) \cap Only(list, v) = Only(list, v)
  BY DEF Only
<1> QED
  BY <1>1, <1>2

LEMMA Elements ==
  ASSUME NEW S, NEW list \in Seq(S)
  PROVE  Range(list) \subseteq S
BY DEF Range

\* What an SSL_CTX holds.
Ctx ==
  [min : {12, 13}, max : {12, 13}, off : SUBSET {12, 13}, tls12 : Seq(Known \cup {Cbc}), tls13 : Seq(Known \cup {Cbc}),
   groups : Seq(NamedGroup), verify : {"none", "peer", "require"}, alpn : Seq(Byte)]

\* The suites of a version that is on are ones the builder was told to use.
Listing(c, suites) ==
  suites # <<>> => \A v \in {12, 13} \ c.off : Range(Offered(c, v)) \subseteq Only(suites, v)

\* The suites of a version that is on are ones kTLS takes.
Eligible(c) == \A v \in {12, 13} \ c.off : Range(Offered(c, v)) \subseteq {x \in Known : x.version = v}

LEMMA Defaults ==
  /\ OfVersion(ALL_CIPHER_SUITES, 13) \in Seq({x \in Known : x.version = 13})
  /\ Aead12 \in Seq({x \in Known : x.version = 12})
  /\ NewCtx \in Ctx
<1>1. ASSUME NEW v PROVE OfVersion(ALL_CIPHER_SUITES, v) \in Seq({x \in Known : x.version = v})
  <2>1. Only(ALL_CIPHER_SUITES, v) \subseteq {x \in Known : x.version = v}
    BY KnownSuites DEF Only
  <2>2. OfVersion(ALL_CIPHER_SUITES, v) \in Seq(Only(ALL_CIPHER_SUITES, v))
    BY KnownSuites, OfVersionWithin, Zenon
  <2> HIDE DEF Only
  <2> QED
    BY <2>1, <2>2
<1>2. Aead12 \in Seq({x \in Known : x.version = 12})
  BY <1>1, Zenon DEF Aead12
<1>3. Aead12 \in Seq(Known \cup {Cbc}) /\ OfVersion(ALL_CIPHER_SUITES, 13) \in Seq(Known \cup {Cbc})
  <2> DEFINE Of(v) == {x \in Known : x.version = v}
  <2>1. Aead12 \in Seq(Of(12)) /\ OfVersion(ALL_CIPHER_SUITES, 13) \in Seq(Of(13))
    BY <1>1, <1>2, Zenon
  <2>2. Of(12) \subseteq Known \cup {Cbc} /\ Of(13) \subseteq Known \cup {Cbc}
    OBVIOUS
  <2> HIDE DEF Of
  <2> QED
    BY <2>1, <2>2
<1>4. Default12 \in Seq(Known \cup {Cbc})
  BY <1>3 DEF Default12, Cbc
<1>5. DefaultGroups \in Seq(NamedGroup)
  BY DEF DefaultGroups, NamedGroup, Hybrid
<1>6. NewCtx \in Ctx
  BY <1>3, <1>4, <1>5 DEF NewCtx, Ctx
<1> QED
  BY <1>1, <1>2, <1>6

LEMMA SetVersions ==
  ASSUME NEW c \in Ctx, NEW b, b.min_version \in {0, 12, 13}, b.max_version \in {0, 12, 13}
  PROVE  LET d == set_versions(c, b)
         IN /\ d \in Ctx /\ d.tls13 = c.tls13
            /\ b.min_version # 0 => d.min = b.min_version
            /\ b.max_version # 0 => d.max = b.max_version
<1> DEFINE lo == IF b.min_version = 0 THEN 12 ELSE b.min_version
           hi == IF b.max_version = 0 THEN 13 ELSE b.max_version
<1>1. lo \in {12, 13} /\ hi \in {12, 13}
  OBVIOUS
<1>2. set_versions(c, b) = [c EXCEPT !.min = lo, !.max = hi]
  BY Zenon DEF set_versions
<1>3. (b.min_version # 0 => lo = b.min_version) /\ (b.max_version # 0 => hi = b.max_version)
  OBVIOUS
<1> HIDE DEF lo, hi
<1> QED
  BY <1>1, <1>2, <1>3, Zenon DEF Ctx

LEMMA KtlsOnly ==
  ASSUME NEW c \in Ctx, NEW b
  PROVE  LET d == ktls_aead_only(c, b)
         IN /\ d \in Ctx /\ d.min = c.min /\ d.max = c.max /\ d.tls13 = c.tls13
            /\ b.ktls_aead_only => d.tls12 = Aead12
<1>1. Aead12 \in Seq(Known \cup {Cbc})
  BY Defaults
<1> QED
  BY <1>1, Zenon DEF Ctx, ktls_aead_only

LEMMA ApplyGroups ==
  ASSUME NEW c \in Ctx, NEW groups \in Seq(NamedGroup)
  PROVE  LET d == apply_groups(c, groups)
         IN /\ d \in Ctx /\ d.min = c.min /\ d.max = c.max /\ d.off = c.off
            /\ d.tls12 = c.tls12 /\ d.tls13 = c.tls13
            /\ groups # <<>> => d.groups = groups
BY Zenon DEF Ctx, apply_groups

LEMMA ApplySuites ==
  ASSUME NEW c \in Ctx, NEW suites \in Seq(Known)
  PROVE  LET d == apply_suites(c, suites)
         IN /\ d \in Ctx /\ d.min = c.min /\ d.max = c.max
            /\ Listing(d, suites)
            /\ suites = <<>> => d = c
<1> DEFINE d == apply_suites(c, suites)
           list12 == OfVersion(suites, 12)
           list13 == OfVersion(suites, 13)
<1>1. CASE suites = <<>>
  BY <1>1 DEF apply_suites, Listing
<1>2. CASE suites # <<>>
  <2>1. list12 \in Seq(Only(suites, 12)) /\ list13 \in Seq(Only(suites, 13))
    BY OfVersionWithin, Zenon
  <2>2. list12 \in Seq(Known \cup {Cbc}) /\ list13 \in Seq(Known \cup {Cbc})
    <3>1. Only(suites, 12) \subseteq Known \cup {Cbc} /\ Only(suites, 13) \subseteq Known \cup {Cbc}
      BY Elements DEF Only
    <3> HIDE DEF Only, list12, list13
    <3> QED
      BY <2>1, <3>1
  <2> DEFINE off == c.off \cup {v \in {12, 13} : <<list12, list13>>[v - 11] = <<>>}
             tls12 == IF list12 = <<>> THEN c.tls12 ELSE list12
             tls13 == IF list13 = <<>> THEN c.tls13 ELSE list13
  <2>3. d = [c EXCEPT !.off = off, !.tls12 = tls12, !.tls13 = tls13]
    BY <1>2 DEF apply_suites, split_for_aws_lc
  <2>4. off \in SUBSET {12, 13} /\ (12 \notin off => list12 # <<>>) /\ (13 \notin off => list13 # <<>>)
    <3> HIDE DEF list12, list13
    <3> QED
      BY DEF Ctx
  <2> HIDE DEF d, off, list12, list13
  <2>5. tls12 \in Seq(Known \cup {Cbc}) /\ tls13 \in Seq(Known \cup {Cbc})
    BY <2>2 DEF Ctx
  <2>6. d \in Ctx /\ d.min = c.min /\ d.max = c.max /\ d.off = off /\ d.tls12 = tls12 /\ d.tls13 = tls13
    <3> HIDE DEF tls12, tls13
    <3> QED
      BY <2>3, <2>4, <2>5, Zenon DEF Ctx
  <2>7. ASSUME NEW v \in {12, 13} \ d.off PROVE Range(Offered(d, v)) \subseteq Only(suites, v)
    <3>1. CASE v = 12
      <4>1. Offered(d, v) = list12
        BY <2>4, <2>6, <2>7, <3>1 DEF Offered
      <4> QED
        BY <2>1, <3>1, <4>1, Elements
    <3>2. CASE v = 13
      <4>1. Offered(d, v) = list13
        BY <2>4, <2>6, <2>7, <3>2 DEF Offered
      <4> QED
        BY <2>1, <3>2, <4>1, Elements
    <3> QED
      BY <2>7, <3>1, <3>2
  <2> QED
    BY <1>2, <2>6, <2>7 DEF Listing, d
<1> QED
  BY <1>1, <1>2

\* What a builder has been told, field by field.
Fields(b) ==
  /\ b.min_version \in {0, 12, 13} /\ b.max_version \in {0, 12, 13}
  /\ b.cipher_suites \in Seq(Known) /\ b.named_groups \in Seq(NamedGroup) /\ b.alpn_protocols \in Protocols

\* What its context owes it.
Obeys(c, b) ==
  /\ c \in Ctx
  /\ (b.min_version # 0 => c.min = b.min_version) /\ (b.max_version # 0 => c.max = b.max_version)
  /\ Listing(c, b.cipher_suites)
  /\ b.named_groups # <<>> => c.groups = b.named_groups
  /\ c.alpn = encode_alpn_wire(b.alpn_protocols)

LEMMA EncodedBytes ==
  ASSUME NEW protos \in Protocols, encode_ok(protos)
  PROVE  encode_alpn_wire(protos) \in Seq(Byte)
<1>1. PICK out : Pushed(out, protos) /\ encode_alpn_wire(protos) = out[Len(protos)]
  BY Encoded, Zenon
<1>2. Len(protos) \in 0..Len(protos)
  BY DEF Protocols
<1> QED
  BY <1>1, <1>2 DEF Pushed

LEMMA ServerCtx ==
  ASSUME NEW b, Fields(b), encode_ok(b.alpn_protocols), b.client_auth \in {"None", "Optional", "Required"}
  PROVE  LET c == server_ctx(b)
         IN /\ Obeys(c, b) /\ c.verify = verify_flags(b.client_auth)
            /\ b.ktls_aead_only => Eligible(c)
<1> DEFINE c1 == set_versions(NewCtx, b)
           c2 == ktls_aead_only(c1, b)
           c3 == apply_suites(c2, b.cipher_suites)
           c4 == apply_groups(c3, b.named_groups)
           wire == encode_alpn_wire(b.alpn_protocols)
           flags == verify_flags(b.client_auth)
           c == server_ctx(b)
<1>1. c = [c4 EXCEPT !.verify = flags, !.alpn = wire]
  BY Zenon DEF server_ctx
<1>2. flags \in {"none", "peer", "require"} /\ wire \in Seq(Byte)
  BY EncodedBytes DEF verify_flags, Fields
<1>3. /\ c1 \in Ctx /\ c1.tls13 = NewCtx.tls13
      /\ b.min_version # 0 => c1.min = b.min_version
      /\ b.max_version # 0 => c1.max = b.max_version
  <2>1. NewCtx \in Ctx /\ b.min_version \in {0, 12, 13} /\ b.max_version \in {0, 12, 13}
    BY Defaults DEF Fields
  <2> QED
    BY <2>1, SetVersions
<1> HIDE DEF c1
<1>4. /\ c2 \in Ctx /\ c2.min = c1.min /\ c2.max = c1.max /\ c2.tls13 = c1.tls13
      /\ b.ktls_aead_only => c2.tls12 = Aead12
  BY <1>3, KtlsOnly, Zenon
<1> HIDE DEF c2
<1>5. /\ c3 \in Ctx /\ c3.min = c2.min /\ c3.max = c2.max /\ Listing(c3, b.cipher_suites)
      /\ b.cipher_suites = <<>> => c3 = c2
  BY <1>4, ApplySuites, Zenon DEF Fields
<1> HIDE DEF c3
<1>6. /\ c4 \in Ctx /\ c4.min = c3.min /\ c4.max = c3.max /\ c4.off = c3.off
      /\ c4.tls12 = c3.tls12 /\ c4.tls13 = c3.tls13
      /\ b.named_groups # <<>> => c4.groups = b.named_groups
  BY <1>5, ApplyGroups, Zenon DEF Fields
<1> HIDE DEF c4, c, wire, flags
<1>7. /\ c \in Ctx /\ c.min = c4.min /\ c.max = c4.max /\ c.off = c4.off /\ c.tls12 = c4.tls12
      /\ c.tls13 = c4.tls13 /\ c.groups = c4.groups /\ c.verify = flags /\ c.alpn = wire
  BY <1>1, <1>2, <1>6, Zenon DEF Ctx
<1>8. Listing(c, b.cipher_suites)
  BY <1>5, <1>6, <1>7 DEF Listing, Offered
<1>9. ASSUME b.ktls_aead_only PROVE Eligible(c)
  <2>1. CASE b.cipher_suites = <<>>
    <3>1. c.tls12 = Aead12 /\ c.tls13 = OfVersion(ALL_CIPHER_SUITES, 13)
      BY <1>3, <1>4, <1>5, <1>6, <1>7, <1>9, <2>1 DEF NewCtx
    <3>2. /\ Range(c.tls12) \subseteq {x \in Known : x.version = 12}
          /\ Range(c.tls13) \subseteq {x \in Known : x.version = 13}
      BY <3>1, Defaults, Elements, Zenon
    <3> QED
      BY <3>2 DEF Eligible, Offered
  <2>2. CASE b.cipher_suites # <<>>
    <3>1. \A v : Only(b.cipher_suites, v) \subseteq {x \in Known : x.version = v}
      BY Elements DEF Fields, Only
    <3> QED
      BY <1>8, <2>2, <3>1 DEF Listing, Eligible
  <2> QED
    BY <2>1, <2>2
<1>10. Obeys(c, b)
  BY <1>3, <1>4, <1>5, <1>6, <1>7, <1>8 DEF Obeys, wire
<1> QED
  BY <1>7, <1>9, <1>10 DEF c, flags

LEMMA ClientCtx ==
  ASSUME NEW b, Fields(b), encode_ok(b.alpn_protocols)
  PROVE  LET c == client_ctx(b)
         IN Obeys(c, b) /\ c.verify = verify_roots(b.roots)
<1> DEFINE c1 == set_versions(NewCtx, b)
           c3 == apply_suites(c1, b.cipher_suites)
           c4 == apply_groups(c3, b.named_groups)
           wire == encode_alpn_wire(b.alpn_protocols)
           flags == verify_roots(b.roots)
           c == client_ctx(b)
<1>1. c = [c4 EXCEPT !.verify = flags, !.alpn = wire]
  BY Zenon DEF client_ctx
<1>2. flags \in {"none", "peer", "require"} /\ wire \in Seq(Byte)
  BY EncodedBytes DEF verify_roots, Fields
<1>3. /\ c1 \in Ctx
      /\ b.min_version # 0 => c1.min = b.min_version
      /\ b.max_version # 0 => c1.max = b.max_version
  <2>1. NewCtx \in Ctx /\ b.min_version \in {0, 12, 13} /\ b.max_version \in {0, 12, 13}
    BY Defaults DEF Fields
  <2> QED
    BY <2>1, SetVersions
<1> HIDE DEF c1
<1>4. c3 \in Ctx /\ c3.min = c1.min /\ c3.max = c1.max /\ Listing(c3, b.cipher_suites)
  BY <1>3, ApplySuites, Zenon DEF Fields
<1> HIDE DEF c3
<1>5. /\ c4 \in Ctx /\ c4.min = c3.min /\ c4.max = c3.max /\ c4.off = c3.off
      /\ c4.tls12 = c3.tls12 /\ c4.tls13 = c3.tls13
      /\ b.named_groups # <<>> => c4.groups = b.named_groups
  BY <1>4, ApplyGroups, Zenon DEF Fields
<1> HIDE DEF c4, c, wire, flags
<1>6. /\ c \in Ctx /\ c.min = c4.min /\ c.max = c4.max /\ c.off = c4.off /\ c.tls12 = c4.tls12
      /\ c.tls13 = c4.tls13 /\ c.groups = c4.groups /\ c.verify = flags /\ c.alpn = wire
  BY <1>1, <1>2, <1>5, Zenon DEF Ctx
<1>7. Listing(c, b.cipher_suites)
  BY <1>4, <1>5, <1>6 DEF Listing, Offered
<1>8. Obeys(c, b)
  BY <1>3, <1>4, <1>5, <1>6, <1>7 DEF Obeys, wire
<1> QED
  BY <1>6, <1>8 DEF c, flags

-----------------------------------------------------------------------------
(* The invariant.                                                          *)

Types == [s \in Side |-> IF s = "server" THEN ServerTypes ELSE ClientTypes]

\* A field holds its default or an argument of its setter.
Told ==
  /\ told = [s \in Side |-> told[s]]
  /\ \A s \in Side : /\ told[s] = [f \in DOMAIN Types[s] |-> told[s][f]]
                     /\ \A f \in DOMAIN Types[s] : told[s][f] \in Types[s][f] \cup {Builder[s][f]}

\* A context that was built is the one its builder describes.
Contexts ==
  /\ ctx = [s \in Side |-> ctx[s]]
  /\ pc \in {"client", "built", "ready", "done"} =>
       encode_ok(told["server"].alpn_protocols) /\ ctx["server"] = server_ctx(told["server"])
  /\ pc \in {"built", "ready", "done"} =>
       encode_ok(told["client"].alpn_protocols) /\ ctx["client"] = client_ctx(told["client"])

\* libssl looks for the name that was meant, and only a DNS name is sent.
Names ==
  pc \in {"ready", "done"} =>
    /\ target = Meant /\ Meant # "none"
    /\ sni = IF Meant = "ip" THEN "none" ELSE Meant

IInv ==
  /\ pc \in {"server", "client", "built", "ready", "done", "failed"}
  /\ Told /\ Contexts /\ Names
  /\ NegotiatedAsTold /\ AlpnIsServersChoice /\ NameIsVerified

LEMMA SideTypes ==
  /\ "server" \in Side /\ "client" \in Side
  /\ Types["server"] = ServerTypes /\ Types["client"] = ClientTypes
  /\ DOMAIN ServerTypes = DOMAIN Builder["server"] /\ DOMAIN ClientTypes = DOMAIN Builder["client"]
BY DEF Side, Types, ServerTypes, ClientTypes, Builder

LEMMA Unchosen ==
  ASSUME pc \notin {"done"}
  PROVE  NegotiatedAsTold /\ AlpnIsServersChoice /\ NameIsVerified
BY DEF NegotiatedAsTold, AlpnIsServersChoice, NameIsVerified

LEMMA ToldFields ==
  ASSUME Told
  PROVE  /\ Fields(told["server"]) /\ Fields(told["client"])
         /\ told["server"].client_auth \in {"None", "Optional", "Required"}
<1>1. Seq(Range(ALL_CIPHER_SUITES)) \subseteq Seq(Known)
  BY KnownSuites
<1>2. /\ \A f \in DOMAIN ServerTypes : told["server"][f] \in ServerTypes[f] \cup {Builder["server"][f]}
      /\ \A f \in DOMAIN ClientTypes : told["client"][f] \in ClientTypes[f] \cup {Builder["client"][f]}
  BY SideTypes, Zenon DEF Told
<1>3. <<>> \in Seq(Known) /\ <<>> \in Seq(NamedGroup) /\ <<>> \in Protocols
  BY DEF Protocols
<1>4. Fields(told["server"]) /\ told["server"].client_auth \in {"None", "Optional", "Required"}
  <2> HIDE DEF Known, NamedGroup
  <2> QED
    BY <1>1, <1>2, <1>3, Zenon DEF Fields, ServerTypes, Builder
<1>5. Fields(told["client"])
  BY <1>1, <1>2, <1>3, Zenon DEF Fields, ClientTypes, Builder
<1> QED
  BY <1>4, <1>5

\* Fresh builders hold their defaults.
LEMMA Fresh ==
  /\ Builder = [s \in Side |-> Builder[s]]
  /\ \A s \in Side : /\ Builder[s] = [f \in DOMAIN Types[s] |-> Builder[s][f]]
                     /\ \A f \in DOMAIN Types[s] : Builder[s][f] \in Types[s][f] \cup {Builder[s][f]}
<1>1. Builder = [s \in Side |-> Builder[s]]
  BY DEF Builder, Side
<1>2. /\ Builder["server"] = [f \in DOMAIN ServerTypes |-> Builder["server"][f]]
      /\ Builder["client"] = [f \in DOMAIN ClientTypes |-> Builder["client"][f]]
  BY DEF Builder, ServerTypes, ClientTypes
<1>3. ASSUME NEW s \in Side
      PROVE  /\ Builder[s] = [f \in DOMAIN Types[s] |-> Builder[s][f]]
             /\ \A f \in DOMAIN Types[s] : Builder[s][f] \in Types[s][f] \cup {Builder[s][f]}
  <2>1. s = "server" \/ s = "client"
    BY DEF Side
  <2> QED
    BY <1>2, <2>1, SideTypes
<1> QED
  BY <1>1, <1>3

LEMMA InitInv == Init => IInv
<1> SUFFICES ASSUME Init PROVE IInv
  OBVIOUS
<1>1. pc = "server" /\ told = Builder /\ ctx = [s \in Side |-> NewCtx]
  BY DEF Init
<1>2. Told
  BY <1>1, Fresh, Zenon DEF Told
<1>3. Contexts /\ Names
  BY <1>1 DEF Contexts, Names
<1> QED
  BY <1>1, <1>2, <1>3, Unchosen DEF IInv

\* A setter replaces one field of its own side.
LEMMA SetStep ==
  ASSUME IInv, NEW s \in Side, NEW values, Set(s, values), DOMAIN values \subseteq DOMAIN Types[s],
         \A f \in DOMAIN values : values[f] \subseteq Types[s][f]
  PROVE  IInv'
<1>1. /\ pc = s /\ UNCHANGED <<pc, ctx, asked, sni, target, agreed>>
  BY DEF Set
<1>2. PICK f \in DOMAIN values : \E v \in values[f] : told' = [told EXCEPT ![s][f] = v]
  BY Zenon DEF Set
<1>0. PICK v \in values[f] : told' = [told EXCEPT ![s][f] = v]
  BY <1>2, Zenon
<1>3. f \in DOMAIN Types[s] /\ v \in Types[s][f]
  BY <1>0, <1>2
<1>4. told = [t \in Side |-> told[t]] /\ told[s] = [g \in DOMAIN Types[s] |-> told[s][g]]
  BY Zenon DEF IInv, Told
<1>5. /\ told' = [t \in Side |-> told'[t]]
      /\ \A t \in Side \ {s} : told'[t] = told[t]
      /\ told'[s] = [told[s] EXCEPT ![f] = v]
  BY <1>0, <1>4, Zenon
<1>6. /\ told'[s] = [g \in DOMAIN Types[s] |-> told'[s][g]]
      /\ told'[s][f] = v /\ \A g \in DOMAIN Types[s] \ {f} : told'[s][g] = told[s][g]
  BY <1>3, <1>4, <1>5
<1>7. Told'
  <2>1. ASSUME NEW t \in Side
        PROVE  /\ told'[t] = [g \in DOMAIN Types[t] |-> told'[t][g]]
               /\ \A g \in DOMAIN Types[t] : told'[t][g] \in Types[t][g] \cup {Builder[t][g]}
    <3>1. /\ told[t] = [g \in DOMAIN Types[t] |-> told[t][g]]
          /\ \A g \in DOMAIN Types[t] : told[t][g] \in Types[t][g] \cup {Builder[t][g]}
      BY Zenon DEF IInv, Told
    <3>2. CASE t # s
      BY <1>5, <3>1, <3>2
    <3>3. CASE t = s
      BY <1>3, <1>6, <3>1, <3>3
    <3> QED
      BY <3>2, <3>3
  <2> QED
    BY <1>5, <2>1 DEF Told
<1>8. s = "client" => told'["server"] = told["server"]
  BY <1>5, SideTypes
<1>9. s \in {"server", "client"}
  BY DEF Side
<1>10. Contexts' /\ Names'
  BY <1>1, <1>8, <1>9, Zenon DEF IInv, Contexts, Names
<1>11. (NegotiatedAsTold /\ AlpnIsServersChoice /\ NameIsVerified)'
  BY <1>1, <1>9 DEF NegotiatedAsTold, AlpnIsServersChoice, NameIsVerified
<1> QED
  BY <1>1, <1>7, <1>10, <1>11 DEF IInv

LEMMA SetterStep ==
  ASSUME IInv, server_set \/ client_set
  PROVE  IInv'
<1>1. CASE server_set
  BY <1>1, SetStep, SideTypes, ConstantsAssumption, Zenon DEF server_set
<1>2. CASE client_set
  BY <1>2, SetStep, SideTypes, ConstantsAssumption, Zenon DEF client_set
<1> QED
  BY <1>1, <1>2

\* An error leaves two fresh builders and no context.
LEMMA FailStep ==
  ASSUME IInv, Fail
  PROVE  IInv'
<1>1. pc' = "failed" /\ told' = Builder /\ ctx' = [s \in Side |-> NewCtx]
  BY DEF Fail
<1>2. Told'
  BY <1>1, Fresh, Zenon DEF Told
<1>3. Contexts' /\ Names'
  BY <1>1 DEF Contexts, Names
<1>4. (NegotiatedAsTold /\ AlpnIsServersChoice /\ NameIsVerified)'
  BY <1>1 DEF NegotiatedAsTold, AlpnIsServersChoice, NameIsVerified
<1> QED
  BY <1>1, <1>2, <1>3, <1>4 DEF IInv

LEMMA BuildStep ==
  ASSUME IInv, finish \/ build
  PROVE  IInv'
<1>1. CASE Fail
  BY <1>1, FailStep
<1>2. CASE /\ pc = "server" /\ encode_ok(told["server"].alpn_protocols)
           /\ ctx' = [ctx EXCEPT !["server"] = server_ctx(told["server"])] /\ pc' = "client"
           /\ UNCHANGED <<told, asked, sni, target, agreed>>
  <2>1. ctx' = [s \in Side |-> ctx'[s]] /\ ctx'["server"] = server_ctx(told["server"])
    BY <1>2, SideTypes DEF IInv, Contexts
  <2>2. Told' /\ Contexts' /\ Names'
    BY <1>2, <2>1 DEF IInv, Told, Contexts, Names
  <2> QED
    BY <1>2, <2>2 DEF IInv, NegotiatedAsTold, AlpnIsServersChoice, NameIsVerified
<1>3. CASE /\ pc = "client" /\ encode_ok(told["client"].alpn_protocols)
           /\ ctx' = [ctx EXCEPT !["client"] = client_ctx(told["client"])] /\ pc' = "built"
           /\ UNCHANGED <<told, asked, sni, target, agreed>>
  <2>1. /\ ctx' = [s \in Side |-> ctx'[s]] /\ ctx'["client"] = client_ctx(told["client"])
        /\ ctx'["server"] = ctx["server"]
    BY <1>3, SideTypes DEF IInv, Contexts
  <2>2. Told' /\ Contexts' /\ Names'
    BY <1>3, <2>1 DEF IInv, Told, Contexts, Names
  <2> QED
    BY <1>3, <2>2 DEF IInv, NegotiatedAsTold, AlpnIsServersChoice, NameIsVerified
<1> QED
  BY <1>1, <1>2, <1>3, Zenon DEF finish, build, Built

\* connect keeps the invariant if it is called with the name that is meant.
LEMMA ConnectStep ==
  ASSUME IInv, pc = "built", NEW by \in {"uri", "name"}, NEW host \in {"empty", "nul", "dns", "ip", "[ip]"},
         NEW name, name = IF by = "uri" /\ host = "[ip]" THEN "ip" ELSE host, connect(by, host, name)
  PROVE  IInv'
<1>1. CASE Fail
  BY <1>1, FailStep, Zenon
<1>2. CASE /\ name \notin {"empty", "nul"}
           /\ asked' = [by |-> by, host |-> host]
           /\ sni' = IF name = "ip" THEN "none" ELSE name
           /\ target' = set1_host(name)
           /\ pc' = "ready" /\ UNCHANGED <<told, ctx, agreed>>
  <2>1. Meant' = name /\ name # "none"
    BY <1>2 DEF Meant
  <2>2. Names'
    BY <1>2, <2>1 DEF Names, set1_host
  <2>3. Told' /\ Contexts'
    BY <1>2 DEF IInv, Told, Contexts
  <2> QED
    BY <1>2, <2>2, <2>3 DEF IInv, NegotiatedAsTold, AlpnIsServersChoice, NameIsVerified
<1> QED
  BY <1>1, <1>2, Zenon DEF connect

LEMMA CallStep ==
  ASSUME IInv, call \/ direct
  PROVE  IInv'
<1>1. pc = "built"
  BY DEF call, direct
<1>2. \A h \in Hosts : h \in {"empty", "nul", "dns", "ip", "[ip]"}
  BY ConstantsAssumption
<1>3. \/ Fail
      \/ \E h \in Hosts : connect("uri", h, strip_brackets(h))
      \/ \E h \in Hosts : connect("name", h, h)
  BY Zenon DEF call, direct
<1>4. ASSUME NEW h \in Hosts, connect("uri", h, strip_brackets(h)) PROVE IInv'
  <2>1. strip_brackets(h) = IF "uri" = "uri" /\ h = "[ip]" THEN "ip" ELSE h
    BY DEF strip_brackets
  <2> QED
    BY <1>1, <1>2, <1>4, <2>1, ConnectStep, Zenon
<1>5. ASSUME NEW h \in Hosts, connect("name", h, h) PROVE IInv'
  <2>1. h = IF "name" = "uri" /\ h = "[ip]" THEN "ip" ELSE h
    OBVIOUS
  <2> QED
    BY <1>1, <1>2, <1>5, <2>1, ConnectStep, Zenon
<1> QED
  BY <1>3, <1>4, <1>5, FailStep, Zenon

-----------------------------------------------------------------------------
(* The handshake.                                                          *)

LEMMA FirstOf ==
  ASSUME NEW list, NEW set, NEW x \in First(list, set)
  PROVE  /\ x \in Range(list) /\ x \in set
         /\ \E i \in DOMAIN list : x = list[i] /\ \A j \in 1..(i - 1) : list[j] \notin set
BY DEF First, Range

\* When a handshake begins, each context owes its builder what Obeys says.
LEMMA Ready ==
  ASSUME IInv, pc = "ready"
  PROVE  /\ \A s \in Side : Fields(told[s]) /\ Obeys(ctx[s], told[s]) /\ encode_ok(told[s].alpn_protocols)
         /\ told["server"].client_auth \in {"None", "Optional", "Required"}
         /\ ctx["server"].verify = verify_flags(told["server"].client_auth)
         /\ told["server"].ktls_aead_only => Eligible(ctx["server"])
         /\ ctx["client"].verify = verify_roots(told["client"].roots)
<1>1. /\ Fields(told["server"]) /\ Fields(told["client"])
      /\ told["server"].client_auth \in {"None", "Optional", "Required"}
  BY ToldFields DEF IInv
<1>2. /\ encode_ok(told["server"].alpn_protocols) /\ ctx["server"] = server_ctx(told["server"])
      /\ encode_ok(told["client"].alpn_protocols) /\ ctx["client"] = client_ctx(told["client"])
  BY DEF IInv, Contexts
<1>3. /\ Obeys(server_ctx(told["server"]), told["server"])
      /\ server_ctx(told["server"]).verify = verify_flags(told["server"].client_auth)
      /\ told["server"].ktls_aead_only => Eligible(server_ctx(told["server"]))
  BY <1>1, <1>2, ServerCtx, Zenon
<1>4. /\ Obeys(client_ctx(told["client"]), told["client"])
      /\ client_ctx(told["client"]).verify = verify_roots(told["client"].roots)
  BY <1>1, <1>2, ClientCtx, Zenon
<1>5. \A s \in Side : s = "server" \/ s = "client"
  BY DEF Side
<1> HIDE DEF Fields, Obeys, Eligible, encode_ok, verify_flags, verify_roots
<1> QED
  BY <1>1, <1>2, <1>3, <1>4, <1>5

LEMMA VersionInBounds ==
  ASSUME NEW c, NEW b, Obeys(c, b), Fields(b), NEW v \in Versions(c)
  PROVE  /\ v \in {12, 13} \ c.off
         /\ b.min_version # 0 => v >= b.min_version
         /\ b.max_version # 0 => v <= b.max_version
<1>1. c.min \in {12, 13} /\ c.max \in {12, 13}
  BY DEF Obeys, Ctx
<1>2. v \in c.min..c.max /\ v \notin c.off
  BY DEF Versions
<1>3. v \in {12, 13} /\ c.min <= v /\ v <= c.max
  BY <1>1, <1>2
<1> QED
  BY <1>2, <1>3 DEF Obeys

\* A suite that a context offers for a version is on its builder's list, if it has one.
LEMMA SuiteListed ==
  ASSUME NEW c, NEW b, Obeys(c, b), NEW v \in {12, 13} \ c.off, NEW x \in Range(Offered(c, v))
  PROVE  Listed({y.id : y \in Range(b.cipher_suites)}, x.id)
<1>1. CASE b.cipher_suites = <<>>
  <2>1. {y.id : y \in Range(b.cipher_suites)} = {}
    BY <1>1 DEF Range
  <2> QED
    BY <2>1 DEF Listed
<1>2. CASE b.cipher_suites # <<>>
  <2>1. x \in Range(b.cipher_suites)
    BY <1>2 DEF Obeys, Listing, Only
  <2> QED
    BY <2>1 DEF Listed
<1> QED
  BY <1>1, <1>2

LEMMA GroupListed ==
  ASSUME NEW c, NEW b, Obeys(c, b), NEW x \in Range(c.groups)
  PROVE  Listed(Range(b.named_groups), x)
<1>1. CASE b.named_groups = <<>>
  <2>1. Range(b.named_groups) = {}
    BY <1>1 DEF Range
  <2> QED
    BY <2>1 DEF Listed
<1>2. CASE b.named_groups # <<>>
  BY <1>2 DEF Obeys, Listed
<1> QED
  BY <1>1, <1>2

\* The contexts' lists are empty where the builders' are, and decode to them.
LEMMA AlpnTold ==
  ASSUME IInv, pc = "ready"
  PROVE  \A s \in Side : /\ ctx[s].alpn = <<>> <=> told[s].alpn_protocols = <<>>
                         /\ iter_alpn_wire(ctx[s].alpn) = told[s].alpn_protocols
<1> SUFFICES ASSUME NEW s \in Side
             PROVE  /\ ctx[s].alpn = <<>> <=> told[s].alpn_protocols = <<>>
                    /\ iter_alpn_wire(ctx[s].alpn) = told[s].alpn_protocols
  OBVIOUS
<1> DEFINE protos == told[s].alpn_protocols
<1>1. protos \in Protocols /\ encode_ok(protos) /\ ctx[s].alpn = encode_alpn_wire(protos)
  BY Ready, Zenon DEF Fields, Obeys
<1> HIDE DEF protos
<1>2. /\ iter_alpn_wire(encode_alpn_wire(protos)) = protos
      /\ encode_alpn_wire(protos) = <<>> <=> protos = <<>>
  BY <1>1, AlpnRoundTrip, Zenon
<1> QED
  BY <1>1, <1>2 DEF protos

\* What a handshake that ends well has agreed on.
Agreed(v, key, covers, server, client, suite, group, alpn) ==
  /\ v \in Versions(ctx["server"]) \cap Versions(ctx["client"])
  /\ server \in {"good", "bad"} /\ client \in {"none", "good", "bad"}
  /\ Passes(ctx["client"].verify, server) /\ Passes(ctx["server"].verify, client)
  /\ ctx["client"].verify # "none" /\ target # "none" => target \in covers
  /\ suite \in SuitesFor(v, key) /\ group \in GroupsFor(v)
  /\ alpn \in (IF ctx["server"].alpn # <<>> /\ ctx["client"].alpn # <<>>
               THEN alpn_select_cb(ctx["server"].alpn, ctx["client"].alpn) ELSE {<<>>})
  /\ agreed' = [version |-> v, suite |-> suite.id, group |-> group, alpn |-> alpn,
                covers |-> covers, server |-> server, client |-> client]
  /\ pc' = "done" /\ UNCHANGED <<told, ctx, asked, sni, target>>

LEMMA SuiteAgreed ==
  ASSUME IInv, pc = "ready", NEW v, NEW key, NEW covers, NEW server, NEW client, NEW suite, NEW group, NEW alpn,
         Agreed(v, key, covers, server, client, suite, group, alpn)
  PROVE  NegotiatedAsTold'
<1>1. /\ \A s \in Side : Fields(told[s]) /\ Obeys(ctx[s], told[s])
      /\ told["server"].client_auth \in {"None", "Optional", "Required"}
      /\ ctx["server"].verify = verify_flags(told["server"].client_auth)
      /\ told["server"].ktls_aead_only => Eligible(ctx["server"])
      /\ ctx["client"].verify = verify_roots(told["client"].roots)
  BY Ready, Zenon
<1>2. /\ agreed'.version = v /\ agreed'.suite = suite.id /\ agreed'.group = group
      /\ agreed'.server = server /\ agreed'.client = client /\ told' = told
  BY DEF Agreed
<1>3. \A s \in Side : v \in Versions(ctx[s])
  BY DEF Agreed, Side
<1>4. ASSUME NEW s \in Side
      PROVE  /\ v \in {12, 13} \ ctx[s].off
             /\ told[s].min_version # 0 => v >= told[s].min_version
             /\ told[s].max_version # 0 => v <= told[s].max_version
  BY <1>1, <1>3, VersionInBounds, Zenon
<1>5. /\ suite \in Range(Offered(ctx["server"], v)) /\ suite \in Range(Offered(ctx["client"], v))
      /\ group \in Range(ctx["server"].groups) /\ group \in Range(ctx["client"].groups)
  <2>1. suite \in SuitesFor(v, key) /\ group \in GroupsFor(v)
    BY DEF Agreed
  <2>2. /\ suite \in Range(Offered(ctx["server"], v))
        /\ suite \in {x \in Range(Offered(ctx["client"], v)) : x.auth \in {"any", key}}
    BY <2>1, FirstOf DEF SuitesFor
  <2>3. /\ group \in Range(ctx["server"].groups)
        /\ group \in {g \in Range(ctx["client"].groups) : v = 13 \/ g \notin Hybrid}
    BY <2>1, FirstOf DEF GroupsFor
  <2> QED
    BY <2>2, <2>3
<1>6. \A s \in Side : suite \in Range(Offered(ctx[s], v)) /\ group \in Range(ctx[s].groups)
  BY <1>5 DEF Side
<1>7. ASSUME NEW s \in Side
      PROVE  /\ Listed({x.id : x \in Range(told[s].cipher_suites)}, suite.id)
             /\ Listed(Range(told[s].named_groups), group)
  BY <1>1, <1>4, <1>6, SuiteListed, GroupListed, Zenon
<1>8. ASSUME told["server"].ktls_aead_only PROVE is_compatible'
  <2>1. suite \in Known /\ suite.version = v
    BY <1>1, <1>4, <1>6, <1>8, SideTypes DEF Eligible
  <2>2. Keys!from_ids(IF v = 13 THEN "1.3" ELSE "1.2", suite.id) # "none"
    BY <2>1, KnownEligible, Zenon
  <2> QED
    BY <1>2, <2>2 DEF is_compatible
<1>9. told["client"].roots # "Disabled" => server = "good"
  BY <1>1 DEF Agreed, Passes, verify_roots
<1>10. /\ told["server"].client_auth = "Required" => client = "good"
       /\ told["server"].client_auth = "Optional" => client # "bad"
  BY <1>1 DEF Agreed, Passes, verify_flags
<1> QED
  BY <1>2, <1>4, <1>7, <1>8, <1>9, <1>10 DEF NegotiatedAsTold

LEMMA AlpnAgreed ==
  ASSUME IInv, pc = "ready", NEW v, NEW key, NEW covers, NEW server, NEW client, NEW suite, NEW group, NEW alpn,
         Agreed(v, key, covers, server, client, suite, group, alpn)
  PROVE  AlpnIsServersChoice'
<1> DEFINE mine == told["server"].alpn_protocols
           theirs == told["client"].alpn_protocols
<1>1. agreed'.alpn = alpn /\ told' = told /\ pc' = "done"
  BY DEF Agreed
<1>2. /\ ctx["server"].alpn = <<>> <=> mine = <<>>
      /\ ctx["client"].alpn = <<>> <=> theirs = <<>>
      /\ iter_alpn_wire(ctx["server"].alpn) = mine /\ iter_alpn_wire(ctx["client"].alpn) = theirs
  BY AlpnTold, SideTypes, Zenon
<1>3. mine \in Protocols /\ \A i \in DOMAIN mine : Len(mine[i]) \in 1..MaxProto
  BY Ready, SideTypes, Zenon DEF Fields, encode_ok
<1>4. negotiated("client")'.alpn = {alpn} \ {<<>>}
  BY <1>1 DEF negotiated
<1>5. connected' = IF {alpn} \ {<<>>} = {H2} THEN "h2" ELSE "http1"
  BY <1>4, Zenon DEF connected
<1>6. CASE mine = <<>> \/ theirs = <<>>
  <2>1. alpn = <<>>
    BY <1>2, <1>6 DEF Agreed
  <2>2. {alpn} \ {<<>>} = {}
    BY <2>1
  <2> QED
    BY <1>1, <1>4, <1>5, <1>6, <2>2, Zenon DEF AlpnIsServersChoice
<1>7. CASE ~(mine = <<>> \/ theirs = <<>>)
  <2>1. alpn \in First(mine, Range(theirs))
    BY <1>2, <1>7, Zenon DEF Agreed, alpn_select_cb
  <2>2. PICK i \in DOMAIN mine : alpn = mine[i] /\ \A j \in 1..(i - 1) : mine[j] \notin Range(theirs)
    BY <2>1, FirstOf
  <2>3. mine[i] \in Range(theirs)
    BY <2>1, <2>2, FirstOf
  <2>4. mine[i] # <<>>
    BY <1>3
  <2>5. {alpn} \ {<<>>} = {mine[i]}
    BY <2>2, <2>4
  <2>6. connected' = IF mine[i] = H2 THEN "h2" ELSE "http1"
    BY <1>5, <2>5, Zenon
  <2> QED
    BY <1>1, <1>4, <1>7, <2>2, <2>3, <2>5, <2>6, Zenon DEF AlpnIsServersChoice
<1> QED
  BY <1>6, <1>7

LEMMA NameAgreed ==
  ASSUME IInv, pc = "ready", NEW v, NEW key, NEW covers, NEW server, NEW client, NEW suite, NEW group, NEW alpn,
         Agreed(v, key, covers, server, client, suite, group, alpn)
  PROVE  NameIsVerified'
<1>1. /\ agreed'.covers = covers /\ told' = told /\ Meant' = Meant /\ sni' = sni
      /\ ctx["client"].verify # "none" /\ target # "none" => target \in covers
  BY DEF Agreed, Meant
<1>2. target = Meant /\ Meant # "none" /\ sni = IF Meant = "ip" THEN "none" ELSE Meant
  BY DEF IInv, Names
<1>3. told["client"].roots # "Disabled" => ctx["client"].verify # "none"
  BY Ready DEF verify_roots
<1>4. negotiated("server")'.sni = IF Meant = "ip" THEN "none" ELSE Meant
  BY <1>1, <1>2 DEF negotiated
<1> QED
  BY <1>1, <1>2, <1>3, <1>4 DEF NameIsVerified

LEMMA HandshakeStep ==
  ASSUME IInv, SSL_do_handshake
  PROVE  IInv'
<1>1. pc = "ready"
  BY Zenon DEF SSL_do_handshake
<1>2. CASE Fail
  BY <1>2, FailStep
<1>3. ASSUME NEW v, NEW key, NEW covers, NEW server, NEW client, NEW suite, NEW group, NEW alpn,
             Agreed(v, key, covers, server, client, suite, group, alpn)
      PROVE  IInv'
  <2>1. NegotiatedAsTold' /\ AlpnIsServersChoice' /\ NameIsVerified'
    BY <1>1, <1>3, SuiteAgreed, AlpnAgreed, NameAgreed, Zenon
  <2>2. pc' = "done" /\ UNCHANGED <<told, ctx, asked, sni, target>>
    BY <1>3 DEF Agreed
  <2>3. Told' /\ Contexts' /\ Names'
    BY <1>1, <2>2 DEF IInv, Told, Contexts, Names, Meant
  <2> QED
    BY <2>1, <2>2, <2>3 DEF IInv
<1>4. Shown \subseteq {"none", "good", "bad"}
  BY DEF Shown
<1>5. CASE ~Fail
  <2> DEFINE both == Versions(ctx["server"]) \cap Versions(ctx["client"])
             offers == ctx["server"].alpn # <<>> /\ ctx["client"].alpn # <<>>
             protos == IF offers THEN alpn_select_cb(ctx["server"].alpn, ctx["client"].alpn) ELSE {<<>>}
  <2>1. PICK v \in both, key \in {"rsa", "ecdsa"}, covers \in {{"dns"}, {"ip"}},
             server \in {"good", "bad"}, client \in Shown :
             /\ \A w \in both : w <= v
             /\ Passes(ctx["client"].verify, server) /\ Passes(ctx["server"].verify, client)
             /\ ctx["client"].verify # "none" /\ target # "none" => target \in covers
             /\ \E suite \in SuitesFor(v, key), group \in GroupsFor(v), alpn \in protos :
                  agreed' = [version |-> v, suite |-> suite.id, group |-> group, alpn |-> alpn,
                             covers |-> covers, server |-> server, client |-> client]
             /\ pc' = "done" /\ UNCHANGED <<told, ctx, asked, sni, target>>
    BY <1>5, Zenon DEF SSL_do_handshake
  <2>2. PICK suite \in SuitesFor(v, key), group \in GroupsFor(v), alpn \in protos :
               agreed' = [version |-> v, suite |-> suite.id, group |-> group, alpn |-> alpn,
                          covers |-> covers, server |-> server, client |-> client]
    BY <2>1, Zenon
  <2>3. Agreed(v, key, covers, server, client, suite, group, alpn)
    BY <1>4, <2>1, <2>2, Zenon DEF Agreed
  <2> QED
    BY <1>3, <2>3, Zenon
<1> QED
  BY <1>2, <1>5, Zenon

LEMMA StepInv == IInv /\ [Next]_vars => IInv'
<1> SUFFICES ASSUME IInv, [Next]_vars PROVE IInv'
  OBVIOUS
<1>1. CASE server_set \/ client_set
  BY <1>1, SetterStep
<1>2. CASE finish \/ build
  BY <1>2, BuildStep
<1>3. CASE call \/ direct
  BY <1>3, CallStep
<1>4. CASE SSL_do_handshake
  BY <1>4, HandshakeStep, Zenon
<1>5. CASE UNCHANGED vars
  BY <1>5, Zenon DEF IInv, Told, Contexts, Names, NegotiatedAsTold, AlpnIsServersChoice, NameIsVerified,
              Meant, is_compatible, negotiated, connected, vars
<1> QED
  BY <1>1, <1>2, <1>3, <1>4, <1>5, Zenon DEF Next

(* The contexts that finish and build make are the ones their builders     *)
(* describe, whatever setters were called in whatever order, up to the end *)
(* of the handshake.                                                       *)
THEOREM Invariant == Spec => []IInv
BY InitInv, StepInv, PTL DEF Spec

(* For every sequence of setter calls, every list of suites, of groups and *)
(* of protocols: a handshake that ends well has kept to both builders'     *)
(* version bounds, cipher suites and named groups, is one that kTLS takes  *)
(* over if the server was told so, and each side has had the proof of its  *)
(* peer that it asked for (finish, build, the two apply_to_ctx).           *)
THEOREM KeepsToConfiguration == Spec => []NegotiatedAsTold
BY Invariant, PTL DEF IInv

(* For every two lists of protocols: the handshake ends with the first of  *)
(* the server's that the client offers, read back out of the encoded       *)
(* lists, and hyper speaks HTTP/2 exactly if that is h2 (encode_alpn_wire, *)
(* iter_alpn_wire, alpn_select_cb, connected).                             *)
THEOREM ServerChoosesAlpn == Spec => []AlpnIsServersChoice
BY Invariant, PTL DEF IInv

(* A verifying client hands out a stream only if the certificate covers    *)
(* the host of the URI or the name it was asked for, and the server sees   *)
(* exactly that name as SNI, or none if it is an IP address: the IPv6      *)
(* literal of a URI is checked as an address, without its brackets         *)
(* (connect, call).                                                        *)
THEOREM NameChecked == Spec => []NameIsVerified
BY Invariant, PTL DEF IInv

=============================================================================
