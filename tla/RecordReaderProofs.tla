------------------------- MODULE RecordReaderProofs -------------------------
(***************************************************************************)
(* Theorems about RecordReader: what it delivers is the peer's stream, end *)
(* of file is the peer's, a held alert byte meets its own alert, a         *)
(* finished reader stays so, a parked one is woken, and together: it       *)
(* implements InboundStream, for any records, buffers, budget and faults.  *)
(*                                                                         *)
(* InOrder alone is not inductive: the next bytes come from the kernel's   *)
(* queue.  Laid gives every record in it its place in the peer's stream,   *)
(* from what is delivered to what is sent, as long as the reader has not   *)
(* failed; Close says that a close_notify, counting the byte already held, *)
(* is the last record.                                                     *)
(***************************************************************************)
EXTENDS RecordReader, SequenceTheorems, TLAPS

Kind == {"data", "alert", "handshake", "other"}
Record == [type : Kind, body : Seq(Nat)]

Types ==
  /\ alert \in Seq(Nat) /\ terminal \in {"none", "Closed"} \cup Failed
  /\ pc \in {"idle", "waiting"} \cup Step /\ cap \in Nat
  /\ kq \in Seq(Record) /\ armed \in [Dir -> BOOLEAN] /\ woken \in BOOLEAN
  /\ delivered \in Seq(Nat) /\ sent \in Nat /\ closeAt \in Nat \cup {-1}

Control ==
  /\ terminal # "none" => pc \in {"idle", "waiting"}
  /\ pc \in Step => cap > 0
  /\ result = "Eof" => terminal = "Closed"

\* Record r covers the places behind a up to b of the peer's stream.
Covers(r, a, b) ==
  IF r.type = "data" THEN b = a + Len(r.body) /\ \A j \in 1..Len(r.body) : r.body[j] = Data + a + j
  ELSE b = a

\* The records of q cover what is behind d up to e.
Laid(q, d, e) ==
  \E off \in [1..(Len(q) + 1) -> 0..e] :
    /\ off[1] = d /\ off[Len(q) + 1] = e
    /\ \A i \in 1..Len(q) : Covers(q[i], off[i], off[i + 1])

\* The alert record i of q is of, when the bytes of a are already taken.
Whole(q, a, i) == IF i = 1 THEN a \o q[1].body ELSE q[i].body

\* A close_notify in q is its last record, and was sent (c is not -1).
Close(q, a, c) ==
  \A i \in 1..Len(q) :
    q[i].type = "alert" /\ IsClose(Whole(q, a, i)) => i = Len(q) /\ c # -1

Stream ==
  /\ Len(delivered) <= sent /\ (closeAt # -1 => closeAt = sent)
  /\ terminal = "Closed" => closeAt # -1 /\ Len(delivered) = closeAt
  /\ terminal = "none" => Laid(kq, Len(delivered), sent) /\ Close(kq, alert, closeAt)

IInv == Types /\ Control /\ Stream /\ InOrder /\ PartialAlertMatches /\ ParkedIsArmed

-----------------------------------------------------------------------------
(* The queue.                                                              *)

LEMMA LaidEmpty == Laid(<<>>, 0, 0)
<1> DEFINE off == [i \in 1..1 |-> 0]
<1>1. Len(<<>>) = 0 /\ off \in [1..(Len(<<>>) + 1) -> 0..0] /\ off[1] = 0 /\ off[Len(<<>>) + 1] = 0
  OBVIOUS
<1>2. \A i \in 1..Len(<<>>) : Covers(<<>>[i], off[i], off[i + 1])
  BY <1>1
<1> HIDE DEF off
<1> QED
  BY <1>1, <1>2 DEF Laid

LEMMA LaidAppend ==
  ASSUME NEW q \in Seq(Record), NEW d \in Nat, NEW e \in Nat, NEW b \in Nat, NEW r \in Record,
         Laid(q, d, e), Covers(r, e, b), e <= b
  PROVE  Laid(Append(q, r), d, b)
<1> DEFINE Q == Append(q, r)
<1>1. PICK off \in [1..(Len(q) + 1) -> 0..e] :
        /\ off[1] = d /\ off[Len(q) + 1] = e
        /\ \A i \in 1..Len(q) : Covers(q[i], off[i], off[i + 1])
  BY DEF Laid
<1> DEFINE off2 == [i \in 1..(Len(Q) + 1) |-> IF i = Len(Q) + 1 THEN b ELSE off[i]]
<1>2. Len(q) \in Nat /\ Len(Q) = Len(q) + 1 /\ Q[Len(Q)] = r /\ \A i \in 1..Len(q) : Q[i] = q[i]
  BY AppendProperties, LenProperties
<1> HIDE DEF Q
<1>3. off2 \in [1..(Len(Q) + 1) -> 0..b]
  BY <1>1, <1>2
<1>4. off2[1] = d /\ off2[Len(Q) + 1] = b /\ off2[Len(Q)] = e
  BY <1>1, <1>2
<1>5. ASSUME NEW i \in 1..Len(q)
      PROVE  Covers(Q[i], off2[i], off2[i + 1])
  <2>1. off2[i] = off[i] /\ off2[i + 1] = off[i + 1] /\ Q[i] = q[i]
    BY <1>2
  <2> QED
    BY <1>1, <2>1, Zenon
<1>6. Covers(Q[Len(Q)], off2[Len(Q)], off2[Len(Q) + 1])
  BY <1>2, <1>4, Zenon
<1>7. \A i \in 1..Len(Q) : Covers(Q[i], off2[i], off2[i + 1])
  <2> SUFFICES ASSUME NEW i \in 1..Len(Q)
      PROVE  Covers(Q[i], off2[i], off2[i + 1])
    BY Zenon
  <2>1. i \in 1..Len(q) \/ i = Len(Q)
    BY <1>2
  <2> HIDE DEF off2
  <2> QED
    BY <1>5, <1>6, <2>1, Zenon
<1> HIDE DEF off2
<1>8. Laid(Q, d, b)
  BY <1>3, <1>4, <1>7, Zenon DEF Laid
<1> QED
  BY <1>8 DEF Q

LEMMA LaidTail ==
  ASSUME NEW q \in Seq(Record), NEW d \in Nat, NEW e \in Nat, NEW m \in Nat, q # <<>>,
         Laid(q, d, e), \A n \in Nat : Covers(q[1], d, n) => n = m
  PROVE  Laid(Tail(q), m, e) /\ m <= e /\ Covers(q[1], d, m)
<1> DEFINE Q == Tail(q)
<1>1. PICK off \in [1..(Len(q) + 1) -> 0..e] :
        /\ off[1] = d /\ off[Len(q) + 1] = e
        /\ \A i \in 1..Len(q) : Covers(q[i], off[i], off[i + 1])
  BY DEF Laid
<1>2. Len(q) \in Nat \ {0} /\ Len(Q) = Len(q) - 1 /\ \A i \in 1..Len(Q) : Q[i] = q[i + 1]
  BY LenProperties, EmptySeq, HeadTailProperties
<1> HIDE DEF Q
<1> DEFINE off2 == [i \in 1..(Len(Q) + 1) |-> off[i + 1]]
<1>3. off[2] = m /\ off[2] \in 0..e /\ Covers(q[1], d, m)
  <2>1. off[2] \in 0..e /\ Covers(q[1], d, off[2])
    BY <1>1, <1>2
  <2> QED
    BY <2>1
<1>4. off2 \in [1..(Len(Q) + 1) -> 0..e] /\ off2[1] = m /\ off2[Len(Q) + 1] = e
  BY <1>1, <1>2, <1>3
<1>5. ASSUME NEW i \in 1..Len(Q)
      PROVE  Covers(Q[i], off2[i], off2[i + 1])
  <2>1. off2[i] = off[i + 1] /\ off2[i + 1] = off[(i + 1) + 1] /\ Q[i] = q[i + 1] /\ i + 1 \in 1..Len(q)
    BY <1>2
  <2> QED
    BY <1>1, <2>1, Zenon
<1> HIDE DEF off2
<1>6. Laid(Q, m, e)
  BY <1>4, <1>5, Zenon DEF Laid
<1> QED
  BY <1>3, <1>6 DEF Q

LEMMA LaidCons ==
  ASSUME NEW t \in Seq(Record), NEW d \in Nat, NEW e \in Nat, NEW m \in Nat, NEW r \in Record,
         Laid(t, m, e), Covers(r, d, m), d <= m, m <= e
  PROVE  Laid(<<r>> \o t, d, e)
<1> DEFINE Q == <<r>> \o t
<1>1. PICK off \in [1..(Len(t) + 1) -> 0..e] :
        /\ off[1] = m /\ off[Len(t) + 1] = e
        /\ \A i \in 1..Len(t) : Covers(t[i], off[i], off[i + 1])
  BY DEF Laid
<1>2. Len(t) \in Nat /\ Len(Q) = Len(t) + 1 /\ Q[1] = r /\ \A i \in 1..Len(t) : Q[i + 1] = t[i]
  BY LenProperties
<1> HIDE DEF Q
<1> DEFINE off2 == [i \in 1..(Len(Q) + 1) |-> IF i = 1 THEN d ELSE off[i - 1]]
<1>3. off2 \in [1..(Len(Q) + 1) -> 0..e]
  BY <1>1, <1>2
<1>4. off2[1] = d /\ off2[2] = m /\ off2[Len(Q) + 1] = e
  BY <1>1, <1>2
<1>5. ASSUME NEW i \in 1..Len(Q)
      PROVE  Covers(Q[i], off2[i], off2[i + 1])
  <2>1. CASE i = 1
    <3>1. Q[i] = r /\ off2[i] = d /\ off2[i + 1] = m
      BY <1>2, <1>4, <2>1
    <3> QED
      BY <3>1, Zenon
  <2>2. CASE i # 1
    <3>1. PICK j \in 1..Len(t) : i = j + 1
      BY <1>2, <2>2
    <3>2. Q[i] = t[j] /\ off2[i] = off[j] /\ off2[i + 1] = off[j + 1]
      BY <1>2, <3>1
    <3> QED
      BY <1>1, <3>2, Zenon
  <2> QED
    BY <2>1, <2>2
<1> HIDE DEF off2
<1>6. Laid(Q, d, e)
  BY <1>3, <1>4, <1>5, Zenon DEF Laid
<1> QED
  BY <1>6 DEF Q

LEMMA CoversBoth ==
  ASSUME NEW r \in Record, NEW s \in Record, NEW d \in Nat, NEW m \in Nat, NEW e \in Nat,
         r.type = "data", s.type = "data", Covers(r, d, m), Covers(s, m, e)
  PROVE  /\ Covers([type |-> "data", body |-> r.body \o s.body], d, e)
         /\ [type |-> "data", body |-> r.body \o s.body] \in Record /\ d <= e
<1> DEFINE x == r.body
           y == s.body
           b == x \o y
<1>1. /\ x \in Seq(Nat) /\ Len(x) \in Nat /\ m = d + Len(x)
      /\ \A j \in 1..Len(x) : x[j] = Data + d + j
  BY LenProperties DEF Record, Covers
<1>2. /\ y \in Seq(Nat) /\ Len(y) \in Nat /\ e = m + Len(y)
      /\ \A j \in 1..Len(y) : y[j] = Data + m + j
  BY LenProperties DEF Record, Covers
<1> HIDE DEF x, y
<1>3. /\ b \in Seq(Nat) /\ Len(b) = Len(x) + Len(y)
      /\ \A j \in 1..(Len(x) + Len(y)) : b[j] = IF j <= Len(x) THEN x[j] ELSE y[j - Len(x)]
  BY <1>1, <1>2, ConcatProperties
<1> HIDE DEF b
<1>4. ASSUME NEW j \in 1..Len(b)
      PROVE  b[j] = Data + d + j
  <2>1. CASE j <= Len(x)
    <3>1. j \in 1..Len(x) /\ j \in 1..(Len(x) + Len(y))
      BY <1>1, <1>2, <1>3, <2>1
    <3>2. b[j] = x[j]
      BY <1>3, <2>1, <3>1
    <3> QED
      BY <1>1, <3>1, <3>2
  <2>2. CASE j > Len(x)
    <3>1. j - Len(x) \in 1..Len(y)
      BY <1>1, <1>2, <1>3, <2>2
    <3>2. b[j] = y[j - Len(x)]
      BY <1>1, <1>2, <1>3, <2>2
    <3>3. y[j - Len(x)] = Data + m + (j - Len(x))
      BY <1>2, <3>1
    <3> QED
      BY <1>1, <3>2, <3>3 DEF Data
  <2> QED
    BY <1>1, <2>1, <2>2
<1>5. Covers([type |-> "data", body |-> b], d, e)
  <2>1. e = d + Len(b)
    BY <1>1, <1>2, <1>3
  <2> QED
    BY <1>4, <2>1 DEF Covers
<1>6. [type |-> "data", body |-> b] \in Record /\ d <= e
  BY <1>1, <1>2, <1>3 DEF Record, Kind
<1> QED
  BY <1>5, <1>6 DEF b, x, y

-----------------------------------------------------------------------------
(* One recvmsg.                                                            *)

LEMMA ToldType ==
  ASSUME NEW k \in Kind, NEW c \in Told(k)
  PROVE  IF k = "data" THEN record_type(c, FALSE) \in {"none", "data"} ELSE record_type(c, FALSE) = k
<1>1. CASE k = "data" /\ c = <<>>
  BY <1>1 DEF record_type
<1>2. CASE c = <<k>>
  <2>1. Len(c) = 1 /\ c[1] = k /\ c # <<>> /\ k # "bad"
    BY <1>2 DEF Kind
  <2> QED
    BY <2>1 DEF record_type
<1>3. CASE k = "data" /\ c = <<"data", "data">>
  <2>1. Len(c) = 2 /\ c[1] = "data" /\ c[2] = "data" /\ c # <<>>
    BY <1>3
  <2>2. \A i \in 1..Len(c) : c[i] # "bad"
    BY <2>1
  <2> QED
    BY <1>3, <2>1, <2>2 DEF record_type
<1> QED
  BY <1>1, <1>2, <1>3, Zenon DEF Told

LEMMA MalformedType ==
  ASSUME NEW k \in Kind, NEW c, NEW t \in BOOLEAN, t = TRUE \/ c \in Malformed(k)
  PROVE  record_type(c, t) = "Err"
<1>1. CASE t = TRUE
  BY <1>1 DEF record_type
<1>2. CASE c = <<"bad">>
  <2>1. Len(c) = 1 /\ c[1] = "bad"
    BY <1>2
  <2> QED
    BY <2>1 DEF record_type
<1>3. CASE c = <<k, "bad">>
  <2>1. Len(c) = 2 /\ c[2] = "bad"
    BY <1>3
  <2> QED
    BY <2>1 DEF record_type
<1>4. CASE c = <<k, "alert">>
  <2>1. Len(c) = 2 /\ c # <<>> /\ c # <<"data", "data">>
    BY <1>4
  <2> QED
    BY <2>1 DEF record_type
<1> QED
  BY <1>1, <1>2, <1>3, <1>4, Zenon DEF Malformed

\* What recvmsg's outcome o can be, for a record of kind k of which got was read.
Outcome(o, k, eor, got) ==
  \/ o.terminal \in Failed /\ o.out = o.terminal /\ o.alert \in Seq(Nat)
  \/ /\ o.terminal = "Closed" /\ o.out = "Eof" /\ o.alert \in Seq(Nat)
     /\ k = "alert" /\ eor = TRUE /\ IsClose(alert \o got)
  \/ /\ o.terminal = "none" /\ o.out = "Data" /\ o.alert = <<>>
     /\ k = "data" /\ alert = <<>>
  \/ /\ o.terminal = "none" /\ o.out = "More" /\ o.alert = <<>>
     /\ k = "data" /\ alert = <<>> /\ got = <<>>
  \/ /\ o.terminal = "none" /\ o.out = "More" /\ o.alert = alert \o got
     /\ k = "alert" /\ eor = FALSE /\ Len(alert \o got) = 1

LEMMA AlertOutcome ==
  ASSUME alert \in Seq(Nat), NEW eor \in BOOLEAN, NEW got \in Seq(Nat), got # <<>>
  PROVE  Outcome(consume_alert(eor, got), "alert", eor, got)
<1> DEFINE a == alert \o got
<1>1. a \in Seq(Nat) /\ Len(a) = Len(alert) + Len(got) /\ Len(alert) \in Nat /\ Len(got) \in Nat \ {0}
  BY ConcatProperties, LenProperties, EmptySeq
<1> HIDE DEF a
<1>2. CASE Len(a) > 2
  BY <1>2 DEF a, consume_alert, Outcome, Fail, Failed
<1>3. CASE Len(a) <= 2 /\ eor = FALSE /\ Len(a) = 2
  BY <1>1, <1>3 DEF a, consume_alert, Outcome, Fail, Failed
<1>4. CASE Len(a) <= 2 /\ eor = FALSE /\ Len(a) # 2
  <2>1. Len(a) = 1
    BY <1>1, <1>4
  <2>2. consume_alert(eor, got) = More(a)
    BY <1>4, <2>1 DEF a, consume_alert
  <2> QED
    BY <1>4, <2>1, <2>2 DEF a, Outcome, More
<1>5. CASE Len(a) <= 2 /\ eor = TRUE /\ IsClose(a)
  <2>1. consume_alert(eor, got) = [alert |-> a, terminal |-> "Closed", out |-> "Eof"]
    BY <1>1, <1>5 DEF a, consume_alert
  <2> QED
    BY <1>1, <1>5, <2>1 DEF a, Outcome
<1>6. CASE Len(a) <= 2 /\ eor = TRUE /\ ~IsClose(a)
  <2>1. consume_alert(eor, got) = Fail(a, "InvalidData")
    BY <1>1, <1>6 DEF a, consume_alert
  <2> QED
    BY <1>1, <2>1 DEF Outcome, Fail, Failed
<1>7. (Len(a) > 2 \/ Len(a) <= 2) /\ (eor = TRUE \/ eor = FALSE)
  BY <1>1
<1> QED
  BY <1>2, <1>3, <1>4, <1>5, <1>6, <1>7, Zenon

LEMMA ConsumeOutcome ==
  ASSUME alert \in Seq(Nat), NEW eor \in BOOLEAN, NEW got \in Seq(Nat), NEW k \in Kind, NEW type,
         IF k = "data" THEN type \in {"none", "data"} ELSE type = k
  PROVE  Outcome(consume(type, eor, got), k, eor, got)
<1>1. CASE got = <<>>
  <2>1. consume(type, eor, got) = consume_empty(type, eor)
    BY <1>1 DEF consume
  <2>2. CASE type = "data" /\ alert = <<>>
    <3>1. consume_empty(type, eor) = More(alert) /\ k = "data"
      BY <2>2 DEF consume_empty
    <3> QED
      BY <1>1, <2>1, <2>2, <3>1 DEF Outcome, More
  <2>3. CASE ~(type = "data" /\ alert = <<>>)
    <3>1. \E e \in Failed : consume_empty(type, eor) = Fail(alert, e)
      BY <2>3 DEF consume_empty, Failed
    <3> QED
      BY <2>1, <3>1 DEF Outcome, Fail
  <2> QED
    BY <2>2, <2>3
<1>2. CASE got # <<>>
  <2>1. (IF type = "none" THEN "data" ELSE type) = k
    BY DEF Kind
  <2>2. CASE alert # <<>> /\ k # "alert"
    BY <1>2, <2>1, <2>2 DEF consume, Outcome, Fail, Failed
  <2>3. CASE ~(alert # <<>> /\ k # "alert") /\ k = "data"
    <3>1. consume(type, eor, got) = [More(alert) EXCEPT !.out = "Data"] /\ alert = <<>>
      BY <1>2, <2>1, <2>3 DEF consume
    <3> QED
      BY <2>3, <3>1 DEF Outcome, More
  <2>4. CASE k = "alert"
    <3>1. consume(type, eor, got) = consume_alert(eor, got)
      BY <1>2, <2>1, <2>4 DEF consume
    <3> QED
      BY <1>2, <2>4, <3>1, AlertOutcome
  <2>5. CASE ~(alert # <<>> /\ k # "alert") /\ k \in {"handshake", "other"}
    <3>1. \E e \in Failed : consume(type, eor, got) = Fail(alert, e)
      BY <1>2, <2>1, <2>5 DEF consume, Failed
    <3> QED
      BY <3>1 DEF Outcome, Fail
  <2> QED
    BY <2>2, <2>3, <2>4, <2>5 DEF Kind
<1> QED
  BY <1>1, <1>2

\* A body is what fits and the rest.
LEMMA Split ==
  ASSUME NEW b \in Seq(Nat), NEW n \in 0..Len(b)
  PROVE  /\ SubSeq(b, 1, n) \in Seq(Nat) /\ SubSeq(b, n + 1, Len(b)) \in Seq(Nat)
         /\ b = SubSeq(b, 1, n) \o SubSeq(b, n + 1, Len(b))
<1> DEFINE x == SubSeq(b, 1, n)
           y == SubSeq(b, n + 1, Len(b))
           c == x \o y
           k == Len(b)
<1>1. k \in Nat /\ n \in Nat /\ n <= k
  BY LenProperties
<1>2. x \in Seq(Nat) /\ Len(x) = n /\ \A i \in 1..n : x[i] = b[i]
  BY <1>1
<1>3. y \in Seq(Nat) /\ Len(y) = k - n /\ \A i \in 1..(k - n) : y[i] = b[n + i]
  BY <1>1
<1> HIDE DEF x, y
<1>4. /\ c \in Seq(Nat) /\ Len(c) = Len(x) + Len(y)
      /\ \A i \in 1..(Len(x) + Len(y)) : c[i] = IF i <= Len(x) THEN x[i] ELSE y[i - Len(x)]
  BY <1>2, <1>3, ConcatProperties
<1> HIDE DEF c, k
<1>5. Len(c) = k
  BY <1>1, <1>2, <1>3, <1>4
<1>6. ASSUME NEW i \in 1..k
      PROVE  c[i] = b[i]
  <2>1. i \in 1..(Len(x) + Len(y))
    BY <1>4, <1>5
  <2>2. CASE i <= n
    <3>1. i \in 1..n
      BY <1>1, <2>2
    <3>2. c[i] = x[i]
      BY <1>2, <1>4, <2>1, <2>2
    <3> QED
      BY <1>2, <3>1, <3>2
  <2>3. CASE i > n
    <3>1. i - n \in 1..(k - n) /\ n + (i - n) = i
      BY <1>1, <2>3
    <3>2. c[i] = y[i - n]
      BY <1>1, <1>2, <1>4, <2>1, <2>3
    <3>3. y[i - n] = b[n + (i - n)]
      BY <1>3, <3>1
    <3> QED
      BY <3>1, <3>2, <3>3
  <2> QED
    BY <1>1, <2>2, <2>3
<1>7. c = b
  BY <1>4, <1>5, <1>6, SeqEqual, Zenon DEF k
<1> QED
  BY <1>2, <1>3, <1>7, Zenon DEF c, x, y, k

\* What recv_record does, whatever the ancillary data.
Received(o, got, rest) ==
  /\ kq[1].body = got \o rest /\ got \in Seq(Nat) /\ rest \in Seq(Nat)
  /\ Outcome(o, kq[1].type, rest = <<>> /\ kq[1].type # "data", got)
  /\ kq' = IF rest = <<>> THEN Tail(kq) ELSE <<[kq[1] EXCEPT !.body = rest]>> \o Tail(kq)
  /\ alert' = o.alert /\ terminal' = o.terminal
  /\ delivered' = IF o.out = "Data" THEN delivered \o got ELSE delivered
  /\ IF o.out = "More" THEN pc' = "try" /\ UNCHANGED <<cap, budget, woken, result>>
                       ELSE Return(o.out)
  /\ UNCHANGED <<sent, closeAt, armed>>

LEMMA ReceivedStep ==
  ASSUME IInv, kq # <<>>, NEW c, NEW t \in BOOLEAN, recv_record(c, t),
         \/ c \in Told(kq[1].type) /\ t = FALSE
         \/ c \in Malformed(kq[1].type) \/ t = TRUE
  PROVE  \E o, got, rest : Received(o, got, rest)
<1> DEFINE r    == kq[1]
           n    == IF Len(r.body) < cap THEN Len(r.body) ELSE cap
           got  == SubSeq(r.body, 1, n)
           rest == SubSeq(r.body, n + 1, Len(r.body))
           eor  == rest = <<>> /\ r.type # "data"
           type == record_type(c, t)
           o    == IF type = "Err" THEN Fail(alert, "InvalidData") ELSE consume(type, eor, got)
<1>1. kq[1] = Head(kq) /\ r \in Record /\ alert \in Seq(Nat) /\ cap \in Nat
  BY LenProperties, EmptySeq DEF IInv, Types
<1>2. r.body \in Seq(Nat) /\ Len(r.body) \in Nat /\ r.type \in Kind
  BY <1>1, LenProperties DEF Record
<1>3. n \in 0..Len(r.body)
  BY <1>1, <1>2
<1>4. got \in Seq(Nat) /\ rest \in Seq(Nat) /\ r.body = got \o rest
  <2> HIDE DEF n, r
  <2> QED
    BY <1>2, <1>3, Split, Zenon
<1>5. Outcome(o, r.type, eor, got)
  <2> HIDE DEF n, got, rest
  <2>1. CASE type = "Err"
    BY <1>1, <2>1 DEF Outcome, Fail, Failed
  <2>2. CASE type # "Err"
    <3>1. c \in Told(r.type) /\ t = FALSE
      BY <1>2, <2>2, MalformedType, Zenon
    <3>2. IF r.type = "data" THEN type \in {"none", "data"} ELSE type = r.type
      BY <1>2, <3>1, ToldType, Zenon
    <3>3. Outcome(consume(type, eor, got), r.type, eor, got)
      <4> HIDE DEF type
      <4> QED
        BY <1>1, <1>2, <1>4, <3>2, ConsumeOutcome, Zenon
    <3> QED
      BY <2>2, <3>3, Zenon
  <2> QED
    BY <2>1, <2>2
<1>6. /\ kq' = IF rest = <<>> THEN Tail(kq) ELSE <<[r EXCEPT !.body = rest]>> \o Tail(kq)
      /\ alert' = o.alert /\ terminal' = o.terminal
      /\ delivered' = IF o.out = "Data" THEN delivered \o got ELSE delivered
      /\ IF o.out = "More" THEN pc' = "try" /\ UNCHANGED <<cap, budget, woken, result>>
                           ELSE Return(o.out)
      /\ UNCHANGED <<sent, closeAt, armed>>
  BY <1>1, Zenon DEF recv_record, tokioVars
<1> HIDE DEF n, got, rest, o
<1>7. Received(o, got, rest)
  BY <1>4, <1>5, <1>6, Zenon DEF Received
<1> QED
  BY <1>7

LEMMA Pop ==
  ASSUME NEW q \in Seq(Record), q # <<>>
  PROVE  /\ Len(q) \in Nat \ {0} /\ q[1] \in Record /\ Tail(q) \in Seq(Record)
         /\ Len(Tail(q)) = Len(q) - 1 /\ \A i \in 1..(Len(q) - 1) : Tail(q)[i] = q[i + 1]
BY EmptySeq, HeadTailProperties

LEMMA Push ==
  ASSUME NEW q \in Seq(Record), NEW r \in Record
  PROVE  /\ Len(q) \in Nat /\ <<r>> \o q \in Seq(Record) /\ Len(<<r>> \o q) = Len(q) + 1
         /\ (<<r>> \o q)[1] = r /\ \A i \in 1..Len(q) : (<<r>> \o q)[i + 1] = q[i]
BY LenProperties

LEMMA CloseTail ==
  ASSUME NEW q \in Seq(Record), NEW a \in Seq(Nat), NEW c, q # <<>>, Close(q, a, c)
  PROVE  Close(Tail(q), <<>>, c)
<1> SUFFICES ASSUME NEW i \in 1..Len(Tail(q)), Tail(q)[i].type = "alert",
                    IsClose(Whole(Tail(q), <<>>, i))
    PROVE  i = Len(Tail(q)) /\ c # -1
  BY DEF Close
<1>1. /\ Len(q) \in Nat \ {0} /\ Len(Tail(q)) = Len(q) - 1 /\ i + 1 \in 1..Len(q) /\ i + 1 # 1
      /\ Tail(q)[i] = q[i + 1] /\ q[i + 1] \in Record
  BY Pop
<1>2. Whole(Tail(q), <<>>, i) = Tail(q)[i].body
  <2>1. Tail(q)[i].body \in Seq(Nat)
    BY <1>1 DEF Record
  <2>2. <<>> \o Tail(q)[i].body = Tail(q)[i].body
    BY <2>1, ConcatEmptySeq
  <2> QED
    BY <2>2, Zenon DEF Whole
<1>3. Whole(q, a, i + 1) = q[i + 1].body
  BY <1>1, Zenon DEF Whole
<1>4. i + 1 = Len(q) /\ c # -1
  BY <1>1, <1>2, <1>3, Zenon DEF Close
<1>5. i = Len(q) - 1
  <2>1. i \in Int
    OBVIOUS
  <2>2. (i + 1) - 1 = i
    BY <2>1
  <2> QED
    BY <1>4, <2>2, Zenon
<1> QED
  BY <1>1, <1>4, <1>5, Zenon

LEMMA CloseHead ==
  ASSUME NEW q \in Seq(Record), NEW r \in Record, NEW a \in Seq(Nat), NEW a2 \in Seq(Nat), NEW c,
         q # <<>>, Close(q, a, c),
         r.type = "alert" => q[1].type = "alert" /\ a2 \o r.body = a \o q[1].body
  PROVE  Close(<<r>> \o Tail(q), a2, c)
<1> DEFINE Q == <<r>> \o Tail(q)
<1>1. /\ Len(q) \in Nat \ {0} /\ Len(Q) = Len(q) /\ Q[1] = r
      /\ \A i \in 2..Len(q) : Q[i] = q[i]
  <2>1. /\ Len(q) \in Nat \ {0} /\ Tail(q) \in Seq(Record) /\ Len(Tail(q)) = Len(q) - 1
        /\ \A i \in 1..(Len(q) - 1) : Tail(q)[i] = q[i + 1]
    BY Pop
  <2>2. Len(Q) = Len(Tail(q)) + 1 /\ Q[1] = r /\ \A i \in 1..Len(Tail(q)) : Q[i + 1] = Tail(q)[i]
    BY <2>1, Push
  <2> HIDE DEF Q
  <2>3. ASSUME NEW i \in 2..Len(q)
        PROVE  Q[i] = q[i]
    <3>1. i - 1 \in 1..(Len(q) - 1) /\ (i - 1) + 1 = i
      BY <2>1
    <3>2. Q[(i - 1) + 1] = Tail(q)[i - 1] /\ Tail(q)[i - 1] = q[(i - 1) + 1]
      BY <2>1, <2>2, <3>1, Zenon
    <3> QED
      BY <3>1, <3>2
  <2> QED
    BY <2>1, <2>2, <2>3
<1> HIDE DEF Q
<1>2. Close(Q, a2, c)
  <2> SUFFICES ASSUME NEW i \in 1..Len(Q), Q[i].type = "alert", IsClose(Whole(Q, a2, i))
      PROVE  i = Len(Q) /\ c # -1
    BY DEF Close
  <2>1. CASE i = 1
    <3>1. 1 \in 1..Len(q) /\ q[1].type = "alert" /\ Whole(Q, a2, i) = Whole(q, a, 1)
      BY <1>1, <2>1, Zenon DEF Whole
    <3>2. 1 = Len(q) /\ c # -1
      BY <3>1, Zenon DEF Close
    <3> QED
      BY <1>1, <2>1, <3>2
  <2>2. CASE i # 1
    <3>1. i \in 2..Len(q) /\ i \in 1..Len(q) /\ Q[i] = q[i]
      BY <1>1, <2>2
    <3>2. Whole(Q, a2, i) = Whole(q, a, i)
      BY <2>2, <3>1, Zenon DEF Whole
    <3> QED
      BY <1>1, <3>1, <3>2, Zenon DEF Close
  <2> QED
    BY <2>1, <2>2
<1> QED
  BY <1>2 DEF Q

\* Where the reader stands when recvmsg has a record for it.
LEMMA AtRecv ==
  ASSUME IInv, pc = "recv", kq # <<>>
  PROVE  /\ terminal = "none" /\ Laid(kq, Len(delivered), sent) /\ Close(kq, alert, closeAt)
         /\ kq \in Seq(Record) /\ kq[1] \in Record /\ Tail(kq) \in Seq(Record)
         /\ alert \in Seq(Nat) /\ delivered \in Seq(Nat) /\ Len(delivered) \in Nat /\ sent \in Nat
<1>1. terminal = "none"
  BY DEF IInv, Control, Step
<1>2. kq \in Seq(Record) /\ alert \in Seq(Nat) /\ delivered \in Seq(Nat) /\ sent \in Nat
  BY DEF IInv, Types
<1> QED
  BY <1>1, <1>2, Pop, LenProperties DEF IInv, Stream

\* Data, or an empty data record, is taken.
LEMMA DataStream ==
  ASSUME IInv, pc = "recv", kq # <<>>, NEW o, NEW got, NEW rest, Received(o, got, rest),
         terminal' = "none", alert' = <<>>, alert = <<>>, kq[1].type = "data", delivered' = delivered \o got
  PROVE  Stream' /\ InOrder' /\ delivered' \in Seq(Nat) /\ kq' \in Seq(Record)
<1> DEFINE d == Len(delivered)
           r == kq[1]
           m == d + Len(r.body)
           rr == [r EXCEPT !.body = rest]
<1>1. /\ Laid(kq, d, sent) /\ Close(kq, alert, closeAt)
      /\ kq \in Seq(Record) /\ r \in Record /\ Tail(kq) \in Seq(Record)
      /\ alert \in Seq(Nat) /\ delivered \in Seq(Nat) /\ d \in Nat /\ sent \in Nat
  BY AtRecv
<1>2. /\ r.body = got \o rest /\ got \in Seq(Nat) /\ rest \in Seq(Nat)
      /\ kq' = IF rest = <<>> THEN Tail(kq) ELSE <<rr>> \o Tail(kq)
      /\ UNCHANGED <<sent, closeAt>>
  BY DEF Received
<1>3. m \in Nat /\ Len(got) \in Nat /\ r.type = "data" /\ rr \in Record /\ rr.type = "data" /\ rr.body = rest
  <2>1. r.body \in Seq(Nat) /\ r.type \in Kind
    BY <1>1 DEF Record
  <2>2. Len(r.body) \in Nat /\ Len(got) \in Nat
    BY <1>2, <2>1, LenProperties
  <2>3. rr \in Record /\ rr.type = "data" /\ rr.body = rest
    BY <1>1, <1>2, Zenon DEF Record
  <2> QED
    BY <1>1, <2>2, <2>3
<1>4. Laid(Tail(kq), m, sent) /\ m <= sent /\ Covers(r, d, m)
  <2>1. \A n \in Nat : Covers(kq[1], d, n) => n = m
    BY DEF Covers
  <2> HIDE DEF m, d
  <2> QED
    BY <1>1, <1>3, <2>1, LaidTail
<1> HIDE DEF m, d, r, rr
<1>5. /\ Covers(rr, d + Len(got), m) /\ d + Len(got) <= m /\ (rest = <<>> => m = d + Len(got))
      /\ \A j \in 1..Len(got) : got[j] = Data + d + j
  <2> DEFINE b == r.body
             p == Len(got)
             k == Len(rest)
  <2>1. p \in Nat /\ k \in Nat /\ (rest = <<>> => k = 0)
    BY <1>2, LenProperties
  <2>2. /\ Len(b) = p + k
        /\ \A i \in 1..p : b[i] = got[i]
        /\ \A i \in 1..k : b[p + i] = rest[i]
    BY <1>2, <2>1, ConcatProperties
  <2>3. m = d + Len(b) /\ \A j \in 1..Len(b) : b[j] = Data + d + j
    BY <1>3, <1>4 DEF Covers
  <2> HIDE DEF b, p, k
  <2>4. m = (d + p) + k /\ d + p <= m
    <3>1. m = d + (p + k)
      BY <2>2, <2>3
    <3> QED
      BY <1>1, <2>1, <3>1
  <2>5. ASSUME NEW j \in 1..p
        PROVE  got[j] = Data + d + j
    <3>1. j \in 1..(p + k)
      BY <2>1
    <3> QED
      BY <2>2, <2>3, <3>1, Zenon
  <2>6. ASSUME NEW j \in 1..k
        PROVE  rest[j] = Data + (d + p) + j
    <3>1. p + j \in 1..(p + k)
      BY <2>1
    <3>2. rest[j] = Data + d + (p + j)
      BY <2>2, <2>3, <3>1, Zenon
    <3> QED
      BY <1>1, <2>1, <3>2 DEF Data
  <2>7. Covers(rr, d + p, m)
    BY <1>3, <2>4, <2>6 DEF Covers, k
  <2>8. rest = <<>> => m = d + p
    BY <1>1, <2>1, <2>4
  <2> QED
    BY <2>4, <2>5, <2>7, <2>8, Zenon DEF p
<1>6. delivered' \in Seq(Nat) /\ Len(delivered') = d + Len(got)
  BY <1>1, <1>2, ConcatProperties DEF d
<1>7. Laid(kq', Len(delivered'), sent) /\ kq' \in Seq(Record)
  <2>1. CASE rest = <<>>
    BY <1>1, <1>2, <1>4, <1>5, <1>6, <2>1, Zenon
  <2>2. CASE rest # <<>>
    <3>1. d + Len(got) \in Nat
      BY <1>1, <1>3
    <3>2. Laid(<<rr>> \o Tail(kq), d + Len(got), sent)
      BY <1>1, <1>3, <1>4, <1>5, <3>1, LaidCons, Zenon
    <3>3. <<rr>> \o Tail(kq) \in Seq(Record)
      BY <1>1, <1>3, Push
    <3> QED
      BY <1>2, <1>6, <2>2, <3>2, <3>3, Zenon
  <2> QED
    BY <2>1, <2>2
<1>8. Close(kq', alert', closeAt)
  <2>1. CASE rest = <<>>
    <3>1. Close(Tail(kq), <<>>, closeAt)
      BY <1>1, CloseTail, Zenon
    <3> QED
      BY <1>2, <2>1, <3>1, Zenon
  <2>2. CASE rest # <<>>
    <3>1. <<>> \in Seq(Nat) /\ rr.type # "alert"
      BY <1>3
    <3>2. Close(<<rr>> \o Tail(kq), <<>>, closeAt)
      BY <1>1, <1>3, <3>1, CloseHead, Zenon
    <3> QED
      BY <1>2, <2>2, <3>2, Zenon
  <2> QED
    BY <2>1, <2>2
<1>9. Stream'
  <2>1. Len(delivered') <= sent /\ (closeAt # -1 => closeAt = sent)
    BY <1>1, <1>3, <1>4, <1>5, <1>6 DEF IInv, Stream
  <2>2. sent' = sent /\ closeAt' = closeAt
    BY <1>2
  <2> QED
    BY <1>7, <1>8, <2>1, <2>2 DEF Stream
<1>10. InOrder'
  <2> SUFFICES ASSUME NEW i \in 1..Len(delivered')
      PROVE  delivered'[i] = Data + i
    BY DEF InOrder
  <2>1. CASE i <= d
    <3>1. i \in 1..d /\ delivered'[i] = delivered[i]
      BY <1>1, <1>2, <1>3, <1>6, <2>1, ConcatProperties DEF d
    <3> QED
      BY <3>1 DEF IInv, InOrder, d
  <2>2. CASE i > d
    <3>1. i - d \in 1..Len(got) /\ delivered'[i] = got[i - d]
      BY <1>1, <1>2, <1>3, <1>6, <2>2, ConcatProperties DEF d
    <3>2. got[i - d] = Data + d + (i - d)
      BY <1>5, <3>1
    <3> QED
      BY <1>1, <3>1, <3>2 DEF Data
  <2> QED
    BY <1>1, <1>3, <1>6, <2>1, <2>2
<1> QED
  BY <1>6, <1>7, <1>9, <1>10

LEMMA Associative ==
  ASSUME NEW a \in Seq(Nat), NEW b \in Seq(Nat), NEW c \in Seq(Nat)
  PROVE  (a \o b) \o c = a \o (b \o c)
BY ConcatAssociative, SMTT(30)

\* The first byte of an alert is taken and held.
LEMMA HeldStream ==
  ASSUME IInv, pc = "recv", kq # <<>>, NEW o, NEW got, NEW rest, Received(o, got, rest),
         terminal' = "none", alert' = alert \o got, kq[1].type = "alert", rest # <<>>,
         Len(alert \o got) = 1, delivered' = delivered
  PROVE  Stream' /\ PartialAlertMatches' /\ kq' \in Seq(Record) /\ alert' \in Seq(Nat)
<1> DEFINE r == kq[1]
           rr == [r EXCEPT !.body = rest]
           d == Len(delivered)
<1>1. /\ Laid(kq, d, sent) /\ Close(kq, alert, closeAt)
      /\ kq \in Seq(Record) /\ r \in Record /\ Tail(kq) \in Seq(Record)
      /\ alert \in Seq(Nat) /\ delivered \in Seq(Nat) /\ d \in Nat /\ sent \in Nat
  BY AtRecv
<1>2. /\ r.body = got \o rest /\ got \in Seq(Nat) /\ rest \in Seq(Nat)
      /\ kq' = <<rr>> \o Tail(kq) /\ UNCHANGED <<sent, closeAt>>
  BY DEF Received
<1>3. rr \in Record /\ rr.type = "alert" /\ rr.body = rest
  BY <1>1, <1>2, Zenon DEF Record
<1>4. Laid(Tail(kq), d, sent) /\ d <= sent
  <2>1. \A n \in Nat : Covers(kq[1], d, n) => n = d
    BY DEF Covers
  <2> HIDE DEF d
  <2> QED
    BY <1>1, <2>1, LaidTail
<1> HIDE DEF d, rr
<1>5. Laid(kq', d, sent) /\ kq' \in Seq(Record) /\ kq' # <<>> /\ Head(kq') = rr
  <2>1. Covers(rr, d, d) /\ d <= d
    BY <1>1, <1>3 DEF Covers
  <2>2. Laid(<<rr>> \o Tail(kq), d, sent)
    BY <1>1, <1>3, <1>4, <2>1, LaidCons, Zenon
  <2>3. /\ <<rr>> \o Tail(kq) \in Seq(Record) /\ Len(<<rr>> \o Tail(kq)) > 0
        /\ (<<rr>> \o Tail(kq))[1] = rr
    BY <1>1, <1>3, Push
  <2> QED
    BY <1>2, <2>2, <2>3
<1>6. alert' \in Seq(Nat)
  BY <1>1, <1>2, ConcatProperties
<1>7. Close(kq', alert', closeAt)
  <2>1. (alert \o got) \o rest = alert \o r.body
    <3>1. (alert \o got) \o rest = alert \o (got \o rest)
      BY <1>1, <1>2, Associative, Zenon
    <3> QED
      BY <1>2, <3>1
  <2>2. alert' \o rr.body = alert \o kq[1].body
    BY <1>3, <2>1
  <2> HIDE DEF r
  <2>3. Close(<<rr>> \o Tail(kq), alert', closeAt)
    <3> DEFINE a2 == alert'
    <3>1. a2 \in Seq(Nat) /\ a2 \o rr.body = alert \o kq[1].body
      BY <1>6, <2>2
    <3> HIDE DEF a2
    <3>2. Close(<<rr>> \o Tail(kq), a2, closeAt)
      BY <1>1, <1>3, <3>1, CloseHead, Zenon
    <3> QED
      BY <3>2 DEF a2
  <2> QED
    BY <1>2, <2>3
<1>8. Stream'
  BY <1>2, <1>4, <1>5, <1>7 DEF IInv, Stream, d
<1>9. PartialAlertMatches'
  BY <1>3, <1>5 DEF PartialAlertMatches
<1> QED
  BY <1>5, <1>6, <1>8, <1>9

\* The rest of a close_notify is taken.
LEMMA ClosedStream ==
  ASSUME IInv, pc = "recv", kq # <<>>, NEW got, kq[1].type = "alert", kq[1].body = got,
         IsClose(alert \o got), UNCHANGED <<delivered, sent, closeAt>>, terminal' = "Closed"
  PROVE  Stream'
<1>1. /\ Laid(kq, Len(delivered), sent) /\ Close(kq, alert, closeAt)
      /\ kq \in Seq(Record) /\ Len(delivered) \in Nat /\ sent \in Nat
  BY AtRecv
<1>2. 1 \in 1..Len(kq) /\ Len(kq) \in Nat
  BY <1>1, Pop
<1>3. 1 = Len(kq) /\ closeAt # -1
  <2>1. Whole(kq, alert, 1) = alert \o got
    BY DEF Whole
  <2> QED
    BY <1>1, <1>2, <2>1, Zenon DEF Close
<1>4. PICK off \in [1..(Len(kq) + 1) -> 0..sent] :
        /\ off[1] = Len(delivered) /\ off[Len(kq) + 1] = sent
        /\ \A i \in 1..Len(kq) : Covers(kq[i], off[i], off[i + 1])
  BY <1>1 DEF Laid
<1>5. Covers(kq[1], off[1], off[1 + 1])
  BY <1>2, <1>4, Zenon
<1>6. off[1 + 1] = off[1]
  BY <1>5 DEF Covers
<1>7. off[1 + 1] = sent
  BY <1>3, <1>4, Zenon
<1>8. Len(delivered) = sent
  BY <1>4, <1>6, <1>7
<1> QED
  BY <1>1, <1>3, <1>8 DEF IInv, Stream

\* A poll that ended leaves nobody to wake.
LEMMA Returned ==
  ASSUME NEW r, Return(r), r = "Eof" => terminal' = "Closed"
  PROVE  Control' /\ ParkedIsArmed' /\ pc' = "idle" /\ cap' = 0 /\ woken' = FALSE
BY DEF Return, Control, ParkedIsArmed, Step

LEMMA RecvInv ==
  ASSUME IInv, pc = "recv", kq # <<>>, NEW o, NEW got, NEW rest, Received(o, got, rest)
  PROVE  IInv'
<1>1. /\ kq \in Seq(Record) /\ kq[1] \in Record /\ Tail(kq) \in Seq(Record)
      /\ alert \in Seq(Nat) /\ delivered \in Seq(Nat) /\ terminal = "none" /\ sent \in Nat
  BY AtRecv
<1>2. /\ kq[1].body = got \o rest /\ got \in Seq(Nat) /\ rest \in Seq(Nat)
      /\ UNCHANGED <<sent, closeAt, armed>>
  BY DEF Received
<1>3. kq' \in Seq(Record)
  <2>1. [kq[1] EXCEPT !.body = rest] \in Record
    BY <1>1, <1>2, Zenon DEF Record
  <2> QED
    BY <1>1, <2>1, Push DEF Received
<1>4. ASSUME alert' \in Seq(Nat), terminal' \in {"none", "Closed"} \cup Failed,
             delivered' \in Seq(Nat), pc' \in {"idle", "try"}, cap' \in Nat, woken' \in BOOLEAN
      PROVE  Types'
  BY <1>2, <1>3, <1>4 DEF IInv, Types, Step
<1>5. ASSUME Return(o.out), o.out # "More", alert' \in Seq(Nat), UNCHANGED delivered,
             terminal' \in Failed \cup {"Closed"}, o.out = "Eof" => terminal' = "Closed", Stream'
      PROVE  IInv'
  <2>1. Control' /\ ParkedIsArmed' /\ pc' = "idle" /\ cap' = 0 /\ woken' = FALSE
    BY <1>5, Returned, Zenon
  <2>2. Types'
    BY <1>1, <1>4, <1>5, <2>1, Zenon
  <2>3. InOrder'
    BY <1>5 DEF IInv, InOrder
  <2>4. PartialAlertMatches'
    BY <1>5 DEF PartialAlertMatches, Failed
  <2> QED
    BY <1>5, <2>1, <2>2, <2>3, <2>4 DEF IInv
<1>6. CASE o.terminal \in Failed /\ o.out = o.terminal /\ o.alert \in Seq(Nat)
  <2>1. /\ terminal' \in Failed /\ o.out \notin {"More", "Data", "Eof"} /\ alert' \in Seq(Nat)
        /\ Return(o.out) /\ UNCHANGED delivered
    BY <1>6 DEF Received, Failed
  <2>2. Stream'
    BY <1>2, <2>1 DEF IInv, Stream, Failed
  <2> QED
    BY <1>5, <2>1, <2>2
<1>7. CASE /\ o.terminal = "Closed" /\ o.out = "Eof" /\ o.alert \in Seq(Nat)
           /\ kq[1].type = "alert" /\ rest = <<>> /\ IsClose(alert \o got)
  <2>1. /\ terminal' = "Closed" /\ o.out # "More" /\ alert' \in Seq(Nat)
        /\ Return(o.out) /\ UNCHANGED delivered
    BY <1>7 DEF Received
  <2>2. kq[1].body = got
    BY <1>2, <1>7, ConcatEmptySeq
  <2>3. Stream'
    BY <1>2, <1>7, <2>1, <2>2, ClosedStream
  <2> QED
    BY <1>5, <2>1, <2>3
<1>8. CASE /\ o.terminal = "none" /\ o.alert = <<>> /\ kq[1].type = "data" /\ alert = <<>>
           /\ o.out = "Data" \/ (o.out = "More" /\ got = <<>>)
  <2>1. delivered' = delivered \o got
    <3>1. delivered \o <<>> = delivered
      BY <1>1, ConcatEmptySeq
    <3> QED
      BY <1>8, <3>1, Zenon DEF Received
  <2>2. alert' = <<>> /\ terminal' = "none"
    BY <1>8 DEF Received
  <2>3. Stream' /\ InOrder' /\ delivered' \in Seq(Nat)
    BY <1>8, <2>1, <2>2, DataStream
  <2>4. PartialAlertMatches'
    BY <2>2 DEF PartialAlertMatches
  <2>5. Control' /\ ParkedIsArmed' /\ pc' \in {"idle", "try"} /\ cap' \in Nat /\ woken' \in BOOLEAN
    <3>1. CASE Return(o.out) /\ o.out = "Data"
      <4>1. Control' /\ ParkedIsArmed' /\ pc' = "idle" /\ cap' = 0 /\ woken' = FALSE
        BY <3>1, Returned, Zenon
      <4> QED
        BY <4>1, Zenon
    <3>2. CASE pc' = "try" /\ UNCHANGED <<cap, budget, woken, result>>
      BY <1>1, <2>2, <3>2 DEF IInv, Types, Control, ParkedIsArmed, Step
    <3> QED
      BY <1>8, <3>1, <3>2 DEF Received
  <2>6. Types'
    <3>1. alert' \in Seq(Nat)
      BY <2>2
    <3> QED
      BY <1>4, <2>2, <2>3, <2>5, <3>1
  <2> QED
    BY <2>3, <2>4, <2>5, <2>6 DEF IInv
<1>9. CASE /\ o.terminal = "none" /\ o.out = "More" /\ o.alert = alert \o got
           /\ kq[1].type = "alert" /\ rest # <<>> /\ Len(alert \o got) = 1
  <2>1. /\ alert' = alert \o got /\ terminal' = "none" /\ delivered' = delivered
        /\ pc' = "try" /\ UNCHANGED <<cap, budget, woken, result>>
    BY <1>9 DEF Received
  <2>2. Stream' /\ PartialAlertMatches' /\ alert' \in Seq(Nat)
    BY <1>9, <2>1, HeldStream
  <2>3. Control' /\ ParkedIsArmed' /\ InOrder'
    BY <1>1, <2>1 DEF IInv, Types, Control, ParkedIsArmed, Step, InOrder
  <2>4. Types'
    BY <1>1, <1>4, <2>1, <2>2 DEF IInv, Types
  <2> QED
    BY <2>2, <2>3, <2>4 DEF IInv
<1> QED
  BY <1>6, <1>7, <1>8, <1>9, Zenon DEF Received, Outcome

-----------------------------------------------------------------------------
(* The steps that leave the queue alone.                                   *)

\* Nothing the invariant says about the stream changes.
SameStream == UNCHANGED <<alert, terminal, kq, delivered, sent, closeAt>>

LEMMA SameStreamInv ==
  ASSUME IInv, SameStream
  PROVE  Stream' /\ InOrder' /\ PartialAlertMatches'
BY DEF SameStream, IInv, Stream, InOrder, PartialAlertMatches

LEMMA ReturnInv ==
  ASSUME IInv, SameStream, NEW r, Return(r), r = "Eof" => terminal = "Closed", UNCHANGED armed
  PROVE  IInv'
<1>1. Stream' /\ InOrder' /\ PartialAlertMatches'
  BY SameStreamInv
<1>2. Control' /\ ParkedIsArmed' /\ pc' = "idle" /\ cap' = 0 /\ woken' = FALSE
  BY Returned, Zenon DEF SameStream
<1>3. Types'
  BY <1>2, Zenon DEF IInv, Types, SameStream
<1> QED
  BY <1>1, <1>2, <1>3 DEF IInv

\* The poll moves on to step; it parks only with a waker or awake.
LEMMA MoveInv ==
  ASSUME IInv, SameStream, NEW step \in Step \cup {"waiting"}, pc' = step, UNCHANGED <<cap, result>>,
         step \in Step => terminal = "none" /\ cap > 0,
         step = "waiting" => woken' \/ armed'["read"],
         woken' \in BOOLEAN, armed' \in [Dir -> BOOLEAN]
  PROVE  IInv'
<1>1. Stream' /\ InOrder' /\ PartialAlertMatches'
  BY SameStreamInv
<1>2. Types'
  BY DEF IInv, Types, SameStream
<1>3. Control' /\ ParkedIsArmed'
  BY DEF IInv, Control, ParkedIsArmed, SameStream, Step
<1> QED
  BY <1>1, <1>2, <1>3 DEF IInv

\* The reader fails: nothing more will be delivered.
LEMMA FailInv ==
  ASSUME IInv, NEW e \in Failed, terminal' = e, Return(e), alert' = alert,
         UNCHANGED <<kq, delivered, sent, closeAt, armed>>
  PROVE  IInv'
<1>1. Control' /\ ParkedIsArmed' /\ pc' = "idle" /\ cap' = 0 /\ woken' = FALSE
  BY Returned, Zenon DEF Failed
<1>2. Types'
  BY <1>1, Zenon DEF IInv, Types
<1>3. Stream' /\ InOrder' /\ PartialAlertMatches'
  BY DEF IInv, Stream, InOrder, PartialAlertMatches, Failed
<1> QED
  BY <1>1, <1>2, <1>3 DEF IInv

LEMMA CallInv ==
  ASSUME IInv, NEW n \in Nat, Call(n)
  PROVE  IInv'
<1> USE DEF Call, readerVars, peerVars, tokioVars
<1>1. Stream' /\ InOrder' /\ PartialAlertMatches'
  BY SameStreamInv DEF SameStream
<1>2. Types'
  BY DEF IInv, Types
<1>3. Control' /\ ParkedIsArmed'
  BY DEF Control, ParkedIsArmed, Step
<1> QED
  BY <1>1, <1>2, <1>3 DEF IInv

LEMMA PollInv == IInv /\ (Cancel \/ Poll) => IInv'
<1> SUFFICES ASSUME IInv, Cancel \/ Poll
    PROVE  IInv'
  OBVIOUS
<1>1. SameStream /\ UNCHANGED armed /\ armed \in [Dir -> BOOLEAN]
  BY DEF Cancel, Poll, SameStream, readerVars, peerVars, tokioVars, IInv, Types
<1>2. CASE \/ Return("none") \/ Return("Empty")
           \/ terminal # "none" /\ Return(finished)
  <2>1. finished = "Eof" => terminal = "Closed"
    BY DEF finished, IInv, Types, Failed
  <2> QED
    BY <1>1, <1>2, <2>1, ReturnInv
<1>3. CASE cap > 0 /\ terminal = "none" /\ pc' = "try" /\ woken' = FALSE /\ UNCHANGED <<cap, result>>
  <2>1. "try" \in Step /\ woken' \in BOOLEAN /\ armed' \in [Dir -> BOOLEAN]
    BY <1>1, <1>3, Zenon DEF Step
  <2> QED
    BY <1>1, <1>3, <2>1, MoveInv
<1> QED
  BY <1>2, <1>3, Zenon DEF Cancel, Poll, is_finished

\* At a step of the poll the reader is open and has room.
LEMMA AtStep ==
  ASSUME IInv, pc \in Step
  PROVE  terminal = "none" /\ cap > 0 /\ woken \in BOOLEAN /\ armed \in [Dir -> BOOLEAN]
BY DEF IInv, Types, Control, Step

LEMMA StepsInv == IInv /\ (budget_end \/ try_io \/ recv_interrupted \/ recv_would_block \/ clear_ready) => IInv'
<1> SUFFICES ASSUME IInv, budget_end \/ try_io \/ recv_interrupted \/ recv_would_block \/ clear_ready
    PROVE  IInv'
  OBVIOUS
<1> USE DEF budget_end, try_io, recv_interrupted, recv_would_block, clear_ready
<1>1. pc \in Step /\ SameStream /\ UNCHANGED <<armed, cap, result>>
  BY DEF SameStream, readerVars, peerVars, tokioVars, Look, Clear, Step
<1>2. terminal = "none" /\ cap > 0 /\ woken \in BOOLEAN /\ armed \in [Dir -> BOOLEAN]
  BY <1>1, AtStep
<1>3. \/ pc' \in Step /\ woken' = woken
      \/ pc' = "waiting" /\ woken' = TRUE
  BY DEF Step, woken_at_budget_end
<1>4. woken' \in BOOLEAN /\ armed' \in [Dir -> BOOLEAN] /\ pc' \in Step \cup {"waiting"}
  BY <1>1, <1>2, <1>3, Zenon
<1>5. pc' = "waiting" => woken' = TRUE
  BY <1>3 DEF Step
<1> QED
  BY <1>1, <1>2, <1>4, <1>5, MoveInv

LEMMA ReadyInv == IInv /\ poll_read_ready => IInv'
<1> SUFFICES ASSUME IInv, poll_read_ready
    PROVE  IInv'
  OBVIOUS
<1>1. pc \in Step /\ UNCHANGED <<alert, kq, delivered, sent, closeAt>>
  BY DEF poll_read_ready, peerVars, Step
<1>2. terminal = "none" /\ cap > 0 /\ woken \in BOOLEAN /\ armed \in [Dir -> BOOLEAN]
  BY <1>1, AtStep
<1>3. CASE terminal' = "Other" /\ Return("Other") /\ UNCHANGED armed
  BY <1>1, <1>3, FailInv DEF Failed
<1>4. CASE pc' = "try" /\ UNCHANGED <<terminal, cap, woken, result, armed>>
  BY <1>1, <1>2, <1>4, MoveInv DEF SameStream, Step
<1>5. CASE pc' = "waiting" /\ Arm("read") /\ UNCHANGED <<terminal, cap, woken, result>>
  <2>1. armed' \in [Dir -> BOOLEAN] /\ armed'["read"]
    BY <1>2, <1>5, ConstantsAssumption DEF Arm
  <2> QED
    BY <1>1, <1>2, <1>5, <2>1, MoveInv DEF SameStream, Step
<1> QED
  BY <1>3, <1>4, <1>5 DEF poll_read_ready, tokioVars

\* recvmsg without a record: an errno, or the peer's bare FIN.
LEMMA NoRecordInv == IInv /\ (recv_failed("Os") \/ recv_fin) => IInv'
<1> SUFFICES ASSUME IInv, recv_failed("Os") \/ recv_fin
    PROVE  IInv'
  OBVIOUS
<1>1. CASE recv_failed("Os")
  BY <1>1, FailInv DEF recv_failed, peerVars, tokioVars, Failed
<1>2. CASE recv_fin
  <2>1. consume("none", FALSE, <<>>) = Fail(alert, "UnexpectedEof")
    BY DEF consume, consume_empty
  <2>2. /\ alert' = alert /\ terminal' = "UnexpectedEof" /\ Return("UnexpectedEof")
        /\ UNCHANGED <<kq, delivered, sent, closeAt, armed>>
    <3> DEFINE o == consume("none", FALSE, <<>>)
    <3>1. /\ alert' = o.alert /\ terminal' = o.terminal
          /\ o.out # "More" => Return(o.out)
      BY <1>2, Zenon DEF recv_fin
    <3>2. o = [alert |-> alert, terminal |-> "UnexpectedEof", out |-> "UnexpectedEof"]
      BY <2>1, Zenon DEF Fail
    <3> HIDE DEF o
    <3>3. o.alert = alert /\ o.terminal = "UnexpectedEof" /\ o.out = "UnexpectedEof"
      BY <3>2
    <3> QED
      BY <1>2, <3>1, <3>3, Zenon DEF recv_fin, peerVars, tokioVars
  <2> QED
    BY <2>2, FailInv DEF Failed
<1> QED
  BY <1>1, <1>2

LEMMA RecvmsgInv == IInv /\ recvmsg => IInv'
<1> SUFFICES ASSUME IInv, recvmsg
    PROVE  IInv'
  OBVIOUS
<1>1. CASE recv_interrupted \/ recv_would_block
  BY <1>1, StepsInv
<1>2. CASE recv_failed("Os") \/ recv_fin
  BY <1>2, NoRecordInv
<1>3. ASSUME kq # <<>>, NEW c, NEW t \in BOOLEAN, recv_record(c, t),
             \/ c \in Told(Head(kq).type) /\ t = FALSE
             \/ c \in Malformed(Head(kq).type) \/ t = TRUE
      PROVE  IInv'
  <2>1. pc = "recv"
    BY <1>3, Zenon DEF recv_record
  <2>2. Head(kq) = kq[1]
    BY <1>3, <2>1, AtRecv
  <2>3. \E o, got, rest : Received(o, got, rest)
    BY <1>3, <2>2, ReceivedStep, Zenon
  <2> QED
    BY <1>3, <2>1, <2>3, RecvInv
<1> QED
  BY <1>1, <1>2, <1>3, ZenonT(30) DEF recvmsg, recv_completes

-----------------------------------------------------------------------------
(* The peer, the kernel and the driver.                                    *)

\* Another record is queued, behind a close_notify never.
LEMMA CloseAppend ==
  ASSUME NEW q \in Seq(Record), NEW a \in Seq(Nat), NEW r \in Record, NEW c,
         Close(q, a, -1), r.type = "alert" /\ IsClose(Whole(Append(q, r), a, Len(q) + 1)) => c # -1
  PROVE  Close(Append(q, r), a, c)
<1> DEFINE Q == Append(q, r)
<1>1. Len(q) \in Nat /\ Len(Q) = Len(q) + 1 /\ Q[Len(q) + 1] = r /\ \A i \in 1..Len(q) : Q[i] = q[i]
  BY AppendProperties, LenProperties
<1> SUFFICES ASSUME NEW i \in 1..Len(Q), Q[i].type = "alert", IsClose(Whole(Q, a, i))
    PROVE  i = Len(Q) /\ c # -1
  BY DEF Close
<1> HIDE DEF Q
<1>2. CASE i = Len(q) + 1
  BY <1>1, <1>2, Zenon DEF Q
<1>3. CASE i # Len(q) + 1
  <2>1. i \in 1..Len(q) /\ Q[i] = q[i] /\ (1 \in 1..Len(q) => Q[1] = q[1])
    BY <1>1, <1>3
  <2>2. Whole(Q, a, i) = Whole(q, a, i)
    BY <2>1, Zenon DEF Whole
  <2> QED
    BY <2>1, <2>2, Zenon DEF Close
<1> QED
  BY <1>2, <1>3

\* What stays as it was when the peer or the driver acts.
LEMMA OutsideInv ==
  ASSUME IInv, UNCHANGED <<pc, cap, result, alert, terminal, delivered>>,
         woken' \in BOOLEAN, armed' \in [Dir -> BOOLEAN],
         pc = "waiting" /\ (woken \/ armed["read"]) => woken' \/ armed'["read"],
         kq' \in Seq(Record), sent' \in Nat, closeAt' \in Nat \cup {-1},
         Stream', alert # <<>> /\ terminal = "none" => kq' # <<>> /\ Head(kq').type = "alert"
  PROVE  IInv'
<1>1. Types'
  BY DEF IInv, Types
<1>2. Control' /\ InOrder' /\ ParkedIsArmed'
  BY DEF IInv, Control, InOrder, ParkedIsArmed
<1>3. PartialAlertMatches'
  BY DEF IInv, PartialAlertMatches
<1> QED
  BY <1>1, <1>2, <1>3 DEF IInv

LEMMA ArriveInv ==
  ASSUME IInv, NEW type \in Kind, NEW body \in Seq(Nat), Arrive(type, body),
         sent' \in Nat, sent' >= sent, Covers([type |-> type, body |-> body], sent, sent'),
         closeAt' \in {-1, sent'}, type = "alert" /\ IsClose(body) => closeAt' # -1
  PROVE  IInv'
<1> DEFINE r == [type |-> type, body |-> body]
<1>1. /\ kq' = Append(kq, r) /\ closeAt = -1 /\ UNCHANGED <<armed, woken>>
      /\ UNCHANGED <<pc, cap, result, alert, terminal, delivered>>
  BY SMTT(30) DEF Arrive, Edge, readerVars, taskVars
<1>2. /\ r \in Record /\ r.type = type /\ r.body = body /\ kq \in Seq(Record) /\ alert \in Seq(Nat)
      /\ Len(delivered) \in Nat /\ sent \in Nat /\ woken \in BOOLEAN /\ armed \in [Dir -> BOOLEAN]
  BY LenProperties DEF Record, IInv, Types
<1>3. Covers(r, sent, sent')
  OBVIOUS
<1> HIDE DEF r
<1>4. kq' \in Seq(Record) /\ (kq # <<>> => kq' # <<>> /\ Head(kq') = Head(kq))
  BY <1>1, <1>2, AppendProperties, SMTT(30)
<1>5. ASSUME terminal = "none"
      PROVE  Laid(kq', Len(delivered), sent') /\ Close(kq', alert, closeAt')
  <2>1. Laid(kq, Len(delivered), sent) /\ Close(kq, alert, -1)
    BY <1>1, <1>5 DEF IInv, Stream
  <2>2. Laid(kq', Len(delivered), sent')
    <3> DEFINE b == sent'
    <3>1. b \in Nat /\ sent <= b /\ Covers(r, sent, b)
      BY <1>2, <1>3
    <3> HIDE DEF b
    <3>2. Laid(Append(kq, r), Len(delivered), b)
      BY <1>2, <2>1, <3>1, LaidAppend
    <3> QED
      BY <1>1, <3>2 DEF b
  <2>3. Whole(Append(kq, r), alert, Len(kq) + 1) = body
    <3>1. CASE kq = <<>>
      <4>1. alert = <<>>
        BY <1>5, <3>1 DEF IInv, PartialAlertMatches
      <4>2. Len(kq) + 1 = 1 /\ Append(kq, r)[1] = r
        BY <1>2, <3>1
      <4>3. <<>> \o body = body
        BY ConcatEmptySeq
      <4> QED
        BY <1>2, <4>1, <4>2, <4>3 DEF Whole
    <3>2. CASE kq # <<>>
      <4>1. Len(kq) + 1 # 1 /\ Append(kq, r)[Len(kq) + 1] = r
        BY <1>2, <3>2, EmptySeq, AppendProperties
      <4> QED
        BY <1>2, <4>1, Zenon DEF Whole
    <3> QED
      BY <3>1, <3>2
  <2>4. Close(kq', alert, closeAt')
    <3> DEFINE c == closeAt'
    <3>1. r.type = "alert" /\ IsClose(Whole(Append(kq, r), alert, Len(kq) + 1)) => c # -1
      BY <1>2, <2>3
    <3> HIDE DEF c
    <3>2. Close(Append(kq, r), alert, c)
      BY <1>2, <2>1, <3>1, CloseAppend
    <3> QED
      BY <1>1, <3>2 DEF c
  <2> QED
    BY <2>2, <2>4
<1>6. Stream'
  <2>1. Len(delivered') <= sent'
    BY <1>1, <1>2 DEF IInv, Stream
  <2>2. terminal # "Closed"
    BY <1>1 DEF IInv, Stream
  <2> QED
    BY <1>1, <1>5, <2>1, <2>2 DEF Stream
<1>7. alert # <<>> /\ terminal = "none" => kq' # <<>> /\ Head(kq').type = "alert"
  BY <1>4 DEF IInv, PartialAlertMatches
<1> QED
  BY <1>1, <1>2, <1>4, <1>6, <1>7, OutsideInv

LEMMA PeerInv ==
  ASSUME IInv,
         \/ \E n \in 0..MaxData : PeerData(n)
         \/ \E body \in Alerts : PeerAlert(body)
         \/ \E type \in Controls : PeerControl(type)
  PROVE  IInv'
<1>1. sent \in Nat /\ closeAt \in Nat \cup {-1}
  BY DEF IInv, Types
<1>2. ASSUME NEW n \in 0..MaxData, PeerData(n)
      PROVE  IInv'
  <2> DEFINE body == [i \in 1..n |-> Data + sent + i]
  <2>1. n \in Nat
    BY ConstantsAssumption
  <2>2. body \in Seq(Nat) /\ Len(body) = n /\ \A i \in 1..n : body[i] = Data + sent + i
    BY <1>1, <2>1 DEF Data
  <2>3. Arrive("data", body) /\ sent' = sent + n /\ closeAt' = closeAt /\ closeAt = -1
    BY <1>2 DEF PeerData, Arrive
  <2> HIDE DEF body
  <2>4. Covers([type |-> "data", body |-> body], sent, sent')
    BY <2>2, <2>3 DEF Covers
  <2>5. sent' \in Nat /\ sent' >= sent /\ "data" \in Kind
    BY <1>1, <2>1, <2>3 DEF Kind
  <2> QED
    BY <2>2, <2>3, <2>4, <2>5, ArriveInv
<1>3. ASSUME NEW type \in Kind \ {"data"}, NEW body \in Seq(Nat), Arrive(type, body), sent' = sent,
             closeAt' = IF type = "alert" /\ IsClose(body) THEN sent ELSE closeAt
      PROVE  IInv'
  <2>1. closeAt = -1
    BY <1>3 DEF Arrive
  <2>2. Covers([type |-> type, body |-> body], sent, sent') /\ sent' \in Nat /\ sent' >= sent
    BY <1>1, <1>3 DEF Covers
  <2>3. closeAt' \in {-1, sent'} /\ (type = "alert" /\ IsClose(body) => closeAt' # -1)
    BY <1>1, <1>3, <2>1
  <2> QED
    BY <1>3, <2>2, <2>3, ArriveInv
<1>4. ASSUME NEW body \in Alerts, PeerAlert(body)
      PROVE  IInv'
  <2>1. body \in Seq(0..99)
    BY ConstantsAssumption
  <2>2. 0..99 \subseteq Nat
    OBVIOUS
  <2>3. body \in Seq(Nat)
    BY <2>1, <2>2, SeqMonotonic, Zenon
  <2> QED
    BY <1>3, <1>4, <2>3 DEF PeerAlert, Kind
<1>5. ASSUME NEW type \in Controls, PeerControl(type)
      PROVE  IInv'
  <2>1. type \in Kind \ {"data"} /\ type # "alert" /\ <<1>> \in Seq(Nat)
    BY ConstantsAssumption DEF Kind
  <2> QED
    BY <1>3, <1>5, <2>1, Zenon DEF PeerControl
<1> QED
  BY <1>2, <1>4, <1>5

LEMMA TailTwice ==
  ASSUME NEW q \in Seq(Record), Len(q) >= 2
  PROVE  /\ SubSeq(q, 3, Len(q)) = Tail(Tail(q)) /\ Tail(q) \in Seq(Record) /\ Tail(q) # <<>>
         /\ q[2] = Tail(q)[1] /\ Tail(Tail(q)) \in Seq(Record) /\ q # <<>>
<1> DEFINE t == Tail(q)
           u == Tail(t)
           s == SubSeq(q, 3, Len(q))
           k == Len(q)
<1>1. k \in Nat /\ k >= 2 /\ q # <<>>
  BY LenProperties, EmptySeq
<1>2. t \in Seq(Record) /\ Len(t) = k - 1 /\ \A i \in 1..(k - 1) : t[i] = q[i + 1]
  BY <1>1, Pop
<1>3. t # <<>> /\ t[1] = q[2]
  <2> HIDE DEF t, k
  <2>1. 1 \in 1..(k - 1) /\ k - 1 # 0 /\ 1 + 1 = 2
    BY <1>1
  <2>2. t[1] = q[1 + 1]
    BY <1>2, <2>1, Zenon
  <2>3. Len(t) # 0
    BY <1>2, <2>1, Zenon
  <2> QED
    BY <2>1, <2>2, <2>3
<1>4. s \in Seq(Record) /\ Len(s) = k - 2 /\ \A i \in 1..(k - 2) : s[i] = q[i + 2]
  <2>1. \A i \in 3..k : q[i] \in Record
    BY <1>1, ElementOfSeq
  <2>2. /\ s \in Seq(Record) /\ Len(s) = IF 3 <= k THEN k - 3 + 1 ELSE 0
        /\ \A i \in 1..(k - 3 + 1) : s[i] = q[3 + i - 1]
    BY <1>1, <2>1, SubSeqProperties
  <2> HIDE DEF s, k
  <2>3. k - 3 + 1 = k - 2 /\ \A i \in 1..(k - 2) : 3 + i - 1 = i + 2
    BY <1>1
  <2>4. Len(s) = k - 2
    BY <1>1, <2>2
  <2> QED
    BY <2>2, <2>3, <2>4
<1> HIDE DEF t, s, k
<1>5. u \in Seq(Record) /\ Len(u) = (k - 1) - 1 /\ \A i \in 1..((k - 1) - 1) : u[i] = t[i + 1]
  BY <1>2, <1>3, Pop, Zenon
<1> HIDE DEF u
<1>6. Len(u) = Len(s)
  BY <1>1, <1>4, <1>5
<1>7. ASSUME NEW i \in 1..Len(s)
      PROVE  s[i] = u[i]
  <2>1. i \in 1..(k - 2) /\ i \in 1..((k - 1) - 1) /\ i + 1 \in 1..(k - 1) /\ (i + 1) + 1 = i + 2
    BY <1>1, <1>4
  <2>2. u[i] = t[i + 1] /\ t[i + 1] = q[(i + 1) + 1] /\ s[i] = q[i + 2]
    BY <1>2, <1>4, <1>5, <2>1, Zenon
  <2> QED
    BY <2>1, <2>2
<1>8. s = u
  BY <1>4, <1>5, <1>6, <1>7, SeqEqual, Zenon
<1> QED
  BY <1>1, <1>2, <1>3, <1>5, <1>8, SMTT(30) DEF s, t, u, k

LEMMA MergeInv == IInv /\ kernel_merges => IInv'
<1> SUFFICES ASSUME IInv, kernel_merges
    PROVE  IInv'
  OBVIOUS
<1> DEFINE d == Len(delivered)
           x == kq[1]
           y == kq[2]
           z == [type |-> "data", body |-> x.body \o y.body]
           m == d + Len(x.body)
           e == m + Len(y.body)
           t == Tail(kq)
           u == Tail(t)
<1>1. /\ x.type = "data" /\ y.type = "data" /\ Len(kq) >= 2 /\ kq' = <<z>> \o SubSeq(kq, 3, Len(kq))
      /\ UNCHANGED <<pc, cap, result, alert, terminal, delivered, woken, armed, sent, closeAt>>
  BY DEF kernel_merges, readerVars, taskVars, tokioVars
<1>2. /\ kq \in Seq(Record) /\ alert \in Seq(Nat) /\ d \in Nat /\ sent \in Nat
      /\ woken \in BOOLEAN /\ armed \in [Dir -> BOOLEAN] /\ closeAt \in Nat \cup {-1}
  BY LenProperties DEF IInv, Types
<1>3. /\ SubSeq(kq, 3, Len(kq)) = u /\ t \in Seq(Record) /\ t # <<>> /\ y = t[1]
      /\ u \in Seq(Record) /\ kq # <<>>
  BY <1>1, <1>2, TailTwice, Zenon
<1>4. x \in Record /\ y \in Record
  BY <1>2, <1>3, Pop
<1>5. m \in Nat /\ e \in Nat
  <2>1. x.body \in Seq(Nat) /\ y.body \in Seq(Nat)
    BY <1>4 DEF Record
  <2>2. Len(x.body) \in Nat /\ Len(y.body) \in Nat
    BY <2>1, LenProperties
  <2>3. \A a, b, c \in Nat : a + b \in Nat /\ (a + b) + c \in Nat
    OBVIOUS
  <2> HIDE DEF d, x, y
  <2> QED
    BY <1>2, <2>2, <2>3, Zenon
<1>6. kq' = <<z>> \o u
  BY <1>1, <1>3, SMTT(30)
<1>7. alert = <<>> \/ terminal # "none"
  <2>1. Head(kq) = x
    BY <1>2, <1>3
  <2> QED
    BY <1>1, <2>1 DEF IInv, PartialAlertMatches
<1>8. \A n \in Nat : (Covers(kq[1], d, n) => n = m) /\ (Covers(t[1], m, n) => n = e)
  BY <1>1, <1>3, Zenon DEF Covers
<1> HIDE DEF d, m, e, t, u, z, x, y
<1>9. z \in Record /\ z.type = "data"
  BY <1>4 DEF z, Record, Kind
<1>10. kq' \in Seq(Record)
  BY <1>3, <1>6, <1>9, Push
<1>11. ASSUME terminal = "none"
       PROVE  Laid(kq', d, sent) /\ Close(kq', alert, closeAt)
  <2>1. Laid(kq, d, sent) /\ Close(kq, alert, closeAt)
    BY <1>11 DEF IInv, Stream, d
  <2>2. Laid(t, m, sent) /\ Covers(x, d, m)
    BY <1>2, <1>3, <1>5, <1>8, <2>1, LaidTail, SMTT(30) DEF t, x
  <2>3. Laid(u, e, sent) /\ Covers(y, m, e) /\ e <= sent
    BY <1>2, <1>3, <1>5, <1>8, <2>2, LaidTail, SMTT(30) DEF u
  <2>4. Covers(z, d, e) /\ d <= e
    BY <1>1, <1>2, <1>4, <1>5, <2>2, <2>3, CoversBoth, Zenon DEF z
  <2>5. Laid(<<z>> \o u, d, sent)
    BY <1>2, <1>3, <1>5, <1>9, <2>3, <2>4, LaidCons, Zenon
  <2>6. Close(t, <<>>, closeAt)
    BY <1>2, <1>3, <2>1, CloseTail DEF t
  <2>7. <<>> \in Seq(Nat) /\ z.type # "alert"
    BY <1>9
  <2>8. Close(<<z>> \o Tail(t), alert, closeAt)
    BY <1>2, <1>3, <1>9, <2>6, <2>7, CloseHead, Zenon
  <2> QED
    BY <1>6, <2>5, <2>8 DEF u
<1>12. Stream'
  BY <1>1, <1>11 DEF IInv, Stream, d
<1>13. pc = "waiting" /\ (woken \/ armed["read"]) => woken' \/ armed'["read"]
  BY <1>1
<1> QED
  BY <1>1, <1>2, <1>7, <1>10, <1>12, <1>13, OutsideInv, SMTT(30)

LEMMA DriverInv == IInv /\ (PeerFin \/ DriverSet \/ DriverWake \/ DriverDown) => IInv'
<1> SUFFICES ASSUME IInv, PeerFin \/ DriverSet \/ DriverWake \/ DriverDown
    PROVE  IInv'
  OBVIOUS
<1>1. UNCHANGED <<pc, cap, result>> /\ SameStream
  BY DEF PeerFin, DriverSet, DriverWake, DriverDown, readerVars, taskVars, peerVars, SameStream
<1>2. kq \in Seq(Record) /\ sent \in Nat /\ closeAt \in Nat \cup {-1}
  BY DEF IInv, Types
<1>3. woken \in BOOLEAN /\ armed \in [Dir -> BOOLEAN] /\ armed["read"] \in BOOLEAN
  BY ConstantsAssumption DEF IInv, Types
<1>4. woken' \in BOOLEAN /\ armed' \in [Dir -> BOOLEAN]
  BY <1>3, Zenon DEF PeerFin, DriverSet, DriverWake, DriverDown, WakeTask, Edge, Set, Wake, Down, taskVars
<1>5. pc = "waiting" /\ (woken \/ armed["read"]) => woken' \/ armed'["read"]
  <2>1. \/ UNCHANGED <<woken, armed>>
        \/ woken' = (woken \/ (armed["read"] /\ pc # "idle"))
    BY DEF PeerFin, DriverSet, DriverWake, DriverDown, WakeTask, Edge, Set, taskVars
  <2> QED
    BY <1>3, <2>1
<1>6. Stream' /\ PartialAlertMatches'
  BY <1>1, SameStreamInv
<1>7. alert # <<>> /\ terminal = "none" => kq' # <<>> /\ Head(kq').type = "alert"
  BY <1>1, <1>6 DEF SameStream, PartialAlertMatches
<1> QED
  BY <1>1, <1>2, <1>4, <1>5, <1>6, <1>7, OutsideInv DEF SameStream

LEMMA InitInv == Init => IInv
<1> SUFFICES ASSUME Init
    PROVE  IInv
  OBVIOUS
<1>1. Types
  <2>1. alert \in Seq(Nat) /\ kq \in Seq(Record) /\ delivered \in Seq(Nat)
    BY DEF Init
  <2>2. armed \in [Dir -> BOOLEAN] /\ woken \in BOOLEAN
    BY Zenon DEF Init, TokioInit
  <2> QED
    BY <2>1, <2>2 DEF Init, Types
<1>2. Control /\ InOrder /\ PartialAlertMatches /\ ParkedIsArmed
  BY DEF Init, Control, InOrder, PartialAlertMatches, ParkedIsArmed, Step
<1>3. Stream
  <2>1. Laid(kq, Len(delivered), sent)
    BY LaidEmpty DEF Init
  <2>2. Close(kq, alert, closeAt)
    BY DEF Init, Close
  <2> QED
    BY <2>1, <2>2 DEF Init, Stream
<1> QED
  BY <1>1, <1>2, <1>3 DEF IInv

LEMMA StepInv == IInv /\ [Next]_vars => IInv'
<1> SUFFICES ASSUME IInv, [Next]_vars
    PROVE  IInv'
  OBVIOUS
<1>1. ASSUME NEW c \in 0..MaxCap, Call(c)
      PROVE  IInv'
  BY <1>1, CallInv, ConstantsAssumption
<1>2. CASE Cancel \/ Poll
  BY <1>2, PollInv
<1>3. CASE Running
  BY <1>3, StepsInv, RecvmsgInv, ReadyInv DEF Running
<1>4. CASE \/ \E n \in 0..MaxData : PeerData(n)
           \/ \E body \in Alerts : PeerAlert(body)
           \/ \E type \in Controls : PeerControl(type)
  BY <1>4, PeerInv
<1>5. CASE kernel_merges
  BY <1>5, MergeInv
<1>6. CASE PeerFin \/ DriverSet \/ DriverWake \/ DriverDown
  BY <1>6, DriverInv
<1>7. CASE UNCHANGED vars
  <2>1. SameStream /\ UNCHANGED <<pc, cap, result, woken, armed>>
    BY <1>7 DEF vars, readerVars, taskVars, peerVars, tokioVars, SameStream
  <2>2. Stream' /\ InOrder' /\ PartialAlertMatches'
    BY <2>1, SameStreamInv
  <2>3. Types' /\ Control' /\ ParkedIsArmed'
    BY <2>1 DEF SameStream, IInv, Types, Control, ParkedIsArmed
  <2> QED
    BY <2>2, <2>3 DEF IInv
<1> QED
  BY <1>1, <1>2, <1>3, <1>4, <1>5, <1>6, <1>7 DEF Next

-----------------------------------------------------------------------------
(* Theorems.                                                               *)

THEOREM Invariant == Spec => []IInv
BY InitInv, StepInv, PTL DEF Spec

(* What the application has been given is the peer's stream from its       *)
(* start, without a gap and without a byte of an alert, for any record     *)
(* sizes, buffers, merged records and dropped reads (consume).             *)
THEOREM StreamInOrder == Spec => []InOrder
<1>1. IInv => InOrder
  BY DEF IInv
<1> QED
  BY <1>1, Invariant, PTL

(* End of file is reported only for a close_notify of the peer, and after  *)
(* everything it sent before (consume_alert, consume_empty).               *)
THEOREM EofIsPeers == Spec => []EofIsAuthentic
<1>1. IInv => EofIsAuthentic
  <2> SUFFICES ASSUME IInv, terminal = "Closed" \/ result = "Eof"
      PROVE  closeAt >= 0 /\ Len(delivered) = closeAt
    BY DEF EofIsAuthentic
  <2>1. terminal = "Closed" /\ closeAt \in Nat \cup {-1}
    BY DEF IInv, Types, Control
  <2>2. closeAt # -1 /\ Len(delivered) = closeAt
    BY <2>1 DEF IInv, Stream
  <2> QED
    BY <2>1, <2>2
<1> QED
  BY <1>1, Invariant, PTL

(* A held alert byte is completed by its own record (the alert and         *)
(* alert_len fields across reads).                                         *)
THEOREM AlertsStayWhole == Spec => []PartialAlertMatches
<1>1. IInv => PartialAlertMatches
  BY DEF IInv
<1> QED
  BY <1>1, Invariant, PTL

(* A read that is Pending has its waker with tokio, or has been woken      *)
(* (poll_read at the end of its budget and after poll_read_ready).         *)
THEOREM ParkedIsWoken == Spec => []ParkedIsArmed
<1>1. IInv => ParkedIsArmed
  BY DEF IInv
<1> QED
  BY <1>1, Invariant, PTL

LEMMA StickyStep ==
  IInv /\ [Next]_vars =>
    [terminal # "none" =>
       /\ terminal' = terminal /\ delivered' = delivered
       /\ result' # result => result' \in {"none", "Empty", finished}]_vars
<1> SUFFICES ASSUME IInv, Next, terminal # "none"
    PROVE  /\ terminal' = terminal /\ delivered' = delivered
           /\ result' # result => result' \in {"none", "Empty", finished}
  BY SMTT(30)
<1>1. ~Running
  <2>1. pc \notin Step
    BY DEF IInv, Control, Step
  <2> QED
    BY <2>1, Zenon DEF Running, budget_end, try_io, recvmsg, recv_interrupted, recv_completes, recv_would_block,
       recv_fin, recv_failed, recv_record, clear_ready, poll_read_ready, Step
<1>2. CASE Cancel \/ Poll
  BY <1>2, SMTT(30) DEF Cancel, Poll, Return, is_finished, readerVars
<1>3. CASE ~(Cancel \/ Poll)
  BY <1>1, <1>3, Zenon DEF Next, Call, PeerData, PeerAlert, PeerControl, Arrive, PeerFin, kernel_merges,
     DriverSet, DriverWake, DriverDown, readerVars, taskVars
<1> QED
  BY <1>2, <1>3

(* A reader that has closed or failed gives the same answer to every later *)
(* read and delivers nothing more (finished, and the state it is set in).  *)
THEOREM FinishedStays == Spec => TerminalIsSticky
BY Invariant, StickyStep, PTL DEF Spec, TerminalIsSticky

-----------------------------------------------------------------------------
(* The refinement.                                                         *)

\* The first n positions; what a peer that has sent s bytes, and a close_notify unless c is -1, put on the wire.
First(n) == [i \in 1..n |-> i]

WireOf(s, c) == First(s) \o (IF c = -1 THEN <<>> ELSE <<0>>)

LEMMA WireIs ==
  ASSUME NEW s \in Nat, NEW c
  PROVE  /\ WireOf(s, c) \in Seq(Nat)
         /\ c = -1 => Len(WireOf(s, c)) = s /\ WireOf(s, c) = First(s)
         /\ c # -1 => Len(WireOf(s, c)) = s + 1 /\ WireOf(s, c)[s + 1] = 0
         /\ \A n \in 0..s : SubSeq(WireOf(s, c), 1, n) = First(n)
<1> DEFINE p == First(s)
           w == WireOf(s, c)
<1>1. p \in Seq(Nat) /\ Len(p) = s /\ \A i \in 1..s : p[i] = i
  BY DEF First
<1>2. <<0>> \in Seq(Nat) /\ Len(<<0>>) = 1 /\ <<0>>[1] = 0
  OBVIOUS
<1> HIDE DEF p
<1>3. w \in Seq(Nat) /\ \A i \in 1..s : w[i] = i
  <2>1. CASE c = -1
    BY <1>1, <2>1, ConcatEmptySeq DEF WireOf, p
  <2>2. CASE c # -1
    BY <1>1, <1>2, <2>2 DEF WireOf, p
  <2> QED
    BY <2>1, <2>2
<1>4. c = -1 => w = p
  BY <1>1, ConcatEmptySeq DEF WireOf, p
<1>5. c # -1 => Len(w) = s + 1 /\ w[s + 1] = 0
  <2> SUFFICES ASSUME c # -1
      PROVE  Len(w) = s + 1 /\ w[s + 1] = 0
    OBVIOUS
  <2>1. w = p \o <<0>>
    BY DEF WireOf, p
  <2> QED
    BY <1>1, <1>2, <2>1, ConcatProperties, SMTT(30)
<1>6. Len(w) >= s
  BY <1>1, <1>4, <1>5
<1> HIDE DEF w
<1>7. ASSUME NEW n \in 0..s
      PROVE  SubSeq(w, 1, n) = First(n)
  <2> DEFINE x == SubSeq(w, 1, n)
             y == First(n)
  <2>1. x \in Seq(Nat) /\ Len(x) = n /\ \A i \in 1..n : x[i] = w[i]
    BY <1>3, <1>6
  <2>2. y \in Seq(Nat) /\ Len(y) = n /\ \A i \in 1..n : y[i] = i
    BY DEF First
  <2> HIDE DEF x, y
  <2>3. \A i \in 1..n : x[i] = y[i]
    BY <1>3, <2>1, <2>2, SMTT(30)
  <2>4. x = y
    BY <2>1, <2>2, <2>3, SeqEqual
  <2> QED
    BY <2>4 DEF x, y
<1> QED
  BY <1>1, <1>3, <1>4, <1>5, <1>7 DEF w, p

\* A received record: delivery stays open, and an end delivers nothing.
LEMMA RecordGrows ==
  ASSUME IInv, NEW o, NEW got, NEW rest, Received(o, got, rest)
  PROVE  /\ UNCHANGED <<sent, closeAt>> /\ Len(delivered') >= Len(delivered)
         /\ terminal' = "Closed" => delivered' = delivered
<1>1. delivered \in Seq(Nat) /\ Len(delivered) \in Nat
  BY LenProperties DEF IInv, Types
<1>2. /\ UNCHANGED <<sent, closeAt>> /\ got \in Seq(Nat)
      /\ delivered' = delivered \/ (delivered' = delivered \o got /\ o.out = "Data")
  BY SMTT(30) DEF Received
<1>3. terminal' = "Closed" => o.out # "Data"
  <2> SUFFICES ASSUME o.terminal = "Closed", o.out = "Data"
      PROVE  FALSE
    BY DEF Received
  <2> QED
    BY SMTT(30) DEF Received, Outcome, Failed
<1>4. Len(delivered \o got) >= Len(delivered)
  BY <1>1, <1>2, ConcatProperties, LenProperties, SMTT(30)
<1> QED
  BY <1>1, <1>2, <1>3, <1>4

\* How the variables of the contract move.
LEMMA StreamStep ==
  ASSUME IInv, [Next]_vars
  PROVE  \/ /\ UNCHANGED <<sent, closeAt>> /\ Len(delivered') >= Len(delivered)
            /\ terminal' = "Closed" => delivered' = delivered
         \/ closeAt = -1 /\ sent' \in Nat /\ sent' >= sent /\ UNCHANGED <<delivered, terminal>>
<1>1. sent \in Nat /\ delivered \in Seq(Nat) /\ Len(delivered) \in Nat
  BY LenProperties DEF IInv, Types
<1>2. CASE \/ \E n \in 0..MaxData : PeerData(n)
           \/ \E body \in Alerts : PeerAlert(body)
           \/ \E type \in Controls : PeerControl(type)
  <2>1. closeAt = -1 /\ UNCHANGED <<delivered, terminal>>
    BY <1>2, Zenon DEF PeerData, PeerAlert, PeerControl, Arrive, readerVars
  <2>2. (\E n \in 0..MaxData : sent' = sent + n) \/ sent' = sent
    BY <1>2, Zenon DEF PeerData, PeerAlert, PeerControl
  <2>3. sent' \in Nat /\ sent' >= sent
    BY <1>1, <2>2
  <2> QED
    BY <2>1, <2>3
<1>3. ASSUME kq # <<>>, NEW c, NEW t \in BOOLEAN, recv_record(c, t),
             \/ c \in Told(Head(kq).type) /\ t = FALSE
             \/ c \in Malformed(Head(kq).type) \/ t = TRUE
      PROVE  /\ UNCHANGED <<sent, closeAt>> /\ Len(delivered') >= Len(delivered)
             /\ terminal' = "Closed" => delivered' = delivered
  <2>1. pc = "recv"
    BY <1>3, Zenon DEF recv_record
  <2>2. Head(kq) = kq[1]
    BY <1>3, <2>1, AtRecv
  <2>3. \E o, got, rest : Received(o, got, rest)
    BY <1>3, <2>2, ReceivedStep, Zenon
  <2> QED
    BY <2>3, RecordGrows, SMTT(30)
<1>4. CASE UNCHANGED <<sent, closeAt, delivered>>
  BY <1>1, <1>4
<1>5. \/ UNCHANGED <<sent, closeAt, delivered>>
      \/ \E n \in 0..MaxData : PeerData(n)
      \/ \E body \in Alerts : PeerAlert(body)
      \/ \E type \in Controls : PeerControl(type)
      \/ /\ kq # <<>>
         /\ \/ \E c \in Told(Head(kq).type) : recv_record(c, FALSE)
            \/ recv_record(<<Head(kq).type>>, TRUE)
            \/ \E c \in Malformed(Head(kq).type) : recv_record(c, FALSE)
  BY Zenon DEF Next, Call, Cancel, Poll, Running, budget_end, try_io, recvmsg, recv_interrupted,
     recv_completes, recv_would_block, recv_fin, recv_failed, clear_ready, poll_read_ready, PeerFin,
     kernel_merges, DriverSet, DriverWake, DriverDown, peerVars, vars
<1>6. TRUE \in BOOLEAN /\ FALSE \in BOOLEAN
  OBVIOUS
<1> QED
  BY <1>2, <1>3, <1>4, <1>5, <1>6, Zenon

\* The application's bytes as positions.
LEMMA Delivered ==
  ASSUME NEW s, s \in Seq(Nat), \A i \in 1..Len(s) : s[i] = Data + i
  PROVE  [i \in 1..Len(s) |-> s[i] - Data] = First(Len(s))
<1>1. ASSUME NEW i \in 1..Len(s)
      PROVE  s[i] - Data = i
  <2>1. s[i] = Data + i /\ i \in Int
    OBVIOUS
  <2> QED
    BY <2>1 DEF Data
<1> QED
  BY <1>1, Zenon DEF First

LEMMA Contract == IInv /\ IInv' /\ [Next]_vars => [Inbound!Next]_(Inbound!vars)
<1> SUFFICES ASSUME IInv, IInv', [Next]_vars
    PROVE  [Inbound!Next]_(Inbound!vars)
  OBVIOUS
<1> DEFINE w == WireOf(sent, closeAt)
           b == [i \in 1..Len(delivered) |-> delivered[i] - Data]
           f == terminal = "Closed"
<1>1. /\ sent \in Nat /\ delivered \in Seq(Nat) /\ Len(delivered) \in Nat /\ Len(delivered) <= sent
      /\ \A i \in 1..Len(delivered) : delivered[i] = Data + i
  BY LenProperties DEF IInv, Types, Stream, InOrder
<1>2. /\ delivered' \in Seq(Nat) /\ Len(delivered') \in Nat /\ Len(delivered') <= sent' /\ sent' \in Nat
      /\ \A i \in 1..Len(delivered') : delivered'[i] = Data + i
  <2>1. /\ delivered' \in Seq(Nat) /\ Len(delivered') <= sent' /\ sent' \in Nat
        /\ \A i \in 1..Len(delivered') : delivered'[i] = Data + i
    BY DEF IInv, Types, Stream, InOrder
  <2> QED
    BY <2>1, LenProperties
<1>3. b = First(Len(delivered)) /\ Len(b) = Len(delivered)
  BY <1>1, Delivered
<1>4. /\ w \in Seq(Nat)
      /\ closeAt = -1 => Len(w) = sent /\ w = First(sent)
      /\ closeAt # -1 => Len(w) = sent + 1 /\ w[sent + 1] = 0
      /\ \A n \in 0..sent : SubSeq(w, 1, n) = First(n)
  BY <1>1, WireIs, ZenonT(30)
<1>5. Inbound!Closed <=> closeAt # -1
  <2>1. Inbound!Closed <=> w # <<>> /\ w[Len(w)] = 0
    BY DEF Inbound!Closed, WireOf, First
  <2>2. CASE closeAt = -1
    <3> HIDE DEF w
    <3>1. ASSUME sent # 0
          PROVE  w[Len(w)] # 0
      <4>1. w[Len(w)] = First(sent)[sent] /\ sent \in 1..sent
        BY <1>1, <1>4, <2>2, <3>1
      <4> QED
        BY <3>1, <4>1 DEF First
    <3>2. sent = 0 => w = <<>>
      BY <1>4, <2>2
    <3> QED
      BY <2>1, <2>2, <3>1, <3>2
  <2>3. CASE closeAt # -1
    <3> HIDE DEF w
    <3>1. w # <<>> /\ w[Len(w)] = 0
      BY <1>1, <1>4, <2>3
    <3> QED
      BY <2>1, <2>3, <3>1
  <2> QED
    BY <2>2, <2>3
<1>6. Inbound!Bytes = sent
  <2>1. Inbound!Bytes = IF closeAt # -1 THEN Len(w) - 1 ELSE Len(w)
    BY <1>5, Zenon DEF Inbound!Bytes, WireOf, First
  <2> HIDE DEF w
  <2> QED
    BY <1>1, <1>4, <2>1
<1> HIDE DEF w, b, f
<1>7. CASE UNCHANGED <<sent, closeAt>> /\ Len(delivered') >= Len(delivered) /\ terminal' # "Closed"
           /\ terminal # "Closed"
  <2>1. b' = SubSeq(w, 1, Len(delivered'))
    <3>1. b' = First(Len(delivered'))
      <4> DEFINE s == delivered'
      <4>1. s \in Seq(Nat) /\ \A i \in 1..Len(s) : s[i] = Data + i
        BY <1>2
      <4> HIDE DEF s
      <4>2. [i \in 1..Len(s) |-> s[i] - Data] = First(Len(s))
        BY <4>1, Delivered
      <4> QED
        BY <4>2 DEF s, b
    <3>2. Len(delivered') \in 0..sent
      BY <1>2, <1>7
    <3> QED
      BY <1>4, <3>1, <3>2, SMTT(30)
  <2>2. Len(delivered') \in Len(b)..Inbound!Bytes
    BY <1>1, <1>2, <1>3, <1>6, <1>7
  <2>3. w' = w
    BY <1>7 DEF w
  <2>4. f' = f /\ ~f
    BY <1>7 DEF f
  <2>5. Inbound!Deliver
    BY <2>1, <2>2, <2>3, <2>4, Zenon DEF Inbound!Deliver, w, b, f, WireOf, First
  <2> QED
    BY <2>5 DEF Inbound!Next
<1>8. CASE UNCHANGED <<sent, closeAt, delivered>> /\ terminal' = "Closed"
  <2>1. closeAt # -1 /\ Len(delivered) = sent
    BY <1>8 DEF IInv, Stream
  <2>2. Len(b) = Inbound!Bytes /\ Inbound!Closed
    BY <1>3, <1>5, <1>6, <2>1
  <2>3. f' = TRUE /\ w' = w /\ b' = b
    BY <1>8 DEF w, b, f
  <2>4. Inbound!End
    BY <2>2, <2>3, Zenon DEF Inbound!End, w, b, f, WireOf, First
  <2> QED
    BY <2>4 DEF Inbound!Next
<1>9. CASE closeAt = -1 /\ sent' \in Nat /\ sent' >= sent /\ UNCHANGED <<delivered, terminal>>
  <2>1. Len(w') >= Len(w) /\ SubSeq(w', 1, Len(w)) = w
    <3> DEFINE e == sent'
               c == closeAt'
    <3>1. e \in Nat /\ e >= sent /\ w' = WireOf(e, c)
      BY <1>9 DEF w
    <3> HIDE DEF e, c
    <3>2. /\ c = -1 => Len(WireOf(e, c)) = e
          /\ c # -1 => Len(WireOf(e, c)) = e + 1
          /\ \A n \in 0..e : SubSeq(WireOf(e, c), 1, n) = First(n)
      BY <3>1, WireIs, ZenonT(30)
    <3>3. Len(w) = sent /\ w = First(sent) /\ sent \in 0..e
      BY <1>1, <1>4, <1>9, <3>1
    <3>4. Len(WireOf(e, c)) >= sent
      BY <1>1, <3>1, <3>2
    <3>5. SubSeq(WireOf(e, c), 1, sent) = w
      BY <3>2, <3>3, Zenon
    <3> QED
      BY <3>1, <3>3, <3>4, <3>5
  <2>2. ~Inbound!Closed /\ b' = b /\ f' = f
    BY <1>5, <1>9 DEF b, f
  <2>3. Inbound!PeerSends
    BY <2>1, <2>2, Zenon DEF Inbound!PeerSends, w, b, f, WireOf, First
  <2> QED
    BY <2>3 DEF Inbound!Next
<1>10. terminal = "Closed" => UNCHANGED <<terminal, delivered>>
  BY StickyStep DEF vars, readerVars
<1>11. CASE UNCHANGED <<sent, closeAt, delivered, terminal>>
  <2>1. UNCHANGED <<w, b, f>>
    BY <1>11 DEF w, b, f
  <2> QED
    BY <2>1, Zenon DEF Inbound!vars, w, b, f, WireOf, First
<1> QED
  BY <1>7, <1>8, <1>9, <1>10, <1>11, StreamStep

(* The reader of a kTLS stream keeps the contract of a read half, for any  *)
(* peer, record sizes, buffers, budget and faults of recvmsg (RecordReader *)
(* of ktls/io.rs).                                                         *)
THEOREM ImplementsInbound == Spec => RefinesInbound
<1>1. Init => Inbound!Init
  <2> SUFFICES ASSUME Init
      PROVE  Inbound!Init
    OBVIOUS
  <2>1. [i \in 1..Len(delivered) |-> delivered[i] - Data] = <<>> /\ terminal # "Closed"
    BY DEF Init
  <2> QED
    BY <2>1 DEF Inbound!Init
<1>2. IInv /\ [Next]_vars => IInv'
  BY StepInv
<1> QED
  BY <1>1, <1>2, InitInv, Contract, PTL DEF Spec, RefinesInbound, Inbound!Spec

=============================================================================
