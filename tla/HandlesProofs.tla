--------------------------- MODULE HandlesProofs ---------------------------
(***************************************************************************)
(* Theorems about Handles, for bundles of any length, any number of        *)
(* connections and any queue the thread may come with: the rest of the     *)
(* proof that IInv (HandlesLoadProofs) is inductive, for the connections   *)
(* and the drops, and what follows from it.                                *)
(***************************************************************************)
EXTENDS HandlesLoadProofs

-----------------------------------------------------------------------------
(* Connections.                                                            *)

Conn(o) == \E c \in Live : o \in Inside(c)

\* The counts, once a configuration is built.
Shared ==
  /\ refs[Ctx] = One(pc = "built") + Cardinality(Live)
  /\ \A o \in Obj \ {Ctx} : refs[o] = One(o \in local) + One(o \in kept) + One(Conn(o))

LEMMA LiveFinite == IsFiniteSet(Live) /\ IsFiniteSet(Live') /\ Cardinality(Live) \in Nat /\ Cardinality(Live') \in Nat
<1>1. Live \subseteq Conns /\ Live' \subseteq Conns
  BY SMTT(30) DEF Live
<1> QED
  BY <1>1, FS_Subset, FS_CardinalityType, ConstantsAssumption

LEMMA NotInside == \A c : Ctx \notin Inside(c) /\ Ctx \notin Inside(c)' /\ \A o \in Parts : o \notin Inside(c)
BY Distinct DEF Inside

LEMMA CountsShared ==
  /\ pc \in Using /\ Ctx \notin local /\ Ctx \notin kept => (Counts <=> Shared)
  /\ pc' \in Using /\ Ctx \notin local' /\ Ctx \notin kept' => (Counts' <=> Shared')
<1>1. Ctx \in Obj
  BY InObj
<1>2. ASSUME pc \in Using, Ctx \notin local, Ctx \notin kept PROVE Counts <=> Shared
  <2>1. Owners(Ctx) = One(pc = "built") + Cardinality(Live)
    BY <1>2, NotInside, LiveFinite DEF Owners, One, Using
  <2>2. \A o : o # Ctx => Owners(o) = One(o \in local) + One(o \in kept) + One(Conn(o))
    BY DEF Owners, Conn, One
  <2> QED
    BY <1>1, <2>1, <2>2 DEF Counts, Shared
<1>3. ASSUME pc' \in Using, Ctx \notin local', Ctx \notin kept' PROVE Counts' <=> Shared'
  <2>1. Owners(Ctx)' = One(pc' = "built") + Cardinality(Live')
    BY <1>3, NotInside, LiveFinite DEF Owners, One, Using
  <2>2. \A o : o # Ctx => Owners(o)' = One(o \in local') + One(o \in kept') + One(Conn(o)')
    BY DEF Owners, Conn, One
  <2> QED
    BY <1>1, <2>1, <2>2 DEF Counts, Shared
<1> QED
  BY <1>2, <1>3

\* What is known once a configuration is built.
LEMMA AtUsing ==
  ASSUME IInv, pc \in Using
  PROVE  /\ Shared /\ Ctx \notin kept /\ Ctx \notin local /\ kept \subseteq Parts /\ refs \in [Obj -> Int]
         /\ \A o \in local : \E c \in Conns : o = PeerCert(c) /\ ssl[c] = "certified"
<1>1. kept \subseteq Parts /\ refs \in [Obj -> Int]
  BY TypeParts DEF IInv, Keeps, Kinds, Parts, Sets
<1>2. \A o \in local : \E c \in Conns : o = PeerCert(c) /\ ssl[c] = "certified"
  BY DEF IInv, Control, Locals
<1>3. Ctx \notin kept /\ Ctx \notin local
  BY <1>1, <1>2, Distinct
<1> QED
  BY <1>1, <1>2, <1>3, CountsShared, SMTT(30) DEF IInv

\* A connection that is there was made from a configuration.
LEMMA ConnUsing ==
  ASSUME IInv, NEW c \in Conns, ssl[c] # "none"
  PROVE  pc \in Using
BY DEF IInv, Control, Jobs

\* The parts of the invariant that a step of a connection leaves alone.
LEMMA SameBuild ==
  ASSUME IInv, pc \in Using, pc' \in Using, UNCHANGED <<side, loadVars, ok>>,
         refs' \in [Obj -> Int], local' \subseteq Obj, kept' \subseteq kept, States',
         \A o \in local' : \E c \in Conns : o = PeerCert(c) /\ ssl'[c] = "certified",
         pc' = "dropped" /\ Live' = {} => kept' = {}, errq' \in {errq, <<>>}, Shared'
  PROVE  IInv'
<1> USE DEF loadVars
<1>1. Ctx \notin kept' /\ Ctx \notin local'
  BY AtUsing, Distinct
<1>2. Counts'
  BY <1>1, CountsShared
<1>3. Shape' /\ Sized' /\ Sets' /\ ok' = ok
  BY TypeParts DEF IInv, Shape, Sized, Sets, Using
<1>4. TypeOK'
  BY <1>3, TypeParts DEF IInv
<1>5. Control'
  BY SMTT(30) DEF Control, Locals, Jobs, Using, Quiet, Loading, Holding
<1>6. Kinds' /\ Progress'
  BY DEF IInv, Keeps, Kinds, Progress, Using, Building, Quiet, Loading, Holding
<1> QED
  BY <1>2, <1>4, <1>5, <1>6, SMTT(30) DEF IInv, Keeps, NoResidue

\* A connection that changes leaves the others alone.
LEMMA OthersSame ==
  ASSUME TypeOK, NEW c \in Conns, NEW s, ssl' = [ssl EXCEPT ![c] = s]
  PROVE  /\ ssl'[c] = s
         /\ \A d \in Conns : d # c => ssl'[d] = ssl[d] /\ Inside(d)' = Inside(d) /\ (d \in Live' <=> d \in Live)
         /\ c \in Live' <=> s \notin {"none", "gone"}
         /\ c \in Live <=> ssl[c] \notin {"none", "gone"}
<1>1. ssl'[c] = s /\ \A d \in Conns : d # c => ssl'[d] = ssl[d]
  BY DEF TypeOK
<1> QED
  BY <1>1 DEF Inside, Live

\* Inside, and which connection an object belongs to.
LEMMA InsideIs ==
  \A c, o : /\ o \in Inside(c) <=> \/ o = Ssl(c)
                                   \/ o = Sock(c) /\ ssl[c] # "new"
                                   \/ o = PeerCert(c) /\ ssl[c] = "certified"
            /\ o \in Inside(c)' <=> \/ o = Ssl(c)
                                    \/ o = Sock(c) /\ ssl'[c] # "new"
                                    \/ o = PeerCert(c) /\ ssl'[c] = "certified"
BY DEF Inside

LEMMA ConnOwn ==
  ASSUME NEW c, NEW o \in {Ssl(c), Sock(c), PeerCert(c)}
  PROVE  /\ Conn(o) <=> c \in Live /\ o \in Inside(c)
         /\ Conn(o)' <=> c \in Live' /\ o \in Inside(c)'
<1>1. \A d : o \in Inside(d) => d = c
  BY InsideIs, OfOneConn, SMTT(30)
<1>2. \A d : o \in Inside(d)' => d = c
  BY InsideIs, OfOneConn
<1> QED
  BY <1>1, <1>2, SMTT(30) DEF Conn

LEMMA ConnOther ==
  ASSUME TypeOK, NEW c \in Conns, NEW s, ssl' = [ssl EXCEPT ![c] = s],
         NEW o, o \notin {Ssl(c), Sock(c), PeerCert(c)}
  PROVE  Conn(o)' <=> Conn(o)
<1>1. o \notin Inside(c) /\ o \notin Inside(c)'
  BY InsideIs
<1>2. Live \subseteq Conns /\ Live' \subseteq Conns
  BY DEF Live
<1>3. \A d \in Conns : d # c => Inside(d)' = Inside(d) /\ (d \in Live' <=> d \in Live)
  BY OthersSame, Zenon
<1> QED
  BY <1>1, <1>2, <1>3 DEF Conn

\* The connections that are left, and their number.
LEMMA LiveStep ==
  ASSUME TypeOK, NEW c \in Conns, NEW s, ssl' = [ssl EXCEPT ![c] = s]
  PROVE  /\ c \in Live /\ s \notin {"none", "gone"} => Live' = Live
         /\ c \notin Live /\ s \notin {"none", "gone"} => Cardinality(Live') = Cardinality(Live) + 1
         /\ c \in Live /\ s = "gone" => Cardinality(Live') = Cardinality(Live) - 1
<1>1. Live \subseteq Conns /\ Live' \subseteq Conns
  BY DEF Live
<1>0. /\ \A d \in Conns : d # c => (d \in Live' <=> d \in Live)
      /\ c \in Live' <=> s \notin {"none", "gone"}
  BY OthersSame, Zenon
<1>2. c \in Live /\ s \notin {"none", "gone"} => Live' = Live
  BY <1>0, <1>1
<1>3. ASSUME c \notin Live, s \notin {"none", "gone"} PROVE Cardinality(Live') = Cardinality(Live) + 1
  <2>1. Live' = Live \cup {c}
    BY <1>1, <1>3, OthersSame, Zenon
  <2> QED
    BY <1>3, <2>1, LiveFinite, FS_AddElement
<1>4. ASSUME c \in Live, s = "gone" PROVE Cardinality(Live') = Cardinality(Live) - 1
  <2>1. Live' = Live \ {c}
    BY <1>1, <1>4, OthersSame, Zenon
  <2> QED
    BY <1>4, <2>1, LiveFinite, FS_RemoveElement
<1> QED
  BY <1>2, <1>3, <1>4

LEMMA StatesStep ==
  ASSUME TypeOK, NEW c \in Conns, NEW s \in {"new", "wired", "plain", "certified", "gone"},
         ssl' = [ssl EXCEPT ![c] = s]
  PROVE  States'
BY DEF TypeOK, States

\* The locals of other connections, and of this one unless it is taken down.
LEMMA LocalStep ==
  ASSUME IInv, pc \in Using, NEW c \in Conns, NEW s, ssl' = [ssl EXCEPT ![c] = s], local' = local,
         PeerCert(c) \notin local
  PROVE  \A o \in local' : \E d \in Conns : o = PeerCert(d) /\ ssl'[d] = "certified"
<1>1. SUFFICES ASSUME NEW o \in local'
               PROVE  \E d \in Conns : o = PeerCert(d) /\ ssl'[d] = "certified"
  OBVIOUS
<1>2. PICK d \in Conns : o = PeerCert(d) /\ ssl[d] = "certified"
  BY <1>1, AtUsing
<1>3. d # c
  BY <1>1, <1>2
<1>4. ssl'[d] = ssl[d]
  BY <1>3, OthersSame DEF IInv
<1> QED
  BY <1>2, <1>4

LEMMA NewSslStep ==
  ASSUME IInv, NEW c \in Conns, new_ssl(c)
  PROVE  IInv'
<1>1. pc = "built" /\ ssl[c] = "none" /\ pc \in Using
  BY DEF new_ssl, Using
<1>2. CASE "call" \in Faults /\ errq' = <<>> /\ UNCHANGED <<side, pc, loadVars, ok, refs, ssl, local, kept>>
  <2>1. Shared' /\ States'
    <3>1. Live' = Live /\ \A o : Conn(o)' <=> Conn(o)
      BY <1>2 DEF Conn, Live, Inside
    <3>2. Shared
      BY <1>1, AtUsing, SMTT(30)
    <3> QED
      BY <1>2, <3>1, <3>2, TypeParts, SMTT(30) DEF Shared, One, States, IInv
  <2> QED
    BY <1>1, <1>2, <2>1, AtUsing, SameBuild, TypeParts, SMTT(30) DEF IInv, Sets
<1>3. CASE SetSsl(c, "new") /\ refs' = Add(refs, {Ctx, Ssl(c)}) /\ UNCHANGED <<errq, local, kept>>
  <2>1. /\ ssl' = [ssl EXCEPT ![c] = "new"] /\ refs' = Add(refs, {Ctx, Ssl(c)}) /\ pc' = pc
        /\ UNCHANGED <<errq, local, kept, side, loadVars, ok>>
    BY <1>3 DEF SetSsl
  <2>2. TypeOK /\ refs \in [Obj -> Int] /\ local \subseteq Obj /\ PeerCert(c) \notin local
    BY <1>1, AtUsing, OfOneConn, TypeParts, SMTT(30) DEF IInv, Sets
  <2>3. c \notin Live /\ c \in Live' /\ ssl'[c] = "new"
    BY <1>1, <2>1, <2>2, OthersSame, Zenon
  <2>4. Shared'
    <3>1. refs'[Ctx] = One(pc' = "built") + Cardinality(Live')
      <4>1. Cardinality(Live') = Cardinality(Live) + 1
        BY <2>1, <2>2, <2>3, LiveStep, Zenon
      <4>2. refs'[Ctx] = refs[Ctx] + 1
        BY <2>1, <2>2, InObj DEF Add
      <4> QED
        BY <1>1, <2>1, <4>1, <4>2, AtUsing, LiveFinite DEF Shared, One
    <3>2. ASSUME NEW o \in Obj \ {Ctx}
          PROVE  refs'[o] = One(o \in local') + One(o \in kept') + One(Conn(o)')
      <4>1. refs[o] = One(o \in local) + One(o \in kept) + One(Conn(o)) /\ refs[o] \in Int
        BY <1>1, <2>2, AtUsing, SMTT(30) DEF Shared
      <4>2. CASE o = Ssl(c)
        <5>1. ~Conn(o) /\ Conn(o)' /\ refs'[o] = refs[o] + 1
          BY <2>1, <2>2, <2>3, <4>2, ConnOwn, InsideIs DEF Add
        <5> QED
          BY <2>1, <4>1, <5>1, SMTT(30) DEF One
      <4>3. CASE o # Ssl(c)
        <5>1. refs'[o] = refs[o]
          BY <2>1, <4>3 DEF Add
        <5>2. Conn(o)' <=> Conn(o)
          <6>1. CASE o \in {Sock(c), PeerCert(c)}
            <7>1. o \in {Ssl(c), Sock(c), PeerCert(c)}
              BY <6>1
            <7>2. ~Conn(o)
              BY <2>3, <7>1, ConnOwn, Zenon
            <7>3. o \notin Inside(c)'
              BY <2>3, <4>3, <6>1, InsideIs, OfOneConn
            <7> QED
              BY <7>1, <7>2, <7>3, ConnOwn, Zenon
          <6>2. CASE o \notin {Sock(c), PeerCert(c)}
            BY <2>1, <2>2, <4>3, <6>2, ConnOther, Zenon
          <6> QED
            BY <6>1, <6>2, SMTT(30)
        <5> QED
          BY <2>1, <4>1, <5>1, <5>2, Zenon DEF One
      <4> QED
        BY <4>2, <4>3, SMTT(30)
    <3> QED
      BY <3>1, <3>2 DEF Shared
  <2>5. refs' \in [Obj -> Int]
    BY <2>1, <2>2 DEF Add
  <2>6. \A o \in local' : \E d \in Conns : o = PeerCert(d) /\ ssl'[d] = "certified"
    BY <1>1, <2>1, <2>2, LocalStep, Zenon
  <2> QED
    BY <1>1, <2>1, <2>2, <2>3, <2>4, <2>5, <2>6, StatesStep, SameBuild, Zenon
<1> QED
  BY <1>2, <1>3 DEF new_ssl

\* A connection comes by objects of its own.
LEMMA GrowStep ==
  ASSUME IInv, NEW c \in Conns, ssl[c] \in {"new", "wired"}, NEW s \in {"wired", "plain", "certified"},
         NEW X \in SUBSET {Sock(c), PeerCert(c)}, Inside(c)' = Inside(c) \cup X, X \cap Inside(c) = {},
         SetSsl(c, s), refs' = Add(refs, X), UNCHANGED <<errq, local, kept>>
  PROVE  IInv'
<1>1. pc \in Using
  BY ConnUsing
<1>2. /\ ssl' = [ssl EXCEPT ![c] = s] /\ pc' = pc /\ UNCHANGED <<side, loadVars, ok>>
  BY DEF SetSsl
<1>3. TypeOK /\ refs \in [Obj -> Int] /\ local \subseteq Obj /\ PeerCert(c) \notin local
  BY <1>1, AtUsing, OfOneConn, TypeParts, SMTT(30) DEF IInv, Sets
<1>4. c \in Live /\ c \in Live' /\ Live' = Live
  BY <1>2, <1>3, OthersSame, LiveStep, ZenonT(30)
<1>5. Shared /\ kept \subseteq Parts
  BY <1>1, AtUsing
<1>6. Shared'
  <2>1. refs'[Ctx] = One(pc' = "built") + Cardinality(Live')
    <3>1. refs'[Ctx] = refs[Ctx]
      BY <1>3, InObj, Distinct, SMTT(30) DEF Add
    <3> QED
      BY <1>2, <1>4, <1>5, <3>1, Zenon DEF Shared
  <2>2. ASSUME NEW o \in Obj \ {Ctx}
        PROVE  refs'[o] = One(o \in local') + One(o \in kept') + One(Conn(o)')
    <3>1. refs[o] = One(o \in local) + One(o \in kept) + One(Conn(o)) /\ refs[o] \in Int
      BY <1>3, <1>5, SMTT(30) DEF Shared
    <3>2. CASE o \in X
      <4>1. ~Conn(o) /\ Conn(o)'
        BY <1>4, <3>2, ConnOwn
      <4>2. refs'[o] = refs[o] + 1
        BY <3>2 DEF Add
      <4>3. One(Conn(o)) = 0 /\ One(Conn(o)') = 1 /\ One(o \in local) \in Int /\ One(o \in kept) \in Int
        BY <4>1 DEF One
      <4> QED
        BY <3>1, <4>2, <4>3
    <3>3. CASE o \notin X
      <4>1. Conn(o)' <=> Conn(o)
        <5>1. CASE o \in {Ssl(c), Sock(c), PeerCert(c)}
          BY <1>4, <3>3, <5>1, ConnOwn, SMTT(30)
        <5>2. CASE o \notin {Ssl(c), Sock(c), PeerCert(c)}
          BY <1>2, <1>3, <5>2, ConnOther, Zenon
        <5> QED
          BY <5>1, <5>2
      <4>2. refs'[o] = refs[o]
        BY <3>3 DEF Add
      <4> QED
        BY <3>1, <4>1, <4>2, Zenon DEF One
    <3> QED
      BY <3>2, <3>3, SMTT(30)
  <2> QED
    BY <2>1, <2>2 DEF Shared
<1>7. refs' \in [Obj -> Int]
  BY <1>3 DEF Add
<1>8. \A o \in local' : \E d \in Conns : o = PeerCert(d) /\ ssl'[d] = "certified"
  BY <1>1, <1>2, <1>3, LocalStep, Zenon
<1>9. States'
  BY <1>2, <1>3, StatesStep, Zenon
<1>10. Live' # {}
  BY <1>4
<1> QED
  BY <1>1, <1>2, <1>3, <1>6, <1>7, <1>8, <1>9, <1>10, SameBuild

LEMMA AttachStep ==
  ASSUME IInv, NEW c \in Conns, attach_socket_bio(c)
  PROVE  IInv'
<1>1. /\ ssl[c] = "new" /\ SetSsl(c, "wired") /\ refs' = Add(refs, {Sock(c)})
      /\ UNCHANGED <<errq, local, kept>>
  BY DEF attach_socket_bio
<1>2. ssl'[c] = "wired"
  BY <1>1, OthersSame, Zenon DEF SetSsl, IInv
<1>3. Inside(c)' = Inside(c) \cup {Sock(c)} /\ {Sock(c)} \cap Inside(c) = {}
  BY <1>1, <1>2, OfOneConn, Zenon DEF Inside
<1>4. {Sock(c)} \in SUBSET {Sock(c), PeerCert(c)}
  OBVIOUS
<1> QED
  BY <1>1, <1>3, <1>4, GrowStep

LEMMA HandshakeStep ==
  ASSUME IInv, NEW c \in Conns, drive_handshake(c)
  PROVE  IInv'
<1>1. ssl[c] = "wired" /\ UNCHANGED <<errq, local, kept>>
  BY DEF drive_handshake
<1>2. CASE SetSsl(c, "plain") /\ UNCHANGED refs
  <2>1. ssl'[c] = "plain"
    BY <1>2, OthersSame, Zenon DEF SetSsl, IInv
  <2>2. Inside(c)' = Inside(c) \cup {} /\ {} \cap Inside(c) = {} /\ {} \in SUBSET {Sock(c), PeerCert(c)}
    BY <1>1, <2>1 DEF Inside
  <2>3. refs' = Add(refs, {})
    BY <1>2, TypeParts DEF Add, IInv, Sets
  <2> QED
    BY <1>1, <1>2, <2>2, <2>3, GrowStep
<1>3. CASE SetSsl(c, "certified") /\ refs' = Add(refs, {PeerCert(c)})
  <2>1. ssl'[c] = "certified"
    BY <1>3, OthersSame, Zenon DEF SetSsl, IInv
  <2>2. /\ Inside(c)' = Inside(c) \cup {PeerCert(c)} /\ {PeerCert(c)} \cap Inside(c) = {}
        /\ {PeerCert(c)} \in SUBSET {Sock(c), PeerCert(c)}
    BY <1>1, <2>1, OfOneConn DEF Inside
  <2> QED
    BY <1>1, <1>3, <2>2, GrowStep, SMTT(30)
<1> QED
  BY <1>2, <1>3 DEF drive_handshake

\* A look at the peer's certificate.
LEMMA LookStep ==
  ASSUME IInv, NEW c \in Conns, peer_certificate(c) \/ peer_certificate_end(c)
  PROVE  IInv'
<1>1. /\ ssl' = ssl /\ pc' = pc /\ kept' = kept /\ UNCHANGED <<side, loadVars, ok>> /\ errq' \in {errq, <<>>}
      /\ \/ ssl[c] = "certified" /\ PeerCert(c) \notin local /\ refs' = Add(refs, {PeerCert(c)})
              /\ local' = local \cup {PeerCert(c)}
         \/ PeerCert(c) \in local /\ refs' = Drop(refs, {PeerCert(c)}) /\ local' = local \ {PeerCert(c)}
  BY DEF peer_certificate, peer_certificate_end
<1>2. pc \in Using
  <2>1. CASE PeerCert(c) \in local
    <3>1. pc \in Building \cup Using \cup {"failed"}
      BY TypeParts DEF IInv, Shape
    <3>2. pc \notin Building
      BY <2>1, LocalParts, Distinct DEF IInv
    <3>3. pc # "failed"
      BY <2>1 DEF IInv, Control, Locals
    <3> QED
      BY <3>1, <3>2, <3>3
  <2>2. CASE ssl[c] = "certified"
    BY <2>2, ConnUsing, SMTT(30)
  <2> QED
    BY <1>1, <2>1, <2>2
<1>3. /\ Shared /\ Ctx # PeerCert(c) /\ PeerCert(c) \in Obj /\ Ctx \in Obj
      /\ refs \in [Obj -> Int] /\ local \subseteq Obj /\ kept \subseteq Obj
  BY <1>2, AtUsing, Distinct, InObj, TypeParts, SMTT(30) DEF IInv, Sets
<1>4. Live' = Live /\ \A o : Conn(o)' <=> Conn(o)
  BY <1>1 DEF Conn, Live, Inside
<1>5. Shared'
  <2>1. refs'[Ctx] = One(pc' = "built") + Cardinality(Live')
    BY <1>1, <1>3, <1>4, SMTT(30) DEF Shared, Add, Drop
  <2>2. ASSUME NEW o \in Obj \ {Ctx}
        PROVE  refs'[o] = One(o \in local') + One(o \in kept') + One(Conn(o)')
    <3>1. refs[o] = One(o \in local) + One(o \in kept) + One(Conn(o)) /\ refs[o] \in Int
      BY <1>3, SMTT(30) DEF Shared
    <3>2. CASE o = PeerCert(c)
      BY <1>1, <1>4, <3>1, <3>2, SMTT(30) DEF One, Add, Drop
    <3>3. CASE o # PeerCert(c)
      BY <1>1, <1>4, <3>1, <3>3, SMTT(30) DEF One, Add, Drop
    <3> QED
      BY <3>2, <3>3, SMTT(30)
  <2> QED
    BY <2>1, <2>2, SMTT(30) DEF Shared
<1>6. refs' \in [Obj -> Int] /\ local' \subseteq Obj
  BY <1>1, <1>3, SMTT(30) DEF Add, Drop
<1>7. \A o \in local' : \E d \in Conns : o = PeerCert(d) /\ ssl'[d] = "certified"
  BY <1>1, <1>2, AtUsing, SMTT(30)
<1>8. States' /\ (pc' = "dropped" /\ Live' = {} => kept' = {})
  BY <1>1, <1>4, TypeParts, SMTT(30) DEF IInv, States, Keeps, Kinds
<1> QED
  BY <1>1, <1>2, <1>5, <1>6, <1>7, <1>8, SameBuild

\* What goes with a reference to the context: everything that it keeps, if it is the last.
Last == IF refs[Ctx] = 1 THEN kept ELSE {}

LEMMA CtxFree ==
  ASSUME IInv, pc \in Using, NEW S, S \cap ({Ctx} \cup Parts) = {}
  PROVE  /\ SSL_CTX_free(Drop(refs, S)) \in [Obj -> Int]
         /\ SSL_CTX_free(Drop(refs, S))[Ctx] = refs[Ctx] - 1
         /\ \A o \in Obj \ {Ctx} : SSL_CTX_free(Drop(refs, S))[o] = refs[o] - One(o \in S) - One(o \in Last)
         /\ Kept(refs) = kept \ Last
<1>1. refs \in [Obj -> Int] /\ kept \subseteq Parts /\ Ctx \in Obj /\ Ctx \notin kept /\ Ctx \notin S
  BY AtUsing, InObj
<1>2. Drop(refs, S) \in [Obj -> Int] /\ Drop(refs, S)[Ctx] = refs[Ctx]
  BY <1>1 DEF Drop
<1>3. SSL_CTX_free(Drop(refs, S)) = Drop(Drop(refs, S), {Ctx} \cup Last)
  BY <1>2 DEF SSL_CTX_free, Last
<1>4. Last \cap S = {} /\ Last \subseteq kept
  BY <1>1 DEF Last
<1>5. \A o \in Obj \ {Ctx} : Drop(Drop(refs, S), {Ctx} \cup Last)[o] = refs[o] - One(o \in S) - One(o \in Last)
  BY <1>1, <1>4 DEF Drop, One
<1>6. Drop(Drop(refs, S), {Ctx} \cup Last)[Ctx] = refs[Ctx] - 1
  BY <1>1, <1>2 DEF Drop
<1>7. Drop(Drop(refs, S), {Ctx} \cup Last) \in [Obj -> Int]
  BY <1>2 DEF Drop
<1>8. Kept(refs) = kept \ Last
  BY DEF Kept, Last
<1> QED
  BY <1>3, <1>5, <1>6, <1>7, <1>8, Zenon

LEMMA DropConfigStep ==
  ASSUME IInv, drop_config
  PROVE  IInv'
<1>1. /\ pc = "built" /\ pc' = "dropped" /\ refs' = SSL_CTX_free(refs) /\ kept' = Kept(refs)
      /\ UNCHANGED <<side, loadVars, ok, errq, local, ssl>> /\ pc \in Using /\ pc' \in Using
  BY DEF drop_config, Using
<1>2. refs \in [Obj -> Int] /\ Shared
  BY <1>1, AtUsing
<1>3. Drop(refs, {}) = refs
  BY <1>2 DEF Drop
<1>4. /\ refs' \in [Obj -> Int] /\ refs'[Ctx] = refs[Ctx] - 1 /\ kept' = kept \ Last
      /\ \A o \in Obj \ {Ctx} : refs'[o] = refs[o] - One(o \in {}) - One(o \in Last)
  <2>1. {} \cap ({Ctx} \cup Parts) = {}
    OBVIOUS
  <2> QED
    BY <1>1, <1>3, <2>1, CtxFree
<1>5. Live' = Live /\ \A o : Conn(o)' <=> Conn(o)
  BY <1>1 DEF Conn, Live, Inside
<1>6. Shared'
  <2>1. refs'[Ctx] = One(pc' = "built") + Cardinality(Live')
    BY <1>1, <1>2, <1>4, <1>5, LiveFinite, SMTT(30) DEF Shared, One
  <2>2. ASSUME NEW o \in Obj \ {Ctx}
        PROVE  refs'[o] = One(o \in local') + One(o \in kept') + One(Conn(o)')
    <3>1. refs[o] = One(o \in local) + One(o \in kept) + One(Conn(o)) /\ refs[o] \in Int
      BY <1>2 DEF Shared
    <3>2. refs'[o] = refs[o] - One(o \in Last) /\ Last \subseteq kept
      BY <1>4, <3>1 DEF One, Last
    <3> QED
      <4>1. One(Conn(o)') = One(Conn(o)) /\ One(Conn(o)) \in Int
        BY <1>5 DEF One
      <4>2. One(o \in kept') = One(o \in kept) - One(o \in Last)
        BY <1>4, <3>2 DEF One
      <4>3. One(o \in local') = One(o \in local)
        BY <1>1, Zenon
      <4>4. One(o \in kept) \in Int /\ One(o \in local) \in Int /\ One(o \in Last) \in Int
        BY DEF One
      <4> QED
        BY <3>1, <3>2, <4>1, <4>2, <4>3, <4>4
  <2> QED
    BY <2>1, <2>2 DEF Shared
<1>7. Live' = {} => kept' = {}
  <2>1. ASSUME Live = {} PROVE kept' = {}
    <3>1. refs[Ctx] = 1
      BY <1>1, <1>2, <2>1, FS_EmptySet, SMTT(30) DEF Shared, One
    <3> QED
      BY <1>4, <3>1 DEF Last
  <2> QED
    BY <1>5, <2>1
<1>8. local' \subseteq Obj /\ kept' \subseteq kept /\ States'
  BY <1>1, <1>4, TypeParts DEF IInv, Sets, States
<1>9. \A o \in local' : \E d \in Conns : o = PeerCert(d) /\ ssl'[d] = "certified"
  BY <1>1, AtUsing, SMTT(30)
<1> QED
  BY <1>1, <1>4, <1>6, <1>7, <1>8, <1>9, SameBuild, SMTT(30)

LEMMA DropSslStep ==
  ASSUME IInv, NEW c \in Conns, drop_ssl(c)
  PROVE  IInv'
<1>1. /\ c \in Live /\ PeerCert(c) \notin local /\ refs' = SSL_CTX_free(Drop(refs, Inside(c)))
      /\ kept' = Kept(refs) /\ ssl' = [ssl EXCEPT ![c] = "gone"] /\ pc' = pc /\ local' = local
      /\ UNCHANGED <<side, loadVars, ok>> /\ errq' \in {errq, <<>>}
  BY DEF drop_ssl, SetSsl
<1>2. pc \in Using
  BY <1>1, ConnUsing DEF Live
<1>3. TypeOK /\ refs \in [Obj -> Int] /\ Shared /\ kept \subseteq Parts /\ local \subseteq Obj
  BY <1>2, AtUsing, TypeParts, SMTT(30) DEF IInv, Sets
<1>4. /\ refs' \in [Obj -> Int] /\ refs'[Ctx] = refs[Ctx] - 1 /\ kept' = kept \ Last
      /\ \A o \in Obj \ {Ctx} : refs'[o] = refs[o] - One(o \in Inside(c)) - One(o \in Last)
  <2>1. Inside(c) \cap ({Ctx} \cup Parts) = {}
    BY NotInside, SMTT(30)
  <2> QED
    BY <1>1, <1>2, <2>1, CtxFree
<1>5. c \notin Live' /\ Cardinality(Live') = Cardinality(Live) - 1
  BY <1>1, <1>3, OthersSame, LiveStep, Zenon
<1>6. Shared'
  <2>1. refs'[Ctx] = One(pc' = "built") + Cardinality(Live')
    BY <1>1, <1>3, <1>4, <1>5, LiveFinite DEF Shared, One
  <2>2. ASSUME NEW o \in Obj \ {Ctx}
        PROVE  refs'[o] = One(o \in local') + One(o \in kept') + One(Conn(o)')
    <3>1. refs[o] = One(o \in local) + One(o \in kept) + One(Conn(o)) /\ refs[o] \in Int
      BY <1>3, SMTT(30) DEF Shared
    <3>2. Last \subseteq kept /\ refs'[o] = refs[o] - One(o \in Inside(c)) - One(o \in Last)
      BY <1>4, SMTT(30) DEF Last
    <3>3. CASE o \in Inside(c)
      <4>1. Conn(o) /\ o \notin kept
        BY <1>1, <1>3, <3>3, NotInside DEF Conn
      <4>2. ~Conn(o)'
        BY <1>5, <3>3, ConnOwn, InsideIs, ZenonT(30)
      <4>3. One(Conn(o)) = 1 /\ One(Conn(o)') = 0 /\ One(o \in Inside(c)) = 1
        BY <3>3, <4>1, <4>2 DEF One
      <4>4. One(o \in Last) = 0 /\ One(o \in kept) = 0 /\ One(o \in kept') = 0
        BY <1>4, <3>2, <4>1 DEF One
      <4>5. One(o \in local') = One(o \in local) /\ One(o \in local) \in Int
        BY <1>1 DEF One
      <4> QED
        BY <3>1, <3>2, <4>3, <4>4, <4>5
    <3>4. CASE o \notin Inside(c)
      <4>1. Conn(o)' <=> Conn(o)
        <5>1. CASE o \in {Ssl(c), Sock(c), PeerCert(c)}
          BY <1>5, <3>4, <5>1, ConnOwn
        <5>2. CASE o \notin {Ssl(c), Sock(c), PeerCert(c)}
          BY <1>1, <1>3, <5>2, ConnOther, Zenon
        <5> QED
          BY <5>1, <5>2
      <4>2. One(Conn(o)') = One(Conn(o)) /\ One(Conn(o)) \in Int /\ One(o \in Inside(c)) = 0
        BY <3>4, <4>1 DEF One
      <4>3. One(o \in kept') = One(o \in kept) - One(o \in Last)
        BY <1>4, <3>2 DEF One
      <4>4. One(o \in local') = One(o \in local)
        BY <1>1, Zenon
      <4>5. One(o \in kept) \in Int /\ One(o \in local) \in Int /\ One(o \in Last) \in Int
        BY DEF One
      <4> QED
        BY <3>1, <3>2, <4>2, <4>3, <4>4, <4>5
    <3> QED
      BY <3>3, <3>4, SMTT(30)
  <2> QED
    BY <2>1, <2>2 DEF Shared
<1>7. pc' = "dropped" /\ Live' = {} => kept' = {}
  <2>1. ASSUME pc = "dropped", Live' = {} PROVE kept' = {}
    <3>1. refs[Ctx] = 1
      BY <1>3, <1>5, <2>1, FS_EmptySet, LiveFinite, SMTT(30) DEF Shared, One
    <3> QED
      BY <1>4, <3>1, SMTT(30) DEF Last
  <2> QED
    BY <1>1, <2>1
<1>8. \A o \in local' : \E d \in Conns : o = PeerCert(d) /\ ssl'[d] = "certified"
  BY <1>1, <1>2, LocalStep, Zenon
<1>9. States'
  BY <1>1, <1>3, StatesStep, Zenon
<1> QED
  BY <1>1, <1>2, <1>3, <1>4, <1>6, <1>7, <1>8, <1>9, SameBuild, SMTT(30)

-----------------------------------------------------------------------------
(* The theorems.                                                           *)

LEMMA UseInv ==
  ASSUME IInv, Use
  PROVE  IInv'
BY NewSslStep, AttachStep, HandshakeStep, LookStep, DropSslStep, DropConfigStep DEF Use

LEMMA InitInv ==
  ASSUME Init
  PROVE  IInv
<1> USE DEF Init
<1>1. Shape /\ Sized /\ Sets /\ States
  BY DEF Shape, Sized, Sets, States, Building, Quiet
<1>2. ok \in BOOLEAN
  BY Zenon
<1>3. TypeOK
  BY <1>1, <1>2, TypeParts, SMTT(30)
<1>4. Control /\ Kinds /\ Progress
  BY Zenon DEF Control, Locals, Jobs, Kinds, Progress, Quiet, Loading, Holding, Using, Building, None
<1>5. Counts
  <2>1. Live = {} /\ Cardinality({}) = 0
    BY FS_EmptySet DEF Live
  <2>2. \A o : Owners(o) = 0
    BY <2>1 DEF Owners, One
  <2> QED
    BY <2>2 DEF Counts
<1> QED
  BY <1>3, <1>4, <1>5, SMTT(30) DEF IInv, Keeps, NoResidue

LEMMA Stutters ==
  ASSUME IInv, UNCHANGED vars
  PROVE  IInv'
<1> USE DEF vars, loadVars
<1>1. Shape' /\ Sized' /\ Sets' /\ States' /\ ok' = ok
  BY TypeParts DEF IInv, Shape, Sized, Sets, States
<1>2. TypeOK'
  BY <1>1, TypeParts, SMTT(30) DEF IInv
<1>3. Locals' /\ Jobs'
  <2>1. Guarded' = Guarded /\ item' = item
    BY DEF Guarded, item, Item
  <2>2. Locals'
    BY <2>1, Zenon DEF IInv, Control, Locals
  <2>3. Jobs'
    BY Zenon DEF IInv, Control, Jobs
  <2> QED
    BY <2>2, <2>3
<1>4. Live' = Live
  BY DEF Live
<1>5. Kinds' /\ Progress'
  BY <1>4, ZenonT(30) DEF IInv, Keeps, Kinds, Progress, None, Done, Settled
<1>6. Counts'
  <2>1. \A o : Owners(o)' = Owners(o)
    BY DEF Owners, Live, Inside
  <2> QED
    BY <2>1 DEF IInv, Counts
<1> QED
  BY <1>2, <1>3, <1>5, <1>6, SMTT(30) DEF IInv, Control, Keeps, NoResidue

LEMMA StepInv ==
  ASSUME IInv, [Next]_vars
  PROVE  IInv'
BY LoadInv, UseInv, Stutters DEF Next

(* The invariant holds in every reachable state.                           *)
THEOREM Invariant == Spec => []IInv
<1>1. Init => IInv
  BY InitInv
<1>2. IInv /\ [Next]_vars => IInv'
  BY StepInv
<1> QED
  BY <1>1, <1>2, PTL DEF Spec

(* The state keeps its type, at every step of any build (Handles).         *)
THEOREM TypeCorrect == Spec => []TypeOK
<1>1. IInv => TypeOK
  BY DEF IInv
<1> QED
  BY <1>1, Invariant, PTL

LEMMA Counted ==
  ASSUME IInv, NEW o \in Obj
  PROVE  refs[o] \in Int /\ Owners(o) = refs[o]
BY TypeParts DEF IInv, Counts, Sets

(* Nothing leaks, whichever call of a loader fails and in whatever order   *)
(* the configuration and its connections are dropped (load_*, parse_*,     *)
(* BioGuard, install_alpn_wire, the Drop impls of ffi.rs).                 *)
THEOREM NoLeaks == Spec => []NothingLeaks
<1>1. IInv => NothingLeaks
  BY Counted DEF NothingLeaks
<1> QED
  BY <1>1, Invariant, PTL

(* Nothing is freed while somebody stands for it: no double free, and the  *)
(* ALPN list and the context outlive every connection.                     *)
THEOREM NoDangling == Spec => []NothingDangles
<1>1. IInv => NothingDangles
  BY Counted DEF NothingDangles
<1> QED
  BY <1>1, Invariant, PTL

(* The thread's error queue is left as it was found or empty: no call      *)
(* leaves an entry that the next failing call would report.                *)
THEOREM QueueClean == Spec => []NoResidue
<1>1. IInv => NoResidue
  BY DEF IInv
<1> QED
  BY <1>1, Invariant, PTL

-----------------------------------------------------------------------------
(* Whole bundles.                                                          *)

\* The entry queued last tells the end of a bundle from an object that does not parse.
LEMMA EofIsEnd ==
  ASSUME IInv, pem_eof_or_err(pem_errors).eof
  PROVE  pem_rest = {}
<1>1. errq \in Seq({"NO_START_LINE", "ASN1", "PEM_LIB", "SSL"})
  <2>1. CASE errq \in Stale
    BY <2>1, ConstantsAssumption
  <2>2. CASE errq = <<>>
    BY <2>2
  <2> QED
    BY <2>1, <2>2 DEF IInv, NoResidue
<1>2. SUFFICES ASSUME pem_rest # {} PROVE FALSE
  OBVIOUS
<1>3. pem_errors = errq \o <<"ASN1", "PEM_LIB">>
  BY <1>2 DEF pem_errors
<1>4. Len(errq \o <<"ASN1", "PEM_LIB">>) = Len(errq) + 2 /\ Len(errq) \in Nat
  BY <1>1
<1>5. (errq \o <<"ASN1", "PEM_LIB">>)[Len(errq) + 2] = "PEM_LIB"
  BY <1>1
<1>6. pem_errors # <<>> /\ pem_errors[Len(pem_errors)] = "PEM_LIB"
  BY <1>3, <1>4, <1>5, SMTT(30)
<1> QED
  BY <1>6, Zenon DEF pem_eof_or_err

\* What a loader has dealt with when it has come to the end of its input.
LEMMA WholeAtEnd ==
  ASSUME IInv, pc = "read", job \in {"chain", "roots"},
         \A i \in at..Len(input) : form = "pem" /\ input[i] = "other",
         form = "pem" => \E i \in 1..MaxItems : <<job, i>> \in kept
  PROVE  Whole
<1>1. /\ at \in Nat \ {0} /\ at <= Len(input) + 1 /\ Len(input) \in Nat /\ DOMAIN input = 1..Len(input)
      /\ Len(input) <= MaxItems /\ MaxItems \in Nat
  BY InputTypes, LenProperties DEF IInv
<1>2. Done = at - 1
  BY DEF Done
<1>3. /\ \A i \in 1..MaxItems : <<job, i>> \in kept => i <= at - 1 /\ input[i] = "good"
      /\ \A i \in 1..(at - 1) : Settled(i)
  BY <1>2, SMTT(30) DEF IInv, Keeps, Progress, Loading
<1>4. form \in {"pem", "der"} /\ (form = "der" => input # <<>>)
  BY DEF IInv, Control, Jobs, Keeps, Progress, Loading
<1>5. \A i \in 1..Len(input) : i \in 1..(at - 1) \/ i \in at..Len(input)
  BY <1>1
<1>6. \A i \in 1..Len(input) : <<job, i>> \in kept <=> input[i] = "good"
  <2>1. SUFFICES ASSUME NEW i \in 1..Len(input) PROVE <<job, i>> \in kept <=> input[i] = "good"
    OBVIOUS
  <2>2. <<job, i>> \in kept => input[i] = "good"
    BY <1>1, <1>3
  <2>3. input[i] = "good" => <<job, i>> \in kept
    BY <1>3, <1>5 DEF Settled
  <2> QED
    BY <2>2, <2>3
<1>7. \A i \in 1..Len(input) : input[i] # "bad" /\ (form = "der" => input[i] = "good")
  BY <1>3, <1>4, <1>5, Zenon DEF Settled
<1>8. InCtx # {}
  <2>1. CASE form = "pem"
    <3>1. PICK i \in 1..MaxItems : <<job, i>> \in kept
      BY <2>1
    <3>2. i \in 1..Len(input)
      BY <1>1, <1>3, <3>1, SMTT(30)
    <3> QED
      BY <1>1, <3>1, <3>2 DEF InCtx
  <2>2. CASE form = "der"
    <3>1. Len(input) # 0
      BY <1>4, <2>2, InputTypes, EmptySeq DEF IInv
    <3>2. 1 \in 1..Len(input)
      BY <1>1, <3>1
    <3> QED
      BY <1>1, <1>6, <1>7, <2>2, <3>2, Zenon DEF InCtx
  <2> QED
    BY <1>4, <2>1, <2>2
<1>9. InCtx = {i \in DOMAIN input : input[i] = "good"}
  BY <1>1, <1>6 DEF InCtx
<1> QED
  BY <1>1, <1>7, <1>8, <1>9, SMTT(30) DEF Whole

\* The readers return only at the end of their input.
LEMMA RestWhole ==
  ASSUME IInv, pc = "read", form = "pem", job \in {"chain", "roots"}, ~First, read_rest,
         pc' \notin {"install", "failed"}
  PROVE  Whole
<1>1. ~pem_good /\ pem_eof_or_err(pem_errors).eof /\ ~NoRoots
  BY Zenon DEF read_rest, read_next, Read, Fail, last_error
<1>2. pem_rest = {}
  BY <1>1, EofIsEnd
<1>3. \A i \in at..Len(input) : form = "pem" /\ input[i] = "other"
  BY <1>2 DEF pem_rest
<1>4. \E i \in 1..MaxItems : <<job, i>> \in kept
  BY <1>1 DEF First, NoRoots
<1> QED
  BY <1>3, <1>4, WholeAtEnd, SMTT(30)

LEMMA ParseWhole ==
  ASSUME IInv, pc = "read", form = "der", job \in {"chain", "roots"}, parse_x509,
         pc' \notin {"install", "trailing", "failed"}
  PROVE  Whole
<1>1. at > Len(input)
  BY DEF parse_x509, parse, Read, last_error, Reject, Fail
<1>2. \A i \in at..Len(input) : form = "pem" /\ input[i] = "other"
  BY <1>1, InputTypes DEF IInv
<1> QED
  BY <1>2, WholeAtEnd, SMTT(30)

LEMMA WholeStep ==
  ASSUME IInv, Next, pc = "read", pc' = After
  PROVE  Whole
<1>1. job \in {"chain", "key", "roots"} /\ side \in {"server", "client"} /\ pc \notin Using
  BY TypeParts DEF IInv, Shape, Control, Jobs, Loading, Using
<1>2. pc' \in {"key", "check", "alpn", "mtls"}
  BY <1>1 DEF After
<1>3. ~Use
  <2>1. \A c \in Conns : ssl[c] = "none"
    BY <1>1 DEF IInv, Control, Jobs
  <2>2. ~drop_config
    BY SMTT(30) DEF drop_config
  <2>3. ASSUME NEW c \in Conns
        PROVE  /\ ~new_ssl(c) /\ ~attach_socket_bio(c) /\ ~drive_handshake(c) /\ ~peer_certificate(c)
               /\ ~peer_certificate_end(c) /\ ~drop_ssl(c)
    BY <1>2, <2>1
    DEF new_ssl, attach_socket_bio, drive_handshake, peer_certificate, peer_certificate_end, drop_ssl, Live
  <2> QED
    BY <2>2, <2>3, SMTT(30) DEF Use
<1>4. Load
  BY <1>3 DEF Next
<1>5. CASE no_cert_store
  BY <1>2, <1>5 DEF no_cert_store, Reject, Fail
<1>6. ~read_first
  BY <1>2, SMTT(30) DEF read_first, read_next, Read, last_error, Fail
<1>7. ~parse
  BY <1>2 DEF parse, Read, last_error, Reject, Fail
<1>8. CASE load_cert_chain_pem \/ load_client_cert_chain_pem
  BY <1>2, <1>6, <1>8, RestWhole DEF load_cert_chain_pem, load_client_cert_chain_pem, Reading, read_chain
<1>9. CASE load_client_ca_roots_pem \/ load_trust_anchors_pem
  <2>1. job = "roots" /\ form = "pem" /\ read_rest /\ ~First
    BY <1>9 DEF load_client_ca_roots_pem, load_trust_anchors_pem, Reading, First
  <2> QED
    BY <1>2, <2>1, RestWhole
<1>10. CASE load_private_key_pem \/ load_client_private_key_pem
  BY <1>6, <1>10 DEF load_private_key_pem, load_client_private_key_pem
<1>11. CASE load_private_key_der \/ load_client_private_key_der
  BY <1>7, <1>11 DEF load_private_key_der, load_client_private_key_der, parse_private_key
<1>12. CASE load_cert_chain_der \/ load_client_cert_chain_der \/ load_trust_anchors_der
  <2>1. job \in {"chain", "roots"} /\ form = "der" /\ parse_x509
    BY <1>12, SMTT(30) DEF load_cert_chain_der, load_client_cert_chain_der, load_trust_anchors_der, Reading
  <2> QED
    BY <1>2, <2>1, ParseWhole
<1>13. /\ ~new_server_ctx /\ ~new_client_ctx /\ ~set_default_verify_paths /\ ~client_auth /\ ~private_key
       /\ ~path_to_cstring /\ ~use_certificate_chain_file /\ ~use_PrivateKey_file /\ ~open_input
       /\ ~trailing_data /\ ~install /\ ~free_local /\ ~check_private_key /\ ~settings /\ ~set_alpn
       /\ ~install_alpn_wire
  BY Zenon DEF new_server_ctx, new_client_ctx, set_default_verify_paths, client_auth, private_key, path_to_cstring,
         use_certificate_chain_file, use_PrivateKey_file, open_input, trailing_data, install, free_local,
         check_private_key, settings, set_alpn, install_alpn_wire
<1> QED
  BY <1>4, <1>5, <1>8, <1>9, <1>10, <1>11, <1>12, <1>13 DEF Load

(* A loader succeeds only with every certificate it was given, whatever an *)
(* earlier call has left on the error queue (load_*_pem, load_*_der,       *)
(* pem_eof_or_err).                                                        *)
THEOREM BundlesWhole == Spec => WholeBundle
<1>1. IInv /\ [Next]_vars => [(pc = "read" /\ pc' = After) => Whole]_vars
  BY WholeStep
<1> QED
  BY <1>1, Invariant, PTL DEF Spec, WholeBundle

=============================================================================
