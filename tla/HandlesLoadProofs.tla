------------------------- MODULE HandlesLoadProofs -------------------------
(***************************************************************************)
(* The inductive invariant of Handles, for bundles of any length, any      *)
(* number of connections and any queue the thread may come with, and that  *)
(* every step of a build preserves it (LoadInv).  HandlesProofs goes on    *)
(* with the connections and states the theorems.                           *)
(*                                                                         *)
(* The invariant has four parts: Control, which says for every step of a   *)
(* build what is being loaded and what the local variables hold; Keeps,    *)
(* which says what the context has been given so far; Counts, that every   *)
(* object has as many references as owners; and NoResidue.                 *)
(***************************************************************************)
EXTENDS Handles, FiniteSetTheorems, WellFoundedInduction, SequenceTheorems, TLAPS

-----------------------------------------------------------------------------
(* The invariant.                                                          *)

Quiet ==
  {"new", "system", "mtls", "paths", "chain_file", "key_file", "open", "key", "check", "settings", "alpn"}
Holding == {"install", "trailing", "free"}
Loading == {"open", "read"} \cup Holding
Using == {"built", "dropped"}
Building == Quiet \cup Loading \cup {"ex_data"}

\* What the guards of a loader stand for.
Guarded == IF form = "pem" THEN {Bio} ELSE {}

Locals ==
  /\ pc \in Quiet \cup {"failed"} => local = {}
  /\ pc = "read" => local = Guarded
  /\ pc \in Holding => local = Guarded \cup {item}
  /\ pc = "ex_data" => local = {Alpn}
  /\ pc \in Using => \A o \in local : \E c \in Conns : o = PeerCert(c) /\ ssl[c] = "certified"

Jobs ==
  /\ pc \in {"new", "system"} => job = "none"
  /\ pc \in {"system", "mtls"} => side = "client"
  /\ pc = "mtls" => job \in {"none", "roots"}
  /\ pc \in {"paths", "chain_file"} => side = "server" /\ job = "chain" /\ form = "file"
  /\ pc \in {"paths", "chain_file"} => at = 1
  /\ pc \in {"key_file", "check"} => job = "key"
  /\ pc = "key" => job = "chain" /\ form # "none"
  /\ pc = "settings" /\ side = "server" => job = "key"
  /\ pc \in Loading => job # "none" /\ form \in {"pem", "der"}
  /\ pc \in Loading \cup {"key_file"} /\ job = "key" => Len(input) = 1
  /\ pc \in Holding => at >= 2
  /\ pc \notin Using => ssl = [c \in Conns |-> "none"]

Control == Locals /\ Jobs

\* The context has got nothing of a kind.
None(j) == \A i \in 1..MaxItems : <<j, i>> \notin kept

\* How many items of the input have been dealt with.
Done == IF pc \in {"install", "trailing"} \/ (pc = "free" /\ ~ok) THEN at - 2 ELSE at - 1

\* Item i of the input, dealt with: passed over or in the context.
Settled(i) ==
  /\ input[i] # "bad" /\ (form = "der" => input[i] = "good")
  /\ input[i] = "good" => <<job, i>> \in kept

Kinds ==
  /\ kept \subseteq {Key, Alpn} \cup Certs
  /\ pc \in {"new", "failed"} => kept = {}
  /\ pc \in Building => Alpn \notin kept
  /\ pc \in Building /\ side = "client" /\ job \in {"none", "roots"} => Key \notin kept /\ None("chain")
  /\ pc \in Building /\ job = "chain" => Key \notin kept
  /\ pc \in Building /\ side = "server" /\ job # "roots" => None("roots")
  /\ pc \in {"key_file", "open", "read", "install", "trailing"} /\ job = "key" => Key \notin kept
  /\ pc = "free" /\ job = "key" => (Key \in kept <=> ok)
  /\ pc = "dropped" /\ Live = {} => kept = {}

Progress ==
  /\ pc \in Loading \cup {"paths", "chain_file"} /\ job # "key" =>
       /\ \A i \in 1..MaxItems : <<job, i>> \in kept => i <= Done /\ input[i] = "good"
       /\ \A i \in 1..Done : Settled(i)
  /\ pc \in {"install", "free"} /\ job # "key" => input[at - 1] = "good"
  /\ pc \in {"read"} \cup Holding /\ form = "der" /\ job # "key" => input # <<>>

Keeps == Kinds /\ Progress

Counts == \A o \in Obj : refs[o] = Owners(o)

IInv == TypeOK /\ Control /\ Keeps /\ Counts /\ NoResidue

\* TypeOK, in parts.
Shape ==
  /\ side \in {"server", "client"}
  /\ pc \in Building \cup Using \cup {"failed"}
  /\ job \in {"none", "chain", "key", "roots"} /\ form \in {"none", "pem", "der", "file"}
Sized == input \in Bundles \cup {<<>>} /\ at \in 1..(Len(input) + 1)
Sets == refs \in [Obj -> Int] /\ local \subseteq Obj /\ kept \subseteq Obj
States == ssl \in [Conns -> {"none", "new", "wired", "plain", "certified", "gone"}]

LEMMA TypeParts ==
  /\ TypeOK <=> Shape /\ Sized /\ Sets /\ States /\ ok \in BOOLEAN
  /\ TypeOK' <=> Shape' /\ Sized' /\ Sets' /\ States' /\ ok' \in BOOLEAN
BY Zenon DEF TypeOK, Shape, Sized, Sets, States, Building, Using, Quiet, Loading, Holding

-----------------------------------------------------------------------------
(* Objects.                                                                *)

Parts == {Key, Alpn} \cup Certs

\* The objects a connection owns are no others, and each belongs to one connection.
LEMMA Distinct ==
  /\ Ctx # Bio /\ Ctx \notin Parts /\ Bio \notin Parts /\ Key # Alpn
  /\ Key \notin Certs /\ Alpn \notin Certs
  /\ \A c : {Ssl(c), Sock(c), PeerCert(c)} \cap ({Ctx, Bio} \cup Parts) = {}
BY DEF Ctx, Bio, Key, Alpn, Certs, Parts, Ssl, Sock, PeerCert

LEMMA OfOneConn ==
  \A c, d :
    /\ Ssl(c) # Sock(d) /\ Ssl(c) # PeerCert(d) /\ Sock(c) # PeerCert(d)
    /\ (Ssl(c) = Ssl(d) => c = d) /\ (Sock(c) = Sock(d) => c = d) /\ (PeerCert(c) = PeerCert(d) => c = d)
BY DEF Ssl, Sock, PeerCert

LEMMA InObj ==
  /\ {Ctx, Bio} \cup Parts \subseteq Obj
  /\ \A c \in Conns : Ssl(c) \in Obj /\ Sock(c) \in Obj /\ PeerCert(c) \in Obj
BY DEF Obj, Parts, Ssl, Sock, PeerCert

LEMMA Items ==
  ASSUME NEW i \in 1..MaxItems, job \in {"chain", "roots"}
  PROVE  Item(i) = <<job, i>> /\ Item(i) \in Certs
BY DEF Item, Certs

\* While there are no connections, an object belongs to a local, the context, or is the
\* context.
Owned == pc \notin {"new", "failed", "dropped"}
Balance ==
  \A o \in Obj : refs[o] = One(o \in local) + One(o \in kept) + One(o = Ctx /\ Owned)

Plain == \A o \in Obj : refs[o] = One(o \in local) + One(o \in kept) + One(o = Ctx)

LEMMA Rebalance == (Owned => (Balance <=> Plain)) /\ (Owned' => (Balance' <=> Plain'))
BY DEF Balance, Plain

NoConns == [c \in Conns |-> "none"]

LEMMA Unconnected ==
  ASSUME ssl = NoConns, ssl' = NoConns
  PROVE  /\ Live = {} /\ Live' = {}
         /\ Counts <=> Balance
         /\ Counts' <=> Balance'
<1>1. Live = {} /\ Live' = {}
  BY DEF Live, NoConns
<1>2. Cardinality({}) = 0
  BY FS_EmptySet
<1>3. \A o : Owners(o) = One(o \in local) + One(o \in kept) + One(o = Ctx /\ Owned)
  BY <1>1, <1>2 DEF Owners, One, Owned
<1>4. \A o : Owners(o)' = One(o \in local') + One(o \in kept') + One(o = Ctx /\ Owned')
  BY <1>1, <1>2 DEF Owners, One, Owned
<1> QED
  BY <1>1, <1>3, <1>4 DEF Counts, Balance

-----------------------------------------------------------------------------
(* The ends of a step.                                                     *)

LEMMA InputTypes ==
  ASSUME TypeOK
  PROVE  /\ input \in Seq({"good", "bad", "other"}) /\ Len(input) \in 0..MaxItems
         /\ at \in 1..(MaxItems + 1) /\ at <= Len(input) + 1
         /\ MaxItems \in Nat
<1>1. input \in Seq({"good", "bad", "other"}) /\ Len(input) <= MaxItems /\ MaxItems \in Nat
  <2>1. CASE input \in Bundles
    BY <2>1, ConstantsAssumption
  <2>2. CASE input = <<>>
    BY <2>2, ConstantsAssumption
  <2> QED
    BY <2>1, <2>2 DEF TypeOK
<1>2. Len(input) \in Nat
  BY <1>1, LenProperties
<1> QED
  BY <1>1, <1>2 DEF TypeOK

LEMMA ItemIsPart ==
  ASSUME TypeOK, Control, pc \in Holding
  PROVE  item \in Parts
<1>1. job \in {"chain", "key", "roots"} /\ at - 1 \in 1..MaxItems
  BY InputTypes DEF Control, Jobs, TypeOK, Holding, Loading
<1>2. CASE job = "key"
  BY <1>2 DEF item, Item, Parts
<1>3. CASE job # "key"
  BY <1>1, <1>3, Items DEF item, Parts
<1> QED
  BY <1>2, <1>3

LEMMA LocalParts ==
  ASSUME TypeOK, Control, pc \in Building
  PROVE  local \subseteq {Bio} \cup Parts
<1>1. CASE pc \in Holding
  BY <1>1, ItemIsPart DEF Control, Locals, Guarded
<1>2. CASE pc = "ex_data"
  BY <1>2 DEF Control, Locals, Parts
<1>3. CASE pc \in Quiet \cup {"read"}
  BY <1>3 DEF Control, Locals, Guarded
<1> QED
  BY <1>1, <1>2, <1>3 DEF Building, Loading, Quiet

\* The steps of a build begin with one reference to the context, or none.
LEMMA OneCtx ==
  ASSUME IInv, pc \in Building \ {"new"}, ssl' = ssl
  PROVE  /\ ssl = NoConns /\ Live = {} /\ Live' = {} /\ Balance /\ Plain
         /\ Ctx \notin local /\ Ctx \notin kept /\ refs[Ctx] = 1
         /\ Counts' <=> Balance'
<1>1. ssl = NoConns
  BY DEF IInv, Control, Jobs, NoConns, Building, Quiet, Loading, Holding, Using
<1>2. Balance /\ Live = {} /\ Live' = {} /\ (Counts' <=> Balance')
  BY <1>1, Unconnected DEF IInv
<1>3. Ctx \notin local /\ Ctx \notin kept
  BY LocalParts, Distinct DEF IInv, Keeps, Kinds, Parts
<1>4. Owned
  BY DEF Owned, Building, Quiet, Loading, Holding
<1>5. refs[Ctx] = 1
  BY <1>2, <1>3, <1>4, InObj DEF Balance, One
<1> QED
  BY <1>1, <1>2, <1>3, <1>4, <1>5, Rebalance

\* A failed build frees all that it had.
LEMMA FailStep ==
  ASSUME IInv, pc \in Building \ {"new"}, NEW freed, local = freed \cup guards,
         NEW q \in Stale \cup {<<>>}, Fail(freed, q)
  PROVE  IInv'
<1>1. /\ ssl = NoConns /\ Live' = {} /\ Balance
      /\ Ctx \notin local /\ Ctx \notin kept /\ refs[Ctx] = 1
      /\ Counts' <=> Balance'
  BY OneCtx DEF Fail
<1>2. refs' = SSL_CTX_free(Drop(refs, local)) /\ kept' = {} /\ local' = {}
  BY <1>1 DEF Fail, Kept
<1>3. refs \in [Obj -> Int] /\ Ctx \in Obj
  BY InObj DEF IInv, TypeOK
<1>4. refs' = Drop(Drop(refs, local), {Ctx} \cup kept)
  BY <1>1, <1>2, <1>3 DEF SSL_CTX_free, Drop
<1>5. refs' = [o \in Obj |-> 0]
  <2>1. \A o \in Obj : refs[o] = One(o \in local) + One(o \in kept) + One(o = Ctx)
    BY <1>1 DEF Balance, Owned, Building, Quiet, Loading, Holding
  <2> QED
    BY <2>1, <1>1, <1>3, <1>4 DEF Drop, One
<1> DEFINE Rest ==
      /\ pc' = "failed" /\ errq' = q /\ ssl' = ssl /\ side' = side
      /\ job' = "none" /\ form' = "none" /\ input' = <<>> /\ at' = 1 /\ ok' = TRUE
<1>0. Rest
  BY DEF Fail
<1> HIDE DEF Rest
<1>6. Balance'
  <2>1. ~Owned' /\ local' = {} /\ kept' = {} /\ \A o \in Obj : refs'[o] = 0
    BY <1>0, <1>2, <1>5, Zenon DEF Owned, Rest
  <2> QED
    BY <2>1 DEF Balance, One
<1>7. TypeOK'
  <2>1. input' \in Bundles \cup {<<>>} /\ at' \in 1..(Len(input') + 1)
    BY <1>0 DEF Rest
  <2>2. refs' \in [Obj -> Int]
    BY <1>5
  <2>5. local' \subseteq Obj /\ kept' \subseteq Obj
    BY <1>2, Zenon
  <2>3. ok' \in BOOLEAN
    BY <1>0, Zenon DEF Rest
  <2>4. /\ side' \in {"server", "client"} /\ pc' = "failed" /\ job' = "none" /\ form' = "none"
        /\ ssl' \in [Conns -> {"none", "new", "wired", "plain", "certified", "gone"}]
    BY <1>0, Zenon DEF IInv, TypeOK, Rest
  <2> QED
    BY <2>1, <2>2, <2>3, <2>4, <2>5, Zenon DEF TypeOK
<1>8. Control'
  BY <1>0, <1>1, <1>2 DEF Control, Locals, Jobs, Quiet, Loading, Holding, Using, NoConns, Rest
<1>9. Keeps'
  BY <1>0, <1>2 DEF Keeps, Kinds, Progress, Building, Quiet, Loading, Holding, Rest
<1>10. NoResidue'
  BY <1>0 DEF NoResidue, Rest
<1> QED
  BY <1>1, <1>6, <1>7, <1>8, <1>9, <1>10 DEF IInv

-----------------------------------------------------------------------------
(* Steps of a build that change no count.                                  *)

\* Two steps of a build with nothing between them.
Follows(a, b) ==
  \/ <<a, b>> \in {<<"system", "mtls">>, <<"mtls", "settings">>, <<"paths", "chain_file">>,
                   <<"check", "settings">>, <<"settings", "alpn">>, <<"alpn", "built">>}
  \/ a = "open" /\ b = "read" /\ form = "der" /\ (job # "key" => input # <<>>)

LEMMA GotoStep ==
  ASSUME IInv, NEW step, Follows(pc, step), Goto(step)
  PROVE  IInv'
<1> USE DEF Goto, loadVars
<1>1. /\ ssl = NoConns /\ Balance
      /\ Counts' <=> Balance'
  BY OneCtx DEF Follows, Building, Quiet, Loading, Holding
<1>2. Balance'
  BY <1>1 DEF Balance, Owned, Follows
<1>3. TypeOK'
  <2>1. Shape' /\ Sized' /\ Sets' /\ States' /\ ok' = ok
    BY TypeParts DEF Shape, Sized, Sets, States, IInv, Follows, Building, Using, Quiet, Loading, Holding
  <2> QED
    BY <2>1, TypeParts DEF IInv
<1>4. Control'
  BY <1>1 DEF IInv, Control, Locals, Jobs, Quiet, Loading, Holding, Using, Follows, NoConns, Guarded
<1>5. Kinds'
  BY DEF IInv, Control, Jobs, Keeps, Kinds, Building, Quiet, Loading, Holding, Using, Follows, None
<1>6. Progress'
  BY DEF IInv, Control, Jobs, Keeps, Progress, Building, Quiet, Loading, Holding, Using, Follows, Done, Settled
<1> QED
  BY <1>1, <1>2, <1>3, <1>4, <1>5, <1>6 DEF IInv, Keeps, NoResidue

\* Where a loader begins.
Begins(j, f, step) ==
  \/ pc = "mtls" /\ j = "chain" /\ f \in {"pem", "der"} /\ step = "open"
  \/ pc = "key" /\ j = "key" /\ f = form /\ step = (IF form = "file" THEN "key_file" ELSE "open")
  \/ pc = "settings" /\ side = "server" /\ j = "roots" /\ f = "pem" /\ step = "open"

LEMMA BeginStep ==
  ASSUME IInv, NEW j, NEW f, NEW step, Begins(j, f, step), Begin(j, f, step),
         UNCHANGED <<side, ok, errq, refs, local, kept, ssl>>
  PROVE  IInv'
<1>1. /\ ssl = NoConns /\ Balance
      /\ Counts' <=> Balance'
  BY OneCtx DEF Begins, Building, Quiet, Loading, Holding
<1>2. /\ job' = j /\ form' = f /\ at' = 1 /\ pc' = step /\ input' \in Bundles
      /\ j = "key" => Len(input') = 1
  BY DEF Begin
<1>3. Balance'
  BY <1>1, <1>2 DEF Balance, Owned, Begins
<1>4. TypeOK'
  <2>1. Sized'
    <3>1. Len(input') \in Nat
      BY <1>2, ConstantsAssumption, LenProperties
    <3> QED
      BY <3>1, <1>2 DEF Sized
  <2>2. Shape' /\ Sets' /\ States' /\ ok' = ok
    BY <1>2, TypeParts DEF Shape, Sets, States, IInv, Begins, Building, Using, Quiet, Loading, Holding
  <2> QED
    BY <2>1, <2>2, TypeParts DEF IInv
<1>5. Control'
  BY <1>1, <1>2, TypeParts
  DEF IInv, Shape, Control, Locals, Jobs, Quiet, Loading, Holding, Using, Begins, NoConns, Guarded
<1>6. Kinds'
  BY <1>2, TypeParts DEF IInv, Shape, Control, Jobs, Keeps, Kinds, Building, Quiet, Loading, Holding, Using, Begins, None
<1>7. Progress'
  <2>1. j # "key" => \A i \in 1..MaxItems : <<j, i>> \notin kept
    BY TypeParts DEF IInv, Shape, Control, Jobs, Keeps, Kinds, Building, Quiet, Begins, None
  <2>2. Done' = 0
    BY <1>2 DEF Done, Begins
  <2> QED
    BY <1>2, <2>1, <2>2 DEF Progress, Holding, Begins
<1> QED
  BY <1>1, <1>3, <1>4, <1>5, <1>6, <1>7 DEF IInv, Keeps, NoResidue

-----------------------------------------------------------------------------
(* A build begins.                                                         *)

\* The first loader, or none.
Starts ==
  /\ \/ /\ side = "server"
        /\ \/ \E f \in {"pem", "der"} : Begin("chain", f, "open")
           \/ Begin("chain", "file", "paths")
     \/ side = "client" /\ \E f \in {"pem", "der"} : Begin("roots", f, "open")
     \/ side = "client" /\ pc' \in {"system", "mtls"} /\ UNCHANGED loadVars
  /\ NewCtx /\ UNCHANGED <<side, ok, errq, local, kept, ssl>>

LEMMA StartStep ==
  ASSUME IInv, pc = "new", Starts
  PROVE  IInv'
<1>1. /\ ssl = NoConns /\ ssl' = NoConns /\ local = {} /\ kept = {} /\ job = "none" /\ refs \in [Obj -> Int]
      /\ local' = {} /\ kept' = {} /\ UNCHANGED <<side, ok, errq>>
  BY TypeParts DEF IInv, Control, Locals, Jobs, Keeps, Kinds, Quiet, Using, NoConns, Starts, Sets
<1>2. Balance /\ (Counts' <=> Balance') /\ Live' = {}
  BY <1>1, Unconnected DEF IInv
<1>3. \/ /\ side = "server" /\ job' = "chain" /\ at' = 1 /\ input' \in Bundles
         /\ \/ pc' = "open" /\ form' \in {"pem", "der"}
            \/ pc' = "paths" /\ form' = "file"
      \/ side = "client" /\ job' = "roots" /\ at' = 1 /\ input' \in Bundles /\ pc' = "open" /\ form' \in {"pem", "der"}
      \/ side = "client" /\ pc' \in {"system", "mtls"} /\ UNCHANGED loadVars
  BY DEF Starts, Begin
<1>4. Balance'
  <2>1. \A o \in Obj : refs[o] = 0
    BY <1>1, <1>2 DEF Balance, Owned, One
  <2>2. \A o \in Obj : refs'[o] = One(o = Ctx)
    BY <2>1 DEF Starts, NewCtx, Add, One
  <2>3. Owned'
    BY <1>3 DEF Owned
  <2> QED
    BY <1>1, <2>2, <2>3 DEF Balance, One
<1>5. TypeOK'
  <2>1. Sized'
    <3>1. input' \in Bundles /\ at' = 1 => Sized'
      <4>1. input' \in Bundles => Len(input') \in Nat
        BY ConstantsAssumption, LenProperties
      <4> QED
        BY <4>1 DEF Sized
    <3>2. UNCHANGED loadVars => Sized'
      BY TypeParts DEF IInv, Sized, loadVars
    <3> QED
      BY <1>3, <3>1, <3>2
  <2>2. Shape'
    BY <1>1, <1>3, TypeParts DEF Shape, IInv, loadVars, Building, Using, Quiet, Loading, Holding
  <2>3. Sets' /\ States' /\ ok' = ok
    <3>1. refs' \in [Obj -> Int]
      BY <1>1 DEF Starts, NewCtx, Add
    <3> QED
      BY <3>1, <1>1, TypeParts DEF IInv, Sets, States
  <2> QED
    BY <2>1, <2>2, <2>3, TypeParts DEF IInv
<1>6. Control'
  BY <1>1, <1>3 DEF Control, Locals, Jobs, Quiet, Loading, Holding, Using, NoConns, Guarded, loadVars
<1>7. Kinds'
  BY <1>1, <1>3 DEF Kinds, None, Building, Quiet, Loading, Holding
<1>8. Progress'
  <2>1. pc' \in {"open", "paths"} => Done' = 0
    BY <1>3 DEF Done
  <2> QED
    BY <1>1, <1>3, <2>1 DEF Progress, Loading, Holding
<1> QED
  BY <1>1, <1>2, <1>4, <1>5, <1>6, <1>7, <1>8 DEF IInv, Keeps, NoResidue

LEMMA NoCtxStep ==
  ASSUME IInv, pc = "new", NoCtx, UNCHANGED <<side, ok, local, kept, ssl>>
  PROVE  IInv'
<1> USE DEF NoCtx, loadVars
<1>1. ssl = NoConns /\ local = {} /\ kept = {}
  BY DEF IInv, Control, Locals, Jobs, Keeps, Kinds, Quiet, Using, NoConns
<1>2. Balance /\ (Counts' <=> Balance')
  BY <1>1, Unconnected DEF IInv
<1>3. Balance'
  BY <1>2 DEF Balance, Owned
<1>4. Shape' /\ Sized' /\ Sets' /\ States' /\ ok' = ok
  BY TypeParts DEF Shape, Sized, Sets, States, IInv
<1>5. TypeOK'
  BY <1>4, TypeParts DEF IInv
<1>6. Control' /\ Keeps'
  BY <1>1 DEF Control, Locals, Jobs, Keeps, Kinds, Progress, Building, Quiet, Loading, Holding, Using, NoConns
<1> QED
  BY <1>2, <1>3, <1>5, <1>6 DEF IInv, NoResidue

-----------------------------------------------------------------------------
(* The steps of a loader.                                                  *)

LEMMA ReturnStep ==
  ASSUME IInv, pc \in {"read", "free"}, NEW freed, local = freed \cup guards,
         NEW q \in Stale \cup {<<>>}, Return(freed, q)
  PROVE  IInv'
<1>1. /\ ssl = NoConns /\ Balance /\ Ctx \notin local
      /\ Counts' <=> Balance'
  BY OneCtx DEF Return, Building, Quiet, Loading, Holding
<1>2. job \in {"chain", "key", "roots"} /\ side \in {"server", "client"} /\ form \in {"pem", "der"}
  BY TypeParts DEF IInv, Shape, Control, Jobs, Loading, Holding
<1>3. /\ \/ job = "chain" /\ pc' = "key"
         \/ job = "key" /\ pc' = "check"
         \/ job = "roots" /\ side = "server" /\ pc' = "alpn"
         \/ job = "roots" /\ side = "client" /\ pc' = "mtls"
      /\ job' = job /\ form' = form /\ side' = side /\ kept' = kept /\ ssl' = ssl
      /\ local' = {} /\ input' = <<>> /\ at' = 1 /\ errq' = q /\ refs' = Drop(refs, local)
  BY <1>2 DEF Return, After
<1>4. ok' \in BOOLEAN
  BY Zenon DEF Return
<1>5. Balance'
  <2>1. Owned /\ Owned'
    BY <1>3 DEF Owned
  <2>2. \A o \in Obj : refs'[o] = refs[o] - One(o \in local) /\ refs[o] \in Int
    BY <1>3, TypeParts DEF Drop, One, IInv, Sets
  <2>3. \A o \in Obj : refs'[o] = One(o \in kept) + One(o = Ctx)
    BY <1>1, <2>1, <2>2 DEF Balance, One
  <2>4. local' = {} /\ kept' = kept
    BY <1>3
  <2> QED
    BY <2>1, <2>3, <2>4 DEF Balance, One
<1>6. TypeOK'
  <2>1. Sized'
    BY <1>3 DEF Sized
  <2>2. Shape'
    BY <1>2, <1>3 DEF Shape, Building, Quiet
  <2>3. refs' \in [Obj -> Int]
    BY <1>3, TypeParts DEF Drop, IInv, Sets
  <2>4. Sets' /\ States'
    BY <1>3, <2>3, TypeParts, Zenon DEF IInv, Sets, States
  <2> QED
    BY <1>4, <2>1, <2>2, <2>4, TypeParts
<1>7. Control'
  BY <1>1, <1>2, <1>3 DEF Control, Locals, Jobs, Quiet, Loading, Holding, Using, NoConns
<1>8. Kinds'
  BY <1>2, <1>3 DEF IInv, Keeps, Kinds, None, Building, Quiet, Loading, Holding
<1>9. Progress'
  BY <1>3 DEF Progress, Loading, Holding
<1>10. NoResidue'
  BY <1>3 DEF NoResidue
<1> QED
  BY <1>1, <1>5, <1>6, <1>7, <1>8, <1>9, <1>10 DEF IInv, Keeps

\* BIO_new_mem_buf.
LEMMA OpenStep ==
  ASSUME IInv, pc = "open", form = "pem", pc' = "read", refs' = Add(refs, {Bio}), local' = {Bio},
         UNCHANGED <<side, loadVars, ok, errq, kept, ssl>>
  PROVE  IInv'
<1> USE DEF loadVars
<1>1. /\ ssl = NoConns /\ Balance /\ local = {} /\ Bio \notin kept /\ Bio # Ctx
      /\ Counts' <=> Balance'
  BY OneCtx, Distinct DEF Building, Quiet, Loading, Holding, IInv, Control, Locals, Keeps, Kinds, Parts
<1>2. Balance'
  BY <1>1, TypeParts DEF IInv, Sets, Balance, Owned, Add, One
<1>3. TypeOK'
  <2>1. refs' \in [Obj -> Int] /\ local' \subseteq Obj
    BY InObj, TypeParts DEF IInv, Sets, Add
  <2>2. Shape' /\ Sized' /\ Sets' /\ States' /\ ok' = ok
    BY <2>1, TypeParts, Zenon DEF IInv, Shape, Sized, Sets, States, Building, Loading
  <2> QED
    BY <2>2, TypeParts DEF IInv
<1>4. Control'
  BY <1>1 DEF IInv, Control, Locals, Jobs, Quiet, Loading, Holding, Using, NoConns, Guarded
<1>5. Kinds' /\ Progress'
  BY DEF IInv, Keeps, Kinds, Progress, Building, Quiet, Loading, Holding, None, Done, Settled
<1> QED
  BY <1>1, <1>2, <1>3, <1>4, <1>5, SMTT(30) DEF IInv, Keeps, NoResidue

\* A local gets an object that nobody had.
LEMMA Gains ==
  ASSUME Plain, refs \in [Obj -> Int], NEW x \in Obj, x \notin local, refs' = Add(refs, {x}),
         local' = local \cup {x}, kept' = kept, x \notin kept, x # Ctx
  PROVE  Plain' /\ refs' \in [Obj -> Int]
<1>1. ASSUME NEW o \in Obj
      PROVE  refs'[o] = One(o \in local') + One(o \in kept') + One(o = Ctx)
  <2>1. CASE o = x
    BY <2>1 DEF Plain, Add, One
  <2>2. CASE o # x
    BY <2>2 DEF Plain, Add, One
  <2> QED
    BY <2>1, <2>2
<1> QED
  BY <1>1 DEF Plain, Add

\* The object that is about to be read, or was, is not in the context.
LEMMA NotYet ==
  ASSUME IInv, pc \in Loading, job # "key", NEW i \in 1..MaxItems, i > Done
  PROVE  Item(i) \notin kept /\ Item(i) = <<job, i>>
<1>1. job \in {"chain", "roots"}
  BY TypeParts DEF IInv, Shape, Control, Jobs
<1>2. <<job, i>> \notin kept
  BY <1>1, InputTypes DEF IInv, Keeps, Progress, Done
<1> QED
  BY <1>1, <1>2, Items

\* The next object: what lies before it is passed over.
Nexts(i, step) ==
  /\ i \in at..Len(input) /\ step \in {"install", "trailing"}
  /\ step = "install" => input[i] = "good"
  /\ form = "der" => i = at
  /\ \A k \in at..(i - 1) : input[k] = "other"

LEMMA ReadStep ==
  ASSUME IInv, pc = "read", NEW i, NEW step, Nexts(i, step), Read(i, step)
  PROVE  IInv'
<1> USE DEF Read
<1>1. /\ ssl = NoConns /\ Balance
      /\ Counts' <=> Balance'
  BY OneCtx DEF Building, Quiet, Loading, Holding
<1>2. i \in 1..MaxItems /\ at \in Nat \ {0} /\ i >= at /\ i <= Len(input) /\ Len(input) \in Nat
  BY InputTypes DEF IInv, Nexts
<1>3. job \in {"chain", "key", "roots"} /\ form \in {"pem", "der"} /\ local = Guarded
  BY TypeParts DEF IInv, Shape, Control, Locals, Jobs, Loading
<1>4. Item(i) \in Parts /\ Item(i) \notin kept
  <2>1. CASE job = "key"
    BY <2>1 DEF Item, Parts, IInv, Keeps, Kinds
  <2>2. CASE job # "key"
    <3>1. i > Done
      BY <1>2 DEF Done
    <3> QED
      BY <2>2, <3>1, <1>2, <1>3, NotYet, Items DEF Parts, Loading
  <2> QED
    BY <2>1, <2>2
<1>5. Item(i) \in Obj /\ Item(i) # Ctx /\ Item(i) # Bio /\ Item(i) \notin local
  BY <1>3, <1>4, InObj, Distinct DEF Guarded
<1>6. Balance'
  <2>1. Plain /\ Owned'
    BY OneCtx DEF Owned, Nexts, Building, Loading
  <2>2. Plain'
    BY <1>4, <1>5, <2>1, Gains, TypeParts DEF IInv, Sets
  <2> QED
    BY <2>1, <2>2, Rebalance
<1>7. TypeOK'
  <2>1. refs' \in [Obj -> Int] /\ local' \subseteq Obj
    BY <1>5, TypeParts DEF IInv, Sets, Add
  <2>2. Sized'
    BY <1>2, TypeParts DEF IInv, Sized
  <2>3. Shape' /\ Sets' /\ States' /\ ok' = ok
    BY <2>1, TypeParts, Zenon DEF IInv, Shape, Sets, States, Building, Loading, Holding, Nexts
  <2> QED
    BY <2>2, <2>3, TypeParts DEF IInv
<1>8. item' = Item(i)
  BY <1>2 DEF item, Item
<1>9. Control'
  BY <1>1, <1>2, <1>3, <1>8 DEF IInv, Control, Locals, Jobs, Quiet, Loading, Holding, Using, NoConns, Guarded, Nexts
<1>10. Kinds'
  BY DEF IInv, Keeps, Kinds, Building, Quiet, Loading, Holding, None, Nexts
<1>11. Progress'
  <2> SUFFICES ASSUME job # "key"
               PROVE  Progress'
    BY DEF Progress
  <2>1. Done = at - 1 /\ Done' = i - 1
    BY <1>2 DEF Done, Nexts
  <2>2. /\ \A k \in 1..MaxItems : <<job, k>> \in kept => k <= at - 1 /\ input[k] = "good"
        /\ \A k \in 1..(at - 1) : Settled(k)
        /\ form = "der" => input # <<>>
    BY <2>1 DEF IInv, Keeps, Progress, Loading
  <2>3. \A k \in 1..(i - 1) : Settled(k)
    BY <1>2, <2>2 DEF Settled, Nexts
  <2>4. \A k : Settled(k)' <=> Settled(k)
    BY DEF Settled
  <2> QED
    BY <1>2, <2>1, <2>2, <2>3, <2>4 DEF Progress, Nexts
<1> QED
  BY <1>1, <1>6, <1>7, <1>9, <1>10, <1>11 DEF IInv, Keeps, NoResidue

\* The context takes a reference of its own, to any number of objects.
LEMMA Takes ==
  ASSUME Plain, refs \in [Obj -> Int], NEW X \in SUBSET Obj, X \cap kept = {}, refs' = Add(refs, X),
         local' = local, kept' = kept \cup X
  PROVE  Plain' /\ refs' \in [Obj -> Int]
<1>1. ASSUME NEW o \in Obj
      PROVE  refs'[o] = One(o \in local') + One(o \in kept') + One(o = Ctx)
  <2>1. CASE o \in X
    BY <2>1 DEF Plain, Add, One
  <2>2. CASE o \notin X
    BY <2>2 DEF Plain, Add, One
  <2> QED
    BY <2>1, <2>2
<1> QED
  BY <1>1 DEF Plain, Add

\* The context takes over the reference of a local.
LEMMA TakesOver ==
  ASSUME Plain, refs \in [Obj -> Int], NEW x \in local, x \notin kept, refs' = refs,
         local' = local \ {x}, kept' = kept \cup {x}
  PROVE  Plain'
<1>1. ASSUME NEW o \in Obj
      PROVE  refs'[o] = One(o \in local') + One(o \in kept') + One(o = Ctx)
  <2>1. CASE o = x
    BY <2>1 DEF Plain, One
  <2>2. CASE o # x
    BY <2>2 DEF Plain, One
  <2> QED
    BY <2>1, <2>2
<1> QED
  BY <1>1 DEF Plain

\* A local frees its object.
LEMMA Frees ==
  ASSUME Plain, refs \in [Obj -> Int], NEW x \in local, refs' = Drop(refs, {x}),
         local' = local \ {x}, kept' = kept
  PROVE  Plain' /\ refs' \in [Obj -> Int]
<1>1. ASSUME NEW o \in Obj
      PROVE  refs'[o] = One(o \in local') + One(o \in kept') + One(o = Ctx)
  <2>1. CASE o = x
    BY <2>1 DEF Plain, Drop, One
  <2>2. CASE o # x
    BY <2>2 DEF Plain, Drop, One
  <2> QED
    BY <2>1, <2>2
<1> QED
  BY <1>1 DEF Plain, Drop

\* What is known where an object has been read.
LEMMA AtHolding ==
  ASSUME IInv, pc \in Holding
  PROVE  /\ item \in Parts /\ item \in Obj /\ item \in local /\ item # Bio /\ item # Ctx
         /\ local = Guarded \cup {item}
         /\ at - 1 \in 1..Len(input) /\ at - 1 \in 1..MaxItems /\ at \in Nat
         /\ job # "key" => item = <<job, at - 1>> /\ job \in {"chain", "roots"}
         /\ job = "key" => item = Key
         /\ item # Alpn
         /\ \A j : j # job => \A k \in 1..MaxItems : <<j, k>> # item
         /\ pc = "install" => item \notin kept
<1>1. item \in Parts /\ local = Guarded \cup {item}
  BY ItemIsPart DEF IInv, Control, Locals
<1>2. at - 1 \in 1..Len(input) /\ at - 1 \in 1..MaxItems /\ at \in Nat
  BY InputTypes DEF IInv, Control, Jobs
<1>3. job \in {"chain", "key", "roots"}
  BY TypeParts DEF IInv, Shape, Control, Jobs, Loading, Holding
<1>4. job # "key" => item = <<job, at - 1>>
  BY <1>2, <1>3, Items DEF item
<1>5. job = "key" => item = Key
  BY DEF item, Item
<1>6. ASSUME pc = "install" PROVE item \notin kept
  <2>1. CASE job = "key"
    BY <1>5, <1>6, <2>1 DEF IInv, Keeps, Kinds
  <2>2. CASE job # "key"
    <3>1. at - 1 > Done
      BY <1>2, <1>6 DEF Done
    <3> QED
      BY <1>2, <2>2, <3>1, NotYet DEF item, Loading
  <2> QED
    BY <2>1, <2>2
<1>7. item # Alpn
  BY <1>2, <1>3, <1>5, Items, Distinct DEF item
<1>8. \A j : j # job => \A k \in 1..MaxItems : <<j, k>> # item
  <2>1. CASE job = "key"
    BY <1>5, <2>1 DEF Key
  <2>2. CASE job # "key"
    BY <1>4, <2>2
  <2> QED
    BY <2>1, <2>2
<1> QED
  BY <1>1, <1>2, <1>3, <1>4, <1>5, <1>6, <1>7, <1>8, InObj, Distinct, SMTT(30)

LEMMA TakeStep ==
  ASSUME IInv, pc = "install", ~add0, refs' = Add(refs, {item}), kept' = kept \cup {item},
         ok' = TRUE, pc' = "free", UNCHANGED <<local, side, loadVars, errq, ssl>>
  PROVE  IInv'
<1> USE DEF loadVars
<1>1. /\ ssl = NoConns /\ Plain
      /\ Counts' <=> Balance'
  BY OneCtx DEF Building, Quiet, Loading, Holding
<1>2. /\ item \in Parts /\ item \in Obj /\ item \notin kept /\ local = Guarded \cup {item} /\ item' = item
      /\ at - 1 \in 1..MaxItems /\ at \in Nat
      /\ job # "key" => item = <<job, at - 1>> /\ job \in {"chain", "roots"}
      /\ job = "key" => item = Key
      /\ item # Alpn
      /\ \A j : j # job => \A k \in 1..MaxItems : <<j, k>> # item
  BY AtHolding DEF Holding, item, Item
<1>3. Balance' /\ refs' \in [Obj -> Int]
  <2>1. {item} \in SUBSET Obj /\ {item} \cap kept = {} /\ refs \in [Obj -> Int]
    BY <1>2, TypeParts DEF IInv, Sets
  <2>2. Plain' /\ refs' \in [Obj -> Int]
    BY <1>1, <2>1, Takes
  <2> QED
    BY <2>2, Rebalance DEF Owned
<1>4. TypeOK'
  <2>1. ok' \in BOOLEAN
    BY Zenon
  <2>2. Shape' /\ Sized' /\ Sets' /\ States'
    BY <1>2, <1>3, TypeParts, Zenon DEF IInv, Shape, Sized, Sets, States, Building, Loading, Holding
  <2> QED
    BY <2>1, <2>2, TypeParts
<1>5. Control'
  BY <1>1, <1>2 DEF IInv, Control, Locals, Jobs, Quiet, Loading, Holding, Using, NoConns, Guarded
<1>6. Kinds'
  <2>1. kept' \subseteq {Key, Alpn} \cup Certs /\ Alpn \notin kept'
    BY <1>2, Distinct, TypeParts, Zenon DEF IInv, Keeps, Kinds, Parts, Building, Loading, Holding
  <2>2. \A j : j # job => (None(j)' <=> None(j))
    BY <1>2 DEF None
  <2>3. job # "key" => (Key \in kept' <=> Key \in kept)
    BY <1>2, Distinct, SMTT(30) DEF Certs
  <2> QED
    BY <1>2, <2>1, <2>2, <2>3, SMTT(30) DEF IInv, Keeps, Kinds, Building, Quiet, Loading, Holding
<1>7. Progress'
  <2> SUFFICES ASSUME job # "key"
               PROVE  Progress'
    BY DEF Progress
  <2>1. Done = at - 2 /\ Done' = at - 1
    BY <1>2 DEF Done
  <2>2. /\ \A k \in 1..MaxItems : <<job, k>> \in kept => k <= at - 2 /\ input[k] = "good"
        /\ \A k \in 1..(at - 2) : Settled(k)
        /\ input[at - 1] = "good"
        /\ form = "der" => input # <<>>
    BY <2>1 DEF IInv, Keeps, Progress, Loading, Holding
  <2>3. \A k \in 1..(at - 1) : Settled(k)'
    BY <1>2, <2>2 DEF Settled
  <2> QED
    BY <1>2, <2>1, <2>2, <2>3 DEF Progress
<1> QED
  BY <1>1, <1>3, <1>4, <1>5, <1>6, <1>7 DEF IInv, Keeps, NoResidue

LEMMA TakeOverStep ==
  ASSUME IInv, pc = "install", add0, kept' = kept \cup {item}, local' = local \ {item},
         ok' = TRUE, pc' = "read", UNCHANGED <<refs, side, loadVars, errq, ssl>>
  PROVE  IInv'
<1> USE DEF loadVars
<1>1. /\ ssl = NoConns /\ Plain
      /\ Counts' <=> Balance'
  BY OneCtx DEF Building, Quiet, Loading, Holding
<1>2. /\ item \in Parts /\ item \in Obj /\ item \notin kept /\ item \in local
      /\ local = Guarded \cup {item} /\ item # Bio /\ at - 1 \in 1..MaxItems /\ at \in Nat
      /\ job = "chain" /\ item = <<job, at - 1>> /\ item # Alpn
      /\ \A j : j # job => \A k \in 1..MaxItems : <<j, k>> # item
  BY AtHolding DEF Holding, add0
<1>3. Balance'
  <2>1. Plain'
    BY <1>1, <1>2, TakesOver, TypeParts DEF IInv, Sets
  <2> QED
    BY <2>1, Rebalance DEF Owned
<1>4. TypeOK'
  <2>1. ok' \in BOOLEAN
    BY Zenon
  <2>2. Shape' /\ Sized' /\ Sets' /\ States'
    BY <1>2, TypeParts, SMTT(30) DEF IInv, Shape, Sized, Sets, States, Building, Loading, Holding
  <2> QED
    BY <2>1, <2>2, TypeParts
<1>5. Control'
  <2>1. local' = Guarded
    BY <1>2, SMTT(30) DEF Guarded
  <2> QED
    BY <1>1, <1>2, <2>1 DEF IInv, Control, Locals, Jobs, Quiet, Loading, Holding, Using, NoConns, Guarded
<1>6. Kinds'
  <2>1. kept' \subseteq {Key, Alpn} \cup Certs /\ Alpn \notin kept'
    BY <1>2 DEF IInv, Keeps, Kinds, Parts, Building, Loading, Holding
  <2>2. \A j : j # job => (None(j)' <=> None(j))
    BY <1>2 DEF None
  <2>3. Key \in kept' <=> Key \in kept
    BY <1>2 DEF Key
  <2> QED
    BY <1>2, <2>1, <2>2, <2>3 DEF IInv, Keeps, Kinds, Building, Quiet, Loading, Holding
<1>7. Progress'
  <2>1. Done = at - 2 /\ Done' = at - 1
    BY <1>2 DEF Done
  <2>2. /\ \A k \in 1..MaxItems : <<job, k>> \in kept => k <= at - 2 /\ input[k] = "good"
        /\ \A k \in 1..(at - 2) : Settled(k)
        /\ input[at - 1] = "good"
        /\ form = "der" => input # <<>>
    BY <1>2, <2>1 DEF IInv, Keeps, Progress, Loading, Holding
  <2>3. \A k \in 1..(at - 1) : Settled(k)'
    <3>1. \A k \in 1..(at - 2) : Settled(k)'
      BY <2>2 DEF Settled
    <3>2. Settled(at - 1)'
      <4>1. <<job, at - 1>> \in kept' /\ input[at - 1] = "good" /\ input' = input /\ at' = at /\ job' = job
        BY <1>2, <2>2
      <4> QED
        BY <4>1 DEF Settled
    <3>3. \A k \in 1..(at - 1) : k \in 1..(at - 2) \/ k = at - 1
      BY <1>2
    <3> QED
      BY <3>1, <3>2, <3>3
  <2> QED
    BY <1>2, <2>1, <2>2, <2>3 DEF Progress
<1> QED
  BY <1>1, <1>3, <1>4, <1>5, <1>6, <1>7 DEF IInv, Keeps, NoResidue

LEMMA RefusedStep ==
  ASSUME IInv, pc = "install", ok' = FALSE, pc' = "free",
         UNCHANGED <<refs, local, kept, side, loadVars, errq, ssl>>
  PROVE  IInv'
<1> USE DEF loadVars
<1>1. /\ ssl = NoConns /\ Balance
      /\ Counts' <=> Balance'
  BY OneCtx DEF Building, Quiet, Loading, Holding
<1>2. Balance'
  BY <1>1 DEF Balance, Owned
<1>3. TypeOK'
  <2>1. ok' \in BOOLEAN
    BY Zenon
  <2>2. Shape' /\ Sized' /\ Sets' /\ States'
    BY TypeParts DEF IInv, Shape, Sized, Sets, States, Building, Loading, Holding
  <2> QED
    BY <2>1, <2>2, TypeParts
<1>4. Control'
  <2>1. item' = item
    BY DEF item, Item
  <2> QED
    BY <1>1, <2>1 DEF IInv, Control, Locals, Jobs, Quiet, Loading, Holding, Using, NoConns, Guarded
<1>5. Kinds'
  BY DEF IInv, Keeps, Kinds, Building, Quiet, Loading, Holding, None
<1>6. Progress'
  <2>1. Done' = Done
    BY DEF Done
  <2> QED
    BY <2>1 DEF IInv, Keeps, Progress, Loading, Holding, Settled
<1> QED
  BY <1>1, <1>2, <1>3, <1>4, <1>5, <1>6 DEF IInv, Keeps, NoResidue

LEMMA FreeStep ==
  ASSUME IInv, pc = "free", ok, job # "key", refs' = Drop(refs, {item}), local' = local \ {item},
         pc' = "read", UNCHANGED <<side, loadVars, ok, errq, kept, ssl>>
  PROVE  IInv'
<1> USE DEF loadVars
<1>1. /\ ssl = NoConns /\ Plain
      /\ Counts' <=> Balance'
  BY OneCtx DEF Building, Quiet, Loading, Holding
<1>2. /\ item \in local /\ local = Guarded \cup {item} /\ item # Bio
  BY AtHolding DEF Holding
<1>3. Balance' /\ refs' \in [Obj -> Int]
  <2>1. Plain' /\ refs' \in [Obj -> Int]
    BY <1>1, <1>2, Frees, TypeParts, Zenon DEF IInv, Sets
  <2> QED
    BY <2>1, Rebalance DEF Owned
<1>4. TypeOK'
  <2>1. Shape' /\ Sized' /\ Sets' /\ States' /\ ok' = ok
    BY <1>3, TypeParts, Zenon DEF IInv, Shape, Sized, Sets, States, Building, Loading, Holding
  <2> QED
    BY <2>1, TypeParts DEF IInv
<1>5. Control'
  <2>1. local' = Guarded
    BY <1>2, SMTT(30) DEF Guarded
  <2> QED
    BY <1>1, <2>1 DEF IInv, Control, Locals, Jobs, Quiet, Loading, Holding, Using, NoConns, Guarded
<1>6. Kinds'
  BY DEF IInv, Keeps, Kinds, Building, Quiet, Loading, Holding, None
<1>7. Progress'
  <2>1. Done' = Done
    BY DEF Done
  <2> QED
    BY <2>1 DEF IInv, Keeps, Progress, Loading, Holding, Settled
<1> QED
  BY <1>1, <1>3, <1>4, <1>5, <1>6, <1>7 DEF IInv, Keeps, NoResidue

-----------------------------------------------------------------------------
(* Files, and the ALPN list.                                               *)

LEMMA NoChainYet ==
  ASSUME IInv, pc = "chain_file"
  PROVE  \A i \in 1..MaxItems : <<"chain", i>> \notin kept
<1>1. job = "chain" /\ Done = 0
  BY DEF IInv, Control, Jobs, Done
<1>2. \A i \in 1..MaxItems : <<job, i>> \in kept => i <= 0
  BY <1>1 DEF IInv, Keeps, Progress
<1>3. \A i \in 1..MaxItems : ~(i <= 0)
  BY ConstantsAssumption
<1>4. \A i \in 1..MaxItems : <<job, i>> \notin kept
  BY <1>2, <1>3, ZenonT(30)
<1> QED
  BY <1>1, <1>4, Zenon

LEMMA ChainFileStep ==
  ASSUME IInv, pc = "chain_file",
         NEW all, all = {<<job, i>> : i \in {k \in DOMAIN input : input[k] = "good"}},
         refs' = Add(refs, all), kept' = kept \cup all,
         pc' = "key", input' = <<>>, at' = 1, UNCHANGED <<side, job, form, ok, errq, local, ssl>>
  PROVE  IInv'
<1>1. /\ ssl = NoConns /\ Plain
      /\ Counts' <=> Balance'
  BY OneCtx DEF Building, Quiet
<1>2. side = "server" /\ job = "chain" /\ form = "file" /\ at = 1 /\ local = {}
  BY DEF IInv, Control, Locals, Jobs, Quiet
<1>3. all \subseteq {"chain"} \X (1..MaxItems)
  <2>1. DOMAIN input = 1..Len(input) /\ Len(input) \in 0..MaxItems /\ MaxItems \in Nat
    BY InputTypes, LenProperties DEF IInv
  <2> QED
    BY <1>2, <2>1
<1>4. all \subseteq Certs /\ all \cap kept = {} /\ all \subseteq Obj
  <2>2. \A i \in 1..MaxItems : <<"chain", i>> \notin kept
    BY NoChainYet, Zenon
  <2> QED
    BY <1>3, <2>2, InObj DEF Certs, Parts
<1>5. Balance' /\ refs' \in [Obj -> Int]
  <2>1. Plain' /\ refs' \in [Obj -> Int]
    BY <1>1, <1>4, Takes, TypeParts DEF IInv, Sets
  <2> QED
    BY <2>1, Rebalance DEF Owned
<1>6. TypeOK'
  <2>1. Sized'
    BY DEF Sized
  <2>2. Shape' /\ Sets' /\ States' /\ ok' = ok
    BY <1>4, <1>5, TypeParts, SMTT(30) DEF IInv, Shape, Sets, States, Building, Quiet
  <2> QED
    BY <2>1, <2>2, TypeParts DEF IInv
<1>7. Control'
  BY <1>1, <1>2, SMTT(30) DEF IInv, Control, Locals, Jobs, Quiet, Loading, Holding, Using, NoConns
<1>8. Kinds'
  <2>1. kept' \subseteq {Key, Alpn} \cup Certs /\ Alpn \notin kept' /\ Key \notin kept'
    BY <1>2, <1>4, Distinct, SMTT(30) DEF IInv, Keeps, Kinds, Building, Quiet
  <2>2. None("roots")'
    BY <1>2, <1>3, Zenon DEF IInv, Keeps, Kinds, None, Building, Quiet
  <2> QED
    BY <1>2, <2>1, <2>2, SMTT(30) DEF Kinds
<1>9. Progress'
  BY DEF Progress, Loading, Holding
<1> QED
  BY <1>1, <1>5, <1>6, <1>7, <1>8, <1>9, SMTT(30) DEF IInv, Keeps, NoResidue

LEMMA KeyFileStep ==
  ASSUME IInv, pc = "key_file", refs' = Add(refs, {Key}), kept' = kept \cup {Key},
         pc' = "check", input' = <<>>, at' = 1, UNCHANGED <<side, job, form, ok, errq, local, ssl>>
  PROVE  IInv'
<1>1. /\ ssl = NoConns /\ Plain
      /\ Counts' <=> Balance'
  BY OneCtx, SMTT(30) DEF Building, Quiet
<1>2. job = "key" /\ local = {} /\ Key \notin kept
  BY DEF IInv, Control, Locals, Jobs, Quiet, Keeps, Kinds
<1>3. {Key} \in SUBSET Obj /\ {Key} \cap kept = {}
  BY <1>2, InObj DEF Parts
<1>4. Balance' /\ refs' \in [Obj -> Int]
  <2>1. Plain' /\ refs' \in [Obj -> Int]
    BY <1>1, <1>3, Takes, TypeParts, Zenon DEF IInv, Sets
  <2> QED
    BY <2>1, Rebalance, Zenon DEF Owned
<1>5. TypeOK'
  <2>1. Sized'
    BY DEF Sized
  <2>2. Shape' /\ Sets' /\ States' /\ ok' = ok
    BY <1>3, <1>4, TypeParts, Zenon DEF IInv, Shape, Sets, States, Building, Quiet
  <2> QED
    BY <2>1, <2>2, TypeParts DEF IInv
<1>6. Control'
  BY <1>1, <1>2 DEF IInv, Control, Locals, Jobs, Quiet, Loading, Holding, Using, NoConns
<1>7. Kinds'
  <2>1. kept' \subseteq {Key, Alpn} \cup Certs /\ Alpn \notin kept'
    BY Distinct DEF IInv, Keeps, Kinds, Building, Quiet
  <2>2. side = "server" => None("roots")'
    BY <1>2, Zenon DEF IInv, Keeps, Kinds, None, Building, Quiet, Key
  <2> QED
    BY <1>2, <2>1, <2>2 DEF Kinds
<1>8. Progress'
  BY DEF Progress, Loading, Holding
<1> QED
  BY <1>1, <1>4, <1>5, <1>6, <1>7, <1>8, SMTT(30) DEF IInv, Keeps, NoResidue

LEMMA BoxStep ==
  ASSUME IInv, pc = "alpn", pc' = "ex_data", refs' = Add(refs, {Alpn}), local' = {Alpn},
         UNCHANGED <<side, loadVars, ok, errq, kept, ssl>>
  PROVE  IInv'
<1> USE DEF loadVars
<1>1. /\ ssl = NoConns /\ Plain /\ local = {} /\ Alpn \notin kept /\ Alpn # Ctx /\ Alpn \in Obj
      /\ Counts' <=> Balance'
  BY OneCtx, InObj, Distinct, Zenon DEF Building, Quiet, IInv, Control, Locals, Keeps, Kinds, Parts
<1>2. Balance' /\ refs' \in [Obj -> Int]
  <2>1. local' = local \cup {Alpn} /\ Alpn \notin local
    BY <1>1
  <2>2. Plain' /\ refs' \in [Obj -> Int]
    BY <1>1, <2>1, Gains, TypeParts DEF IInv, Sets
  <2> QED
    BY <2>2, Rebalance DEF Owned
<1>3. TypeOK'
  <2>1. Shape' /\ Sized' /\ Sets' /\ States' /\ ok' = ok
    BY <1>1, <1>2, TypeParts, Zenon DEF IInv, Shape, Sized, Sets, States, Building
  <2> QED
    BY <2>1, TypeParts, SMTT(30) DEF IInv
<1>4. Control'
  BY <1>1 DEF Control, Locals, Jobs, Quiet, Loading, Holding, Using, NoConns
<1>5. Kinds' /\ Progress'
  BY Zenon DEF IInv, Keeps, Kinds, Progress, Building, Quiet, Loading, Holding, None
<1> QED
  BY <1>1, <1>2, <1>3, <1>4, <1>5, SMTT(30) DEF IInv, Keeps, NoResidue

LEMMA ExDataStep ==
  ASSUME IInv, pc = "ex_data", kept' = kept \cup {Alpn}, local' = {}, pc' = "built",
         UNCHANGED <<side, loadVars, ok, errq, refs, ssl>>
  PROVE  IInv'
<1> USE DEF loadVars
<1>1. /\ ssl = NoConns /\ Plain /\ local = {Alpn} /\ Alpn \notin kept /\ Alpn \in Obj
      /\ Counts' <=> Balance'
  BY OneCtx, InObj, Zenon DEF Building, IInv, Control, Locals, Keeps, Kinds, Parts
<1>2. Balance'
  <2>1. local' = local \ {Alpn} /\ Alpn \in local
    BY <1>1
  <2>2. Plain'
    BY <1>1, <2>1, TakesOver, TypeParts DEF IInv, Sets
  <2> QED
    BY <2>2, Rebalance DEF Owned
<1>3. TypeOK'
  <2>1. Shape' /\ Sized' /\ Sets' /\ States' /\ ok' = ok
    BY <1>1, TypeParts DEF IInv, Shape, Sized, Sets, States, Using
  <2> QED
    BY <2>1, TypeParts, SMTT(30) DEF IInv
<1>4. Control'
  BY <1>1, SMTT(30) DEF Control, Locals, Jobs, Quiet, Loading, Holding, Using, NoConns
<1>5. Kinds' /\ Progress'
  BY DEF IInv, Keeps, Kinds, Progress, Building, Quiet, Loading, Holding, None
<1> QED
  BY <1>1, <1>2, <1>3, <1>4, <1>5, SMTT(30) DEF IInv, Keeps, NoResidue

-----------------------------------------------------------------------------
(* The readers.                                                            *)

LEMMA AllFreed ==
  ASSUME IInv
  PROVE  /\ pc \in Quiet \cup {"read"} => local = {} \cup guards
         /\ pc \in Holding => local = {item} \cup guards
         /\ pc = "ex_data" => local = {Alpn} \cup guards
<1>1. CASE pc \in Quiet \cup {"read"}
  BY <1>1 DEF IInv, Control, Locals, Guarded, guards, Quiet, Holding
<1>2. CASE pc \in Holding
  BY <1>2, AtHolding DEF Guarded, guards, Quiet, Holding
<1>3. CASE pc = "ex_data"
  BY <1>3, Distinct DEF IInv, Control, Locals, guards, Parts, Quiet, Holding
<1> QED
  BY <1>1, <1>2, <1>3

\* A call that fails, in a step that holds nothing but its guards.
LEMMA Rejected ==
  ASSUME IInv, pc \in (Quiet \cup {"read"}) \ {"new"}, NEW q \in {errq, <<>>}, Fail({}, q)
  PROVE  IInv'
<1>1. pc \in Building \ {"new"} /\ q \in Stale \cup {<<>>}
  BY DEF IInv, NoResidue, Building, Loading
<1> QED
  BY <1>1, AllFreed, FailStep

LEMMA RejectedItem ==
  ASSUME IInv, pc \in Holding, NEW q \in {errq, <<>>}, Fail({item}, q)
  PROVE  IInv'
<1>1. pc \in Building \ {"new"} /\ q \in Stale \cup {<<>>}
  BY DEF IInv, NoResidue, Building, Loading, Holding
<1> QED
  BY <1>1, AllFreed, FailStep

\* PEM_read_bio_* comes to the first object left.
LEMMA PemNext ==
  ASSUME TypeOK, pem_rest # {}
  PROVE  pem_next \in pem_rest /\ \A k \in pem_rest : pem_next <= k
<1>1. pem_rest \subseteq Nat
  BY InputTypes DEF pem_rest
<1>2. PICK i \in pem_rest : \A k \in pem_rest : <<k, i>> \notin OpToRel(<, Nat)
  BY <1>1, NatLessThanWellFounded, WFMin, Zenon
<1>3. \A k \in pem_rest : ~(k < i)
  <2>1. OpToRel(<, Nat) = {ss \in Nat \X Nat : ss[1] < ss[2]}
    BY DEF OpToRel
  <2> QED
    BY <1>1, <1>2, <2>1, Zenon
<1>4. \A k \in pem_rest : i <= k
  BY <1>1, <1>3
<1> QED
  BY <1>4 DEF pem_next

LEMMA PemNexts ==
  ASSUME IInv, pc = "read", form = "pem", pem_good
  PROVE  Nexts(pem_next, "install")
<1>1. pem_next \in at..Len(input) /\ \A k \in pem_rest : pem_next <= k
  BY PemNext DEF IInv, pem_good, pem_rest
<1>2. at \in Nat /\ Len(input) \in Nat
  BY InputTypes DEF IInv
<1>3. \A k \in at..(pem_next - 1) : input[k] = "other"
  BY <1>1, <1>2 DEF pem_rest
<1> QED
  BY <1>1, <1>3 DEF Nexts, pem_good

LEMMA ReadNext ==
  ASSUME IInv, pc = "read", form = "pem"
  PROVE  (read_next => IInv') /\ (read_first => IInv')
<1>1. read_next => IInv'
  BY PemNexts, ReadStep DEF read_next
<1>2. last_error({}) => IInv'
  BY Rejected DEF last_error
<1> QED
  BY <1>1, <1>2 DEF read_first

LEMMA ReadRest ==
  ASSUME IInv, pc = "read", form = "pem", read_rest
  PROVE  IInv'
<1>1. CASE read_next
  BY <1>1, ReadNext
<1>2. last_error({}) => IInv'
  BY Rejected DEF last_error
<1>3. pem_eof_or_err(pem_errors).queue = <<>>
  BY DEF pem_eof_or_err
<1>4. Fail({}, <<>>) => IInv'
  BY Rejected
<1>5. Return({}, <<>>) => IInv'
  BY AllFreed, ReturnStep
<1> QED
  BY <1>1, <1>2, <1>3, <1>4, <1>5 DEF read_rest

LEMMA Parse ==
  ASSUME IInv, pc = "read", form = "der"
  PROVE  (parse => IInv') /\ (parse_x509 => IInv')
<1>1. last_error({}) \/ Reject({}) => IInv'
  BY Rejected DEF last_error, Reject
<1>2. at \in Nat /\ Len(input) \in Nat
  BY InputTypes DEF IInv
<1>3. ASSUME at <= Len(input), NEW step \in {"install", "trailing"}, step = "install" => input[at] = "good"
      PROVE  Nexts(at, step)
  BY <1>2, <1>3 DEF Nexts
<1>4. at <= Len(input) /\ input[at] = "good" /\ Read(at, "install") => IInv'
  BY <1>3, ReadStep
<1>5. at <= Len(input) /\ Read(at, "trailing") => IInv'
  BY <1>3, ReadStep
<1>6. errq \in Stale \cup {<<>>}
  BY DEF IInv, NoResidue
<1>7. Return({}, errq) => IInv'
  BY <1>6, AllFreed, ReturnStep
<1> QED
  BY <1>1, <1>4, <1>5, <1>7 DEF parse, parse_x509

LEMMA Loaders ==
  ASSUME IInv
  PROVE  /\ load_cert_chain_pem => IInv'
         /\ load_private_key_pem => IInv'
         /\ load_client_ca_roots_pem => IInv'
         /\ load_client_cert_chain_pem => IInv'
         /\ load_client_private_key_pem => IInv'
         /\ load_trust_anchors_pem => IInv'
         /\ load_cert_chain_der => IInv'
         /\ load_private_key_der => IInv'
         /\ load_client_cert_chain_der => IInv'
         /\ load_client_private_key_der => IInv'
         /\ load_trust_anchors_der => IInv'
BY ReadNext, ReadRest, Parse
DEF Reading, read_chain, parse_private_key, load_cert_chain_pem, load_private_key_pem, load_client_ca_roots_pem,
    load_client_cert_chain_pem, load_client_private_key_pem, load_trust_anchors_pem, load_cert_chain_der,
    load_private_key_der, load_client_cert_chain_der, load_client_private_key_der, load_trust_anchors_der

\* Every step of a build keeps the invariant.
LEMMA LoadInv ==
  ASSUME IInv, Load
  PROVE  IInv'
<1>1. pc \in (Quiet \cup {"read"}) \ {"new"} => (last_error({}) => IInv') /\ (Reject({}) => IInv') /\ (call_failed => IInv')
  BY Rejected DEF last_error, Reject, call_failed
<1>2. pc \in Holding => (last_error({item}) => IInv') /\ (Reject({item}) => IInv')
  BY RejectedItem DEF last_error, Reject
<1>3. CASE new_server_ctx
  BY <1>3, StartStep, NoCtxStep DEF new_server_ctx, Starts
<1>4. CASE new_client_ctx
  BY <1>4, StartStep, NoCtxStep DEF new_client_ctx, Starts
<1>5. CASE set_default_verify_paths
  BY <1>1, <1>5, GotoStep DEF set_default_verify_paths, Follows, Quiet
<1>6. CASE client_auth
  BY <1>6, GotoStep, BeginStep DEF client_auth, Follows, Begins
<1>7. CASE private_key
  BY <1>7, BeginStep DEF private_key, Begins
<1>8. CASE path_to_cstring
  BY <1>1, <1>8, GotoStep, SMTT(30) DEF path_to_cstring, Follows, Quiet
<1>9. CASE use_certificate_chain_file
  BY <1>1, <1>9, ChainFileStep DEF use_certificate_chain_file, Quiet
<1>10. CASE use_PrivateKey_file
  BY <1>1, <1>10, KeyFileStep DEF use_PrivateKey_file, Quiet
<1>11. CASE open_input
  BY <1>1, <1>11, OpenStep, GotoStep DEF open_input, Follows, Quiet
<1>12. CASE no_cert_store
  BY <1>1, <1>12 DEF no_cert_store, Quiet
<1>13. CASE trailing_data
  BY <1>2, <1>13 DEF trailing_data, Holding
<1>14. CASE install
  BY <1>14, TakeStep, TakeOverStep, RefusedStep, Zenon DEF install
<1>15. CASE free_local
  <2>1. CASE ok /\ job # "key" /\ refs' = Drop(refs, {item})
    BY <1>15, <2>1, FreeStep, Zenon DEF free_local, Return
  <2>2. errq \in Stale \cup {<<>>}
    BY DEF IInv, NoResidue
  <2>3. pc = "free" /\ Return({item}, errq) => IInv'
    BY <2>2, AllFreed, ReturnStep DEF Holding
  <2>4. pc = "free" /\ last_error({item}) => IInv'
    BY <1>2 DEF Holding
  <2> QED
    BY <1>15, <2>1, <2>3, <2>4 DEF free_local
<1>16. CASE check_private_key
  BY <1>1, <1>16, GotoStep DEF check_private_key, Follows, Quiet
<1>17. CASE settings
  BY <1>1, <1>17, GotoStep, BeginStep, SMTT(30) DEF settings, Follows, Begins, Quiet
<1>18. CASE set_alpn
  BY <1>1, <1>18, GotoStep, BoxStep DEF set_alpn, Follows, Quiet
<1>19. CASE install_alpn_wire
  <2>1. pc = "ex_data" /\ last_error({Alpn}) => IInv'
    BY AllFreed, FailStep DEF last_error, Building, Quiet, Loading, Holding
  <2> QED
    BY <1>19, <2>1, ExDataStep DEF install_alpn_wire
<1> QED
  BY <1>3, <1>4, <1>5, <1>6, <1>7, <1>8, <1>9, <1>10, <1>11, <1>12, <1>13, <1>14, <1>15, <1>16, <1>17,
     <1>18, <1>19, Loaders DEF Load

=============================================================================
