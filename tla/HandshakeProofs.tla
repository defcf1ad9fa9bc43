-------------------------- MODULE HandshakeProofs --------------------------
(***************************************************************************)
(* Theorems about Handshake, for every pair of scripts, every size of the  *)
(* socket's buffers, any readiness a socket is handed over with and every  *)
(* combination of faults.                                                  *)
(*                                                                         *)
(* The invariant says of a task in readable().await or writable().await    *)
(* that work is announced by a set bit or an edge to come, that it sleeps  *)
(* only with its waker in tokio's hands, and that room it waits for will   *)
(* be announced.                                                           *)
(***************************************************************************)
EXTENDS Handshake, SequenceTheorems, TLAPS

-----------------------------------------------------------------------------
(* The invariant.                                                          *)

Types == TypeOK /\ chan \in [Role -> Seq({"msg", "alert"})]

\* The direction a task waits for.
Awaited(e) == <<e, want[e]>>

\* There is something for e to do.
Work(e) ==
  closed[Peer(e)] \/ (IF want[e] = "read" THEN chan[e] # <<>> ELSE Len(chan[Peer(e)]) < SndMessages)

Announced(e) == ready[Awaited(e)] \/ edge[Awaited(e)]
Asleep(e) == driver = "up" /\ armed[Awaited(e)] /\ (ready[Awaited(e)] => waking[Awaited(e)])

Waits(e) ==
  /\ pc[e] \in {"await", "clear"} => want[e] \in {"read", "write"}
  /\ pc[e] = "await" /\ Work(e) => Announced(e)
  /\ pc[e] = "await" /\ ~woken[e] => Asleep(e)
  /\ pc[e] = "await" /\ want[e] = "write" /\ ~Work(e) => nospace[e]

IInv == Types /\ \A e \in Role : Waits(e)

-----------------------------------------------------------------------------
(* Facts about the parts.                                                  *)

LEMMA Steps == then("want") = "await" /\ then("await") = "clear" /\ then("clear") = "handshake"
BY DEF then

LEMMA Peers ==
  ASSUME NEW e \in Role
  PROVE  /\ Peer(e) \in Role /\ Peer(e) # e /\ Peer(Peer(e)) = e
         /\ \A f \in Role : f = e \/ f = Peer(e)
BY DEF Role, Peer

LEMMA Dirs ==
  ASSUME NEW e \in Role, NEW w
  PROVE  /\ w \in {"read", "write"} => <<e, w>> \in Dir
         /\ \A f, v : <<f, v>> = <<e, w>> => f = e /\ v = w
BY DEF Dir

LEMMA Tails ==
  ASSUME NEW s \in Seq({"msg", "alert"}), s # <<>>
  PROVE  Tail(s) \in Seq({"msg", "alert"}) /\ Len(Tail(s)) = Len(s) - 1 /\ Len(s) \in Nat
BY HeadTailProperties

LEMMA InitInv == Init => IInv
<1> SUFFICES ASSUME Init PROVE IInv
  OBVIOUS
<1>1. Types
  BY ConstantsAssumption DEF Init, Types, TypeOK, Tokio!TokioInit, Tokio!TokioOK, Role
<1>2. \A e \in Role : Waits(e)
  BY DEF Init, Waits
<1> QED
  BY <1>1, <1>2 DEF IInv

-----------------------------------------------------------------------------
(* An endpoint that gives up closes its socket, which tells its peer.      *)

LEMMA FailTypes ==
  ASSUME Types, NEW a \in Role, Fail(a)
  PROVE  /\ pc' \in [Role -> {"start", "handshake", "await", "clear", "done", "failed"}]
         /\ want' \in [Role -> {"none", "read", "write"}] /\ woken' \in [Role -> BOOLEAN]
         /\ closed' \in [Role -> BOOLEAN] /\ Tokio!TokioOK'
<1>1. Tokio!TokioOK'
  BY DEF Fail, Types, TypeOK, Tokio!TokioOK, Tokio!Edge
<1> QED
  BY <1>1 DEF Fail, Goto, Types, TypeOK

LEMMA FailWaits ==
  ASSUME IInv, NEW a \in Role, Fail(a), NEW e \in Role
  PROVE  Waits(e)'
<1>1. CASE e = a
  <2>1. pc'[a] = "failed"
    BY DEF Fail, Goto, IInv, Types, TypeOK
  <2> QED
    BY <1>1, <2>1 DEF Waits
<1>2. CASE e = Peer(a)
  <2>1. /\ e # a /\ Peer(e) = a
    BY <1>2, Peers
  <2>2. /\ pc'[e] = pc[e] /\ want'[e] = want[e] /\ woken'[e] = woken[e] /\ closed'[a]
        /\ UNCHANGED <<ready, armed, waking, driver>>
    BY <2>1 DEF Fail, Goto, Tokio!Edge, IInv, Types, TypeOK
  <2>3. Waits(e)
    BY DEF IInv
  <2>4. Work(e)'
    BY <2>1, <2>2 DEF Work
  <2>5. pc[e] = "await" => edge'[Awaited(e)]
    <3>1. want[e] \in {"read", "write"} => Awaited(e) \in {<<Peer(a), "read">>, <<Peer(a), "write">>}
      BY <1>2 DEF Awaited
    <3> QED
      BY <2>3, <3>1, Dirs DEF Waits, Awaited, Fail, Tokio!Edge
  <2>6. Awaited(e)' = Awaited(e)
    BY <2>2 DEF Awaited
  <2>7. Asleep(e) => Asleep(e)'
    BY <2>2, <2>6 DEF Asleep
  <2>8. pc[e] = "await" => Announced(e)'
    BY <2>5, <2>6 DEF Announced
  <2> QED
    BY <2>2, <2>3, <2>4, <2>7, <2>8, Zenon DEF Waits
<1> QED
  BY <1>1, <1>2, Peers

(* One that waits has just found nothing to do.                            *)
LEMMA WantWaits ==
  ASSUME IInv, NEW a \in Role, NEW w \in {"read", "write"}, ssl_error_want(a, w),
         UNCHANGED <<chan, closed>>, ~(Work(a)'), w = "write" => nospace'[a],
         NEW e \in Role, nospace'[Peer(a)] = nospace[Peer(a)]
  PROVE  Waits(e)'
<1>1. /\ pc'[a] = "await" /\ want'[a] = w /\ woken'[a]
      /\ UNCHANGED <<ready, edge, armed, waking, driver>>
  BY Steps DEF ssl_error_want, Goto, tokioVars, IInv, Types, TypeOK
<1>2. CASE e = a
  BY <1>1, <1>2 DEF Waits
<1>3. CASE e = Peer(a)
  <2>1. /\ e # a /\ Peer(e) = a
    BY <1>3, Peers
  <2>2. /\ pc'[e] = pc[e] /\ want'[e] = want[e] /\ woken'[e] = woken[e]
    BY <2>1 DEF ssl_error_want, Goto, IInv, Types, TypeOK
  <2>3. Waits(e)
    BY DEF IInv
  <2>4. (Work(e)' <=> Work(e)) /\ (Announced(e)' <=> Announced(e)) /\ (Asleep(e)' <=> Asleep(e))
    BY <1>1, <2>2 DEF Work, Announced, Asleep, Awaited
  <2> QED
    BY <1>3, <2>2, <2>3, <2>4, Zenon DEF Waits
<1> QED
  BY <1>2, <1>3, Peers

(* A step of one endpoint that the other does not see.                     *)
LEMMA Unseen ==
  ASSUME IInv, NEW a \in Role, NEW e \in Role, e # a, UNCHANGED <<sockVars, edge, waking, driver>>,
         pc'[e] = pc[e], want'[e] = want[e], woken'[e] = woken[e],
         \A w : ready'[<<e, w>>] = ready[<<e, w>>] /\ armed'[<<e, w>>] = armed[<<e, w>>]
  PROVE  Waits(e)'
<1>1. Waits(e)
  BY DEF IInv
<1>2. (Work(e)' <=> Work(e)) /\ (Announced(e)' <=> Announced(e)) /\ (Asleep(e)' <=> Asleep(e))
  BY DEF Work, Announced, Asleep, Awaited, sockVars
<1> QED
  BY <1>1, <1>2, Zenon DEF Waits, sockVars

LEMMA StartStep ==
  ASSUME IInv, NEW a \in Role, UNCHANGED <<script, at, chan, nospace>>,
         \/ Goto(a, "handshake") /\ UNCHANGED <<want, woken, closed, tokioVars>>
         \/ Fail(a)
  PROVE  IInv'
<1>1. CASE Goto(a, "handshake") /\ UNCHANGED <<want, woken, closed, tokioVars>>
  <2>1. Types'
    BY <1>1 DEF IInv, Types, TypeOK, Goto, tokioVars, Tokio!TokioOK
  <2>2. ASSUME NEW e \in Role, e # a PROVE Waits(e)'
    BY <1>1, <2>2, Unseen DEF Goto, tokioVars, sockVars
  <2>3. Waits(a)'
    BY <1>1 DEF Waits, Goto, IInv, Types, TypeOK
  <2> QED
    BY <2>1, <2>2, <2>3 DEF IInv
<1>2. CASE Fail(a)
  <2>1. Types'
    BY <1>2, FailTypes DEF IInv, Types, TypeOK
  <2> QED
    BY <1>2, <2>1, FailWaits DEF IInv
<1> QED
  BY <1>1, <1>2

LEMMA AwaitStep ==
  ASSUME IInv, NEW a \in Role, await(a)
  PROVE  IInv'
<1> DEFINE d == <<a, want[a]>>
<1>1. /\ UNCHANGED <<script, at, chan, nospace>> /\ pc[a] = "await" /\ d \in Dir /\ Waits(a) /\ Types
  BY Dirs DEF await, IInv, Waits
<1>2. CASE Fail(a)
  BY <1>1, <1>2, StartStep
<1>3. CASE driver = "up" /\ ready[d] /\ Goto(a, then("await")) /\ UNCHANGED <<want, woken, closed, tokioVars>>
  <2>1. Types'
    BY <1>1, <1>3, Steps DEF Types, TypeOK, Goto, tokioVars, Tokio!TokioOK
  <2>2. ASSUME NEW e \in Role, e # a PROVE Waits(e)'
    BY <1>1, <1>3, <2>2, Unseen DEF Goto, tokioVars, sockVars
  <2>3. Waits(a)'
    BY <1>1, <1>3, Steps DEF Waits, Goto, Types, TypeOK
  <2> QED
    BY <2>1, <2>2, <2>3 DEF IInv
<1>4. CASE /\ driver = "up" /\ ~ready[d] /\ woken' = [woken EXCEPT ![a] = FALSE] /\ Tokio!Arm(d)
           /\ UNCHANGED <<pc, want, closed>>
  <2>1. Types'
    BY <1>1, <1>4 DEF Types, TypeOK, Tokio!Arm, Tokio!TokioOK
  <2>2. ASSUME NEW e \in Role, e # a PROVE Waits(e)'
    <3>1. \A w : armed'[<<e, w>>] = armed[<<e, w>>]
      BY <1>1, <1>4, <2>2 DEF Tokio!Arm, Types, TypeOK, Tokio!TokioOK, Dir
    <3>2. /\ UNCHANGED <<sockVars, ready, edge, waking, driver>>
          /\ pc'[e] = pc[e] /\ want'[e] = want[e] /\ woken'[e] = woken[e]
      BY <1>1, <1>4, <2>2 DEF sockVars, Tokio!Arm
    <3> QED
      BY <2>2, <3>1, <3>2, Unseen, Zenon
  <2>3. Waits(a)'
    <3>1. /\ (Work(a)' <=> Work(a)) /\ (Announced(a)' <=> Announced(a)) /\ Awaited(a)' = d
          /\ pc'[a] = "await" /\ want'[a] = want[a]
      BY <1>1, <1>4 DEF Work, Announced, Awaited, Tokio!Arm
    <3>2. Asleep(a)'
      BY <1>1, <1>4, <3>1 DEF Asleep, Tokio!Arm, Types, TypeOK, Tokio!TokioOK
    <3> QED
      BY <1>1, <3>1, <3>2, Zenon DEF Waits
  <2> QED
    BY <2>1, <2>2, <2>3 DEF IInv
<1> QED
  BY <1>2, <1>3, <1>4 DEF await

LEMMA ClearStep ==
  ASSUME IInv, NEW a \in Role, clear_ready(a)
  PROVE  IInv'
<1>1. <<a, want[a]>> \in Dir /\ Types
  BY Dirs DEF clear_ready, IInv, Waits
<1>2. Types'
  BY <1>1, Steps DEF Types, TypeOK, Goto, clear_ready, Tokio!TokioOK, sockVars
<1>3. ASSUME NEW e \in Role, e # a PROVE Waits(e)'
  <2>1. \A w : ready'[<<e, w>>] = ready[<<e, w>>]
    BY <1>1, <1>3 DEF clear_ready, Types, TypeOK, Tokio!TokioOK, Dir
  <2>2. /\ UNCHANGED <<sockVars, armed, edge, waking, driver>>
        /\ pc'[e] = pc[e] /\ want'[e] = want[e] /\ woken'[e] = woken[e]
    BY <1>1, <1>3 DEF sockVars, clear_ready, Goto, Types, TypeOK
  <2> QED
    BY <1>3, <2>1, <2>2, Unseen, Zenon
<1>4. Waits(a)'
  BY <1>1, Steps DEF Waits, Goto, clear_ready, Types, TypeOK
<1> QED
  BY <1>2, <1>3, <1>4 DEF IInv

-----------------------------------------------------------------------------
(* SSL_do_handshake.                                                       *)

LEMMA DoneStep ==
  ASSUME IInv, NEW a \in Role, do_handshake_done(a)
  PROVE  IInv'
<1>1. Types'
  BY DEF IInv, Types, TypeOK, Goto, do_handshake_done, Tokio!TokioOK, sockVars, tokioVars
<1>2. ASSUME NEW e \in Role, e # a PROVE Waits(e)'
  <2>1. /\ UNCHANGED <<sockVars, tokioVars>> /\ pc'[e] = pc[e] /\ want'[e] = want[e] /\ woken'[e] = woken[e]
    BY <1>2 DEF do_handshake_done, Goto, IInv, Types, TypeOK
  <2> QED
    BY <1>2, <2>1, Unseen DEF tokioVars
<1>3. Waits(a)'
  BY DEF Waits, Goto, do_handshake_done, IInv, Types, TypeOK
<1> QED
  BY <1>1, <1>2, <1>3 DEF IInv

\* An endpoint in a call of libssl's goes on, with its peer told of what concerns it.
LEMMA TellsPeer ==
  ASSUME IInv, NEW a \in Role, pc[a] = "handshake", NEW D \in SUBSET Dir, Tokio!Edge(D),
         UNCHANGED <<pc, want, woken, closed>>,
         pc[Peer(a)] = "await" /\ Work(Peer(a))' => Work(Peer(a)) \/ Awaited(Peer(a)) \in D,
         pc[Peer(a)] = "await" /\ want[Peer(a)] = "write" /\ ~(Work(Peer(a))') => nospace'[Peer(a)],
         NEW e \in Role
  PROVE  Waits(e)'
<1>1. CASE e = a
  BY <1>1 DEF Waits
<1>2. CASE e = Peer(a)
  <2>1. Waits(e) /\ Awaited(e)' = Awaited(e) /\ pc'[e] = pc[e] /\ want'[e] = want[e] /\ woken'[e] = woken[e]
    BY DEF IInv, Awaited
  <2>2. Asleep(e)' <=> Asleep(e)
    BY <2>1 DEF Asleep, Tokio!Edge
  <2>3. pc[e] = "await" => Awaited(e) \in Dir
    BY <2>1, Dirs DEF Waits, Awaited
  <2>4. pc[e] = "await" /\ Announced(e) => Announced(e)'
    BY <2>1, <2>3 DEF Announced, Tokio!Edge
  <2>5. pc[e] = "await" /\ Awaited(e) \in D => Announced(e)'
    BY <2>1, <2>3 DEF Announced, Tokio!Edge
  <2> QED
    BY <1>2, <2>1, <2>2, <2>4, <2>5, Zenon DEF Waits
<1> QED
  BY <1>1, <1>2, Peers

LEMMA EdgeTypes ==
  ASSUME Types, NEW D, Tokio!Edge(D)
  PROVE  Tokio!TokioOK'
BY DEF Types, TypeOK, Tokio!Edge, Tokio!TokioOK

LEMMA SendStep ==
  ASSUME IInv, NEW a \in Role, do_handshake_send(a)
  PROVE  IInv'
<1> DEFINE p == Peer(a)
<1>1. p \in Role /\ p # a /\ Types /\ script' = script /\ Peer(p) = a
  BY Peers DEF IInv, do_handshake_send
<1>2. pc[a] = "handshake"
  BY DEF do_handshake_send, Handshaking
<1>3. CASE /\ ~closed[p] /\ Len(chan[p]) < SndMessages
           /\ chan' = [chan EXCEPT ![p] = Append(@, "msg")] /\ Tokio!Edge({<<p, "read">>})
           /\ at' = [at EXCEPT ![a] = @ + 1] /\ UNCHANGED <<pc, want, woken, nospace, closed>>
  <2>1. Types'
    <3>1. Append(chan[p], "msg") \in Seq({"msg", "alert"}) /\ Len(Append(chan[p], "msg")) = Len(chan[p]) + 1
      BY <1>1 DEF Types
    <3>2. chan' \in [Role -> Seq({"msg", "alert"})] /\ \A e \in Role : Len(chan'[e]) <= SndMessages
      BY <1>1, <1>3, <3>1, ConstantsAssumption DEF Types, TypeOK
    <3> QED
      BY <1>1, <1>3, <3>2, EdgeTypes DEF Types, TypeOK
  <2>2. <<p, "read">> \in Dir /\ chan'[a] = chan[a]
    BY <1>1, <1>3 DEF Dir, Types
  <2>3. want[p] # "read" => (Work(p)' <=> Work(p))
    BY <1>1, <1>3, <2>2 DEF Work
  <2>4. Waits(p)
    BY <1>1 DEF IInv
  <2>5. pc[p] = "await" /\ want[p] = "write" /\ ~(Work(p)') => nospace'[p]
    BY <1>3, <2>3, <2>4 DEF Waits
  <2>6. pc[p] = "await" /\ Work(p)' => Work(p) \/ Awaited(p) \in {<<p, "read">>}
    BY <2>3 DEF Awaited
  <2>7. {<<p, "read">>} \in SUBSET Dir
    BY <2>2
  <2>8. \A e \in Role : Waits(e)'
    BY <1>2, <1>3, <2>5, <2>6, <2>7, TellsPeer, Zenon
  <2> QED
    BY <2>1, <2>8 DEF IInv
<1>4. CASE /\ ~closed[p] /\ Len(chan[p]) = SndMessages /\ nospace' = [nospace EXCEPT ![a] = TRUE]
           /\ ssl_error_want(a, "write") /\ UNCHANGED chan
  <2>1. Types'
    BY <1>1, <1>4, Steps DEF Types, TypeOK, ssl_error_want, Goto, tokioVars, Tokio!TokioOK
  <2>2. UNCHANGED <<chan, closed>> /\ nospace'[a] /\ nospace'[p] = nospace[p] /\ want'[a] = "write"
    BY <1>1, <1>4 DEF Types, TypeOK, ssl_error_want
  <2>3. ~(Work(a)')
    BY <1>4, <2>2, ConstantsAssumption DEF Work
  <2> QED
    BY <1>4, <2>1, <2>2, <2>3, WantWaits DEF IInv
<1>5. CASE closed[p] /\ Fail(a) /\ UNCHANGED <<at, chan, nospace>>
  BY <1>1, <1>5, StartStep
<1> QED
  BY <1>3, <1>4, <1>5 DEF do_handshake_send

LEMMA EmptyStep ==
  ASSUME IInv, NEW a \in Role, do_handshake_empty(a)
  PROVE  IInv'
<1>1. UNCHANGED <<script, chan, nospace>> /\ chan[a] = <<>> /\ Types
  BY DEF do_handshake_empty, IInv
<1>2. CASE closed[Peer(a)] /\ Fail(a) /\ UNCHANGED <<at>>
  BY <1>1, <1>2, StartStep
<1>3. CASE ~closed[Peer(a)] /\ ssl_error_want(a, "read")
  <2>1. Types'
    BY <1>1, <1>3, Steps DEF Types, TypeOK, ssl_error_want, Goto, tokioVars, Tokio!TokioOK
  <2>2. UNCHANGED <<chan, closed>> /\ nospace'[Peer(a)] = nospace[Peer(a)] /\ want'[a] = "read"
    BY <1>1, <1>3 DEF Types, TypeOK, ssl_error_want
  <2>3. ~(Work(a)')
    BY <1>1, <1>3, <2>2 DEF Work
  <2> QED
    BY <1>3, <2>1, <2>2, <2>3, WantWaits DEF IInv
<1> QED
  BY <1>2, <1>3 DEF do_handshake_empty

LEMMA RecvStep ==
  ASSUME IInv, NEW a \in Role, do_handshake_recv(a)
  PROVE  IInv'
<1> DEFINE p    == Peer(a)
           rest == [chan EXCEPT ![a] = Tail(@)]
           D    == IF nospace[p] THEN {<<p, "write">>} ELSE {}
<1>1. p \in Role /\ p # a /\ Types /\ script' = script /\ Peer(p) = a /\ pc[a] = "handshake"
  BY Peers DEF IInv, do_handshake_recv, Handshaking
<1>2. chan[a] # <<>> /\ nospace' = [nospace EXCEPT ![p] = FALSE] /\ nospace' \in [Role -> BOOLEAN]
  BY <1>1 DEF do_handshake_recv, Types, TypeOK
<1>3. /\ rest \in [Role -> Seq({"msg", "alert"})] /\ Len(rest[a]) = Len(chan[a]) - 1 /\ Len(chan[a]) \in Nat
      /\ rest[p] = chan[p] /\ \A e \in Role : Len(rest[e]) <= SndMessages
  <2>1. Tail(chan[a]) \in Seq({"msg", "alert"}) /\ Len(Tail(chan[a])) = Len(chan[a]) - 1 /\ Len(chan[a]) \in Nat
    BY <1>1, <1>2, Tails DEF Types
  <2> QED
    BY <1>1, <2>1, ConstantsAssumption DEF Types, TypeOK
<1>4. CASE chan' = rest /\ at' = [at EXCEPT ![a] = @ + 1] /\ Tokio!Edge(D) /\ UNCHANGED <<pc, want, woken, closed>>
  <2>1. Types'
    BY <1>1, <1>2, <1>3, <1>4, EdgeTypes DEF Types, TypeOK
  <2>2. D \in SUBSET Dir /\ Waits(p)
    BY <1>1 DEF Dir, IInv
  <2>3. want[p] = "read" => (Work(p)' <=> Work(p))
    BY <1>1, <1>3, <1>4 DEF Work
  <2>4. want[p] # "read" => Work(p)'
    BY <1>1, <1>3, <1>4, ConstantsAssumption DEF Work, Types, TypeOK
  <2>5. pc[p] = "await" /\ want[p] = "write" /\ ~(Work(p)') => nospace'[p]
    BY <2>4
  <2>6. pc[p] = "await" /\ Work(p)' => Work(p) \/ Awaited(p) \in D
    BY <2>2, <2>3 DEF Waits, Awaited
  <2>7. \A e \in Role : Waits(e)'
    <3> HIDE DEF D
    <3> QED
      BY <1>1, <1>4, <2>2, <2>5, <2>6, TellsPeer, Zenon
  <2> QED
    BY <2>1, <2>7 DEF IInv
<1>5. CASE /\ chan' = IF Len(chan[p]) < SndMessages THEN [rest EXCEPT ![p] = Append(@, "alert")] ELSE rest
           /\ Fail(a) /\ UNCHANGED at
  <2>1. /\ Append(chan[p], "alert") \in Seq({"msg", "alert"})
        /\ Len(Append(chan[p], "alert")) = Len(chan[p]) + 1 /\ Len(chan[p]) \in Nat
    BY <1>1 DEF Types
  <2>2. chan' \in [Role -> Seq({"msg", "alert"})] /\ \A e \in Role : Len(chan'[e]) <= SndMessages
    <3> HIDE DEF rest, p
    <3>1. CASE Len(chan[p]) < SndMessages
      <4>1. chan' = [rest EXCEPT ![p] = Append(chan[p], "alert")]
        BY <1>3, <1>5, <3>1
      <4> QED
        BY <1>1, <1>3, <2>1, <3>1, <4>1, ConstantsAssumption
    <3>2. CASE ~(Len(chan[p]) < SndMessages)
      BY <1>3, <1>5, <3>2
    <3> QED
      BY <3>1, <3>2
  <2>3. Types'
    BY <1>1, <1>2, <1>5, <2>2, FailTypes DEF Types, TypeOK
  <2> QED
    BY <1>5, <2>3, FailWaits DEF IInv
<1>6. CASE chan' = rest /\ Fail(a) /\ UNCHANGED at
  <2>1. Types'
    BY <1>1, <1>2, <1>3, <1>6, FailTypes DEF Types, TypeOK
  <2> QED
    BY <1>6, <2>1, FailWaits DEF IInv
<1> QED
  BY <1>4, <1>5, <1>6 DEF do_handshake_recv

-----------------------------------------------------------------------------
(* tokio's driver.                                                         *)

LEMMA SetStep ==
  ASSUME IInv, NEW d \in Dir, DriverSet(d)
  PROVE  IInv'
<1>1. /\ edge' = [edge EXCEPT ![d] = FALSE] /\ ready' = [ready EXCEPT ![d] = TRUE]
      /\ waking' = [waking EXCEPT ![d] = TRUE] /\ fresh' = [fresh EXCEPT ![d] = TRUE]
      /\ UNCHANGED <<script, at, pc, want, woken, sockVars, armed, driver>> /\ Types
  BY DEF DriverSet, Tokio!Set, IInv
<1>2. Types'
  BY <1>1 DEF Types, TypeOK, Tokio!TokioOK, sockVars
<1>3. ASSUME NEW e \in Role PROVE Waits(e)'
  <2>1. Waits(e) /\ (Work(e)' <=> Work(e)) /\ Awaited(e)' = Awaited(e)
    BY <1>1 DEF IInv, Work, Awaited, sockVars
  <2>2. pc[e] = "await" => Awaited(e) \in Dir
    BY <2>1, Dirs DEF Waits, Awaited
  <2>3. pc[e] = "await" => (Announced(e) => Announced(e)') /\ (Asleep(e) => Asleep(e)')
    BY <1>1, <2>1, <2>2 DEF Announced, Asleep, Types, TypeOK, Tokio!TokioOK
  <2> QED
    BY <1>1, <2>1, <2>3 DEF Waits, sockVars
<1> QED
  BY <1>2, <1>3 DEF IInv

LEMMA WakeStep ==
  ASSUME IInv, NEW d \in Dir, DriverWake(d)
  PROVE  IInv'
<1>1. /\ waking' = [waking EXCEPT ![d] = FALSE] /\ armed' = [armed EXCEPT ![d] = FALSE]
      /\ woken' = [woken EXCEPT ![d[1]] = @ \/ (armed[d] /\ pc[d[1]] = "await")]
      /\ UNCHANGED <<script, at, pc, want, sockVars, ready, fresh, edge, driver>> /\ Types /\ d[1] \in Role
  BY DEF DriverWake, Tokio!Wake, IInv, Dir
<1>2. Types'
  BY <1>1 DEF Types, TypeOK, Tokio!TokioOK, sockVars
<1>3. ASSUME NEW e \in Role PROVE Waits(e)'
  <2>1. /\ Waits(e) /\ (Work(e)' <=> Work(e)) /\ (Announced(e)' <=> Announced(e)) /\ Awaited(e)' = Awaited(e)
    BY <1>1 DEF IInv, Work, Awaited, Announced, sockVars
  <2>2. pc[e] = "await" => Awaited(e) \in Dir /\ Awaited(e)[1] = e
    BY <2>1, Dirs DEF Waits, Awaited
  <2>3. ASSUME pc[e] = "await", ~woken'[e] PROVE Asleep(e)'
    <3>1. ~woken[e]
      BY <1>1, <2>3 DEF Types, TypeOK
    <3>2. Asleep(e)
      BY <2>1, <2>3, <3>1 DEF Waits
    <3>3. Awaited(e) # d
      <4>1. ASSUME Awaited(e) = d PROVE woken'[e]
        BY <1>1, <2>2, <2>3, <3>2, <4>1 DEF Asleep, Types, TypeOK
      <4> QED
        BY <2>3, <4>1
    <3> QED
      BY <1>1, <2>1, <2>2, <2>3, <3>2, <3>3 DEF Asleep, Types, TypeOK, Tokio!TokioOK
  <2> QED
    BY <1>1, <2>1, <2>3 DEF Waits, sockVars
<1> QED
  BY <1>2, <1>3 DEF IInv

LEMMA DownStep ==
  ASSUME IInv, DriverDown
  PROVE  IInv'
<1>1. Types'
  BY DEF IInv, DriverDown, Tokio!Down, Types, TypeOK, Tokio!TokioOK, sockVars
<1>2. ASSUME NEW e \in Role PROVE Waits(e)'
  <2>1. /\ Waits(e) /\ (Work(e)' <=> Work(e)) /\ (Announced(e)' <=> Announced(e))
        /\ UNCHANGED <<pc, want, nospace>> /\ (pc[e] = "await" => woken'[e])
    BY DEF IInv, DriverDown, Tokio!Down, Work, Awaited, Announced, sockVars
  <2> QED
    BY <2>1 DEF Waits
<1> QED
  BY <1>1, <1>2 DEF IInv

-----------------------------------------------------------------------------
(* The theorems.                                                           *)

LEMMA StepInv ==
  ASSUME IInv, [Next]_vars
  PROVE  IInv'
<1>1. CASE connect
  <2>1. "client" \in Role
    BY DEF Role
  <2> QED
    BY <1>1, <2>1, StartStep DEF connect
<1>2. CASE accept
  <2>1. "server" \in Role
    BY DEF Role
  <2> QED
    BY <1>2, <2>1, StartStep DEF accept
<1>3. ASSUME NEW e \in Role, Step(e) PROVE IInv'
  BY <1>3, AwaitStep, ClearStep, DoneStep, SendStep, RecvStep, EmptyStep DEF Step, SSL_do_handshake
<1>4. ASSUME NEW e \in Role, Drop(e) PROVE IInv'
  BY <1>4, StartStep DEF Drop
<1>5. CASE UNCHANGED vars
  <2>1. Types'
    BY <1>5 DEF IInv, vars, sockVars, tokioVars, Types, TypeOK, Tokio!TokioOK
  <2>2. \A e \in Role : Waits(e)'
    BY <1>5 DEF IInv, vars, sockVars, tokioVars, Waits, Work, Announced, Asleep, Awaited
  <2> QED
    BY <2>1, <2>2 DEF IInv
<1> QED
  BY <1>1, <1>2, <1>3, <1>4, <1>5, SetStep, WakeStep, DownStep DEF Next

(* The invariant holds in every reachable state.                           *)
THEOREM Invariant == Spec => []IInv
<1>1. Init => IInv
  BY InitInv
<1>2. IInv /\ [Next]_vars => IInv'
  BY StepInv
<1> QED
  BY <1>1, <1>2, PTL DEF Spec

(* A handshake never sleeps through a message, room or its peer's end,     *)
(* whatever the flights and the buffers (drive_handshake).                 *)
THEOREM NoWakeupLost == Spec => []NoLostWakeup
<1>1. IInv => NoLostWakeup
  BY DEF IInv, Waits, NoLostWakeup, Work, Announced, Asleep, Awaited
<1> QED
  BY <1>1, Invariant, PTL

=============================================================================
