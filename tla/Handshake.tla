------------------------------ MODULE Handshake ------------------------------
(***************************************************************************)
(* A client and a server that set up a connection: TlsConnector::connect,  *)
(* TlsAcceptor::accept and, under both, drive_handshake over a             *)
(* non-blocking socket.  libssl's part of a handshake is a script of       *)
(* messages to write and to read.  What is negotiated is in Config.        *)
(***************************************************************************)
EXTENDS Integers, Sequences

CONSTANTS
  Scripts,        \* the handshakes: [client, server -> sequence of "w", "r"]
  SndMessages,    \* messages the socket takes in one direction
  StartReady,     \* the readiness bits of a socket that is handed over: of {TRUE, FALSE}
  Faults          \* "init", "reject", "drop", "driver"

Role == {"client", "server"}
Peer(e) == IF e = "client" THEN "server" ELSE "client"
Dir == Role \X {"read", "write"}

ASSUME ConstantsAssumption ==
  /\ \A s \in Scripts : DOMAIN s = Role /\ \A e \in Role : s[e] \in Seq({"w", "r"})
  /\ SndMessages \in Nat \ {0}
  /\ StartReady \subseteq BOOLEAN /\ Faults \subseteq {"init", "reject", "drop", "driver"}

VARIABLES
  script, at,     \* the handshake, and how far libssl is in it
  pc, want,       \* where connect or accept stands; the readiness awaited
  woken,          \* the task is woken
  chan,           \* messages on their way to an endpoint
  nospace,        \* an endpoint has met a full socket since it last drained
  closed,         \* an endpoint has dropped its socket
  ready, fresh, armed, edge, waking, driver   \* see Readiness

Tokio == INSTANCE Readiness

sockVars == <<chan, nospace, closed>>
tokioVars == <<ready, fresh, armed, edge, waking, driver>>
vars == <<script, at, pc, want, woken, sockVars, tokioVars>>

Init ==
  /\ script \in Scripts /\ at = [e \in Role |-> 1]
  /\ pc = [e \in Role |-> "start"] /\ want = [e \in Role |-> "none"]
  /\ woken = [e \in Role |-> FALSE]
  /\ chan = [e \in Role |-> <<>>] /\ nospace = [e \in Role |-> FALSE]
  /\ closed = [e \in Role |-> FALSE]
  /\ Tokio!TokioInit /\ ready \in [Dir -> StartReady] /\ \A d \in Dir : edge[d] = (d[2] = "write" /\ ~ready[d])

-----------------------------------------------------------------------------
(* Before the handshake.                                                   *)

Goto(e, step) == pc' = [pc EXCEPT ![e] = step]

\* connect or accept returns an error, or its future is dropped: the socket closes.
Fail(e) ==
  /\ Goto(e, "failed") /\ want' = [want EXCEPT ![e] = "none"]
  /\ woken' = [woken EXCEPT ![e] = FALSE]
  /\ closed' = [closed EXCEPT ![e] = TRUE]
  /\ Tokio!Edge({<<Peer(e), "read">>, <<Peer(e), "write">>})

\* new_ssl, the name, attach_socket_bio and SSL_set_connect_state.
connect ==
  /\ pc["client"] = "start"
  /\ \/ Goto("client", "handshake") /\ UNCHANGED <<want, woken, closed, tokioVars>>
     \/ "init" \in Faults /\ Fail("client")
  /\ UNCHANGED <<script, at, chan, nospace>>

accept ==
  /\ pc["server"] = "start"
  /\ \/ Goto("server", "handshake") /\ UNCHANGED <<want, woken, closed, tokioVars>>
     \/ "init" \in Faults /\ Fail("server")
  /\ UNCHANGED <<script, at, chan, nospace>>

-----------------------------------------------------------------------------
(* drive_handshake.                                                        *)

\* Mutant: the bit is cleared before the wait.
then_clear_first(step) ==
  CASE step = "want" -> "clear" [] step = "clear" -> "await" [] step = "await" -> "handshake"

\* Mutant: the bit is not cleared.
then_no_clear(step) ==
  CASE step = "want" -> "await" [] step = "clear" -> "handshake" [] step = "await" -> "handshake"

\* After a WANT the task waits, then clears the bit, then tries again.
then(step) ==
  CASE step = "want" -> "await" [] step = "await" -> "clear" [] step = "clear" -> "handshake"

\* SSL_ERROR_WANT_READ or SSL_ERROR_WANT_WRITE.
ssl_error_want(e, d) ==
  /\ want' = [want EXCEPT ![e] = d]
  /\ woken' = [woken EXCEPT ![e] = TRUE]
  /\ Goto(e, then("want"))
  /\ UNCHANGED <<at, closed, tokioVars>>

\* readable().await or writable().await: polled when it starts and when woken.
await(e) ==
  /\ pc[e] = "await" /\ woken[e]
  /\ LET d == <<e, want[e]>>
     IN \/ /\ driver = "down" /\ Fail(e)
        \/ /\ driver = "up" /\ ready[d]
           /\ Goto(e, then("await")) /\ UNCHANGED <<want, woken, closed, tokioVars>>
        \/ /\ driver = "up" /\ ~ready[d]
           /\ woken' = [woken EXCEPT ![e] = FALSE] /\ Tokio!Arm(d)
           /\ UNCHANGED <<pc, want, closed>>
  /\ UNCHANGED <<script, at, chan, nospace>>

\* try_io with a closure that reports WouldBlock; it does nothing if the bit is clear.
clear_ready(e) ==
  /\ pc[e] = "clear"
  /\ ready' = [ready EXCEPT ![<<e, want[e]>>] = FALSE]
  /\ fresh' = [fresh EXCEPT ![<<e, want[e]>>] = FALSE]
  /\ Goto(e, then("clear"))
  /\ UNCHANGED <<script, at, want, woken, sockVars, armed, edge, waking, driver>>

\* The future is dropped while it waits.
Drop(e) ==
  /\ "drop" \in Faults /\ pc[e] = "await"
  /\ Fail(e)
  /\ UNCHANGED <<script, at, chan, nospace>>

-----------------------------------------------------------------------------
(* SSL_do_handshake over the socket.                                       *)

Handshaking(e) == pc[e] = "handshake"
Op(e) == script[e][at[e]]
InScript(e) == at[e] <= Len(script[e])

\* SSL_do_handshake returned 1: the stream is handed out.
do_handshake_done(e) ==
  /\ Handshaking(e) /\ ~InScript(e)
  /\ Goto(e, "done") /\ want' = [want EXCEPT ![e] = "none"]
  /\ woken' = [woken EXCEPT ![e] = FALSE]
  /\ UNCHANGED <<script, at, sockVars, tokioVars>>

do_handshake_send(e) ==
  LET p == Peer(e)
  IN /\ Handshaking(e) /\ InScript(e) /\ Op(e) = "w"
     /\ \/ /\ ~closed[p] /\ Len(chan[p]) < SndMessages
           /\ chan' = [chan EXCEPT ![p] = Append(@, "msg")] /\ Tokio!Edge({<<p, "read">>})
           /\ at' = [at EXCEPT ![e] = @ + 1] /\ UNCHANGED <<pc, want, woken, nospace, closed>>
        \/ /\ ~closed[p] /\ Len(chan[p]) = SndMessages
           /\ nospace' = [nospace EXCEPT ![e] = TRUE]
           /\ ssl_error_want(e, "write") /\ UNCHANGED chan
        \/ closed[p] /\ Fail(e) /\ UNCHANGED <<at, chan, nospace>>
     /\ UNCHANGED <<script>>

\* An endpoint that rejects the handshake tells its peer, if there is room.
do_handshake_recv(e) ==
  LET p == Peer(e)
      rest == [chan EXCEPT ![e] = Tail(@)]
  IN /\ Handshaking(e) /\ InScript(e) /\ Op(e) = "r" /\ chan[e] # <<>>
     /\ nospace' = [nospace EXCEPT ![p] = FALSE]
     /\ \/ /\ Head(chan[e]) = "msg"
           /\ chan' = rest /\ at' = [at EXCEPT ![e] = @ + 1]
           /\ Tokio!Edge(IF nospace[p] THEN {<<p, "write">>} ELSE {})
           /\ UNCHANGED <<pc, want, woken, closed>>
        \/ /\ Head(chan[e]) = "msg" /\ "reject" \in Faults
           /\ chan' = IF Len(chan[p]) < SndMessages THEN [rest EXCEPT ![p] = Append(@, "alert")]
                                                    ELSE rest
           /\ Fail(e) /\ UNCHANGED at
        \/ /\ Head(chan[e]) = "alert" /\ chan' = rest /\ Fail(e) /\ UNCHANGED at
     /\ UNCHANGED <<script>>

\* Nothing to read: EOF if the peer is gone.
do_handshake_empty(e) ==
  /\ Handshaking(e) /\ InScript(e) /\ Op(e) = "r" /\ chan[e] = <<>>
  /\ \/ closed[Peer(e)] /\ Fail(e) /\ UNCHANGED <<at>>
     \/ ~closed[Peer(e)] /\ ssl_error_want(e, "read")
  /\ UNCHANGED <<script, chan, nospace>>

SSL_do_handshake(e) ==
  do_handshake_done(e) \/ do_handshake_send(e) \/ do_handshake_recv(e) \/ do_handshake_empty(e)

-----------------------------------------------------------------------------
DriverSet(d) ==
  /\ Tokio!Set(d)
  /\ UNCHANGED <<script, at, pc, want, woken, sockVars>>

DriverWake(d) ==
  /\ Tokio!Wake(d)
  /\ woken' = [woken EXCEPT ![d[1]] = @ \/ (armed[d] /\ pc[d[1]] = "await")]
  /\ UNCHANGED <<script, at, pc, want, sockVars>>

DriverDown ==
  /\ "driver" \in Faults
  /\ Tokio!Down
  /\ woken' = [e \in Role |-> woken[e] \/ pc[e] = "await"]
  /\ UNCHANGED <<script, at, pc, want, sockVars>>

Step(e) == await(e) \/ clear_ready(e) \/ SSL_do_handshake(e)

Next ==
  \/ connect \/ accept
  \/ \E e \in Role : Step(e) \/ Drop(e)
  \/ \E d \in Dir : DriverSet(d) \/ DriverWake(d)
  \/ DriverDown

Spec == Init /\ [][Next]_vars

(* Fairness of the client: a running poll goes on, a woken task is polled  *)
(* and the driver handles every edge.  The server may stall.               *)
FairSpec ==
  /\ Spec
  /\ WF_vars(connect) /\ WF_vars(Step("client"))
  /\ \A d \in Dir : WF_vars(DriverSet(d) \/ DriverWake(d))

\* The same of the server, assumed only where a property says so.
ServerFairness == WF_vars(accept) /\ WF_vars(Step("server"))

-----------------------------------------------------------------------------
(* Properties.                                                             *)

TypeOK ==
  /\ script \in Scripts /\ at \in [Role -> Nat]
  /\ pc \in [Role -> {"start", "handshake", "await", "clear", "done", "failed"}]
  /\ want \in [Role -> {"none", "read", "write"}] /\ woken \in [Role -> BOOLEAN]
  /\ \A e \in Role : chan[e] \in Seq({"msg", "alert"}) /\ Len(chan[e]) <= SndMessages
  /\ nospace \in [Role -> BOOLEAN] /\ closed \in [Role -> BOOLEAN]
  /\ Tokio!TokioOK

(* A handshake that sleeps has nothing to do: while a message, room or the *)
(* peer's end is there for it, its task is awake or about to be woken      *)
(* (drive_handshake clears a bit only between the wait and the next try).  *)
NoLostWakeup ==
  \A e \in Role :
    LET d == <<e, want[e]>>
        work == closed[Peer(e)] \/ (IF want[e] = "read" THEN chan[e] # <<>>
                                    ELSE Len(chan[Peer(e)]) < SndMessages)
    IN pc[e] = "await" /\ work => woken[e] \/ (edge[d] \/ waking[d])

(* The client does not spin: whatever its peer does, and also if it does   *)
(* nothing, the client's task sleeps again and again until it is done      *)
(* (drive_handshake clears the bit libssl's EAGAIN has made stale).        *)
NoBusyLoop ==
  []<>(pc["client"] \in {"start", "done", "failed"} \/ (pc["client"] = "await" /\ ~woken["client"]))

(* Setting up a connection always ends, in a stream or in an error, also   *)
(* when the peer gives up, with flights larger than the socket's buffers,  *)
(* if both sides are driven.                                               *)
HandshakeEnds == ServerFairness => \A e \in Role : <>(pc[e] \in {"done", "failed"})

=============================================================================
