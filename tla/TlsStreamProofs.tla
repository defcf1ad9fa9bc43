-------------------------- MODULE TlsStreamProofs --------------------------
(* Proofs of the safety properties of TlsStream, for every value of its    *)
(* constants.                                                              *)
EXTENDS TlsStream, TLAPS

\* Where the polls stand: one half runs at a time, and the loop it is in tells
\* what is still buffered.
Control ==
  /\ \A g, h \in Half : pc[g] \in Running /\ pc[h] \in Running => g = h
  /\ \A h \in Half : pc[h] = "idle" <=> op[h] = "none"
  /\ op["reader"] \in {"none", "read"} /\ op["writer"] # "read"
  /\ \A h \in Half : pc[h] \in Running => ~Empty(h)
  /\ pc["writer"] = "ssl" => pending_write = <<>> /\ op["writer"] \in {"write", "shutdown"}
  /\ pc["writer"] \in {"register", "ready", "clear"} =>
       IF stage["writer"] = "ssl" THEN op["writer"] = "shutdown" /\ pending_write = <<>>
                                  ELSE pending_write # <<>>
  /\ write_error # "none" => \A h \in Half : pc[h] \in Running => pc[h] = "pending"

\* Whoever sleeps, or is about to, will be woken.
Wakeups ==
  /\ armed \in [Dir -> {"none", "shared"}]
  /\ \A h \in Half : pc[h] = "ready" => h \in Registered \cup woken
  /\ ParkedIsRegistered
  /\ NobodySleepsOnError
  /\ NobodySleepsOnDrained

\* The parts of TypeOK: the operations, the stream and its wakers, the rest.
CallTypes ==
  /\ op \in [Half -> {"none", "read", "write", "flush", "shutdown"}]
  /\ pc \in [Half -> {"idle", "waiting"} \cup Running]
  /\ stage \in [Half -> {"pending", "ssl"}] /\ want \in [Half -> Dir]
  /\ buf \in [Half -> 0..MaxBuf] /\ task \in [Half -> 1..NTasks]
  /\ result \in [Half -> {"none", "Ok", "Eof", "BrokenPipe"} \cup IoError]

StreamTypes ==
  /\ pending_write \in Seq(Nat) /\ Len(pending_write) <= MAX_PLAINTEXT
  /\ write_error \in {"none"} \cup IoError /\ shutdown \in Shutdown
  /\ waiters \in [Half -> 0..NTasks] /\ woken \subseteq Half

SslTypes ==
  /\ wbuf \in Seq(Nat) /\ alert \in {"none", "queued", "sent"}
  /\ ctl \in {"none", "reply", "await"} /\ dead \in BOOLEAN
  /\ accepted \in Nat /\ wire \in Seq(Nat)

SockTypes ==
  /\ room \in 0..SndRecords /\ nospace \in BOOLEAN
  /\ inq \in Seq(PeerSends \cup {"ctlFin"}) /\ inbound \in 0..MaxInbound
  /\ net \in {"up", "reset"}

TokioTypes ==
  /\ ready \in [Dir -> BOOLEAN] /\ armed \in [Dir -> {"none", "shared"} \cup Half]
  /\ edge \in [Dir -> BOOLEAN] /\ waking \in [Dir -> BOOLEAN]
  /\ driver \in {"up", "down"}

\* What the proofs about Control and Wakeups need of TypeOK.
PollTypes ==
  /\ op \in [Half -> {"none", "read", "write", "flush", "shutdown"}]
  /\ pc \in [Half -> {"idle", "waiting"} \cup Running]
  /\ stage \in [Half -> {"pending", "ssl"}] /\ buf \in [Half -> 0..MaxBuf]

WakeTypes ==
  /\ task \in [Half -> Nat] /\ waiters \in [Half -> Nat]
  /\ want \in [Half -> Dir] /\ woken \subseteq Half

\* Application bytes on the wire, told by libssl's state instead of the wire's end.
Taken == IF alert = "sent" THEN Len(wire) - 1 ELSE Len(wire)

\* What is on the wire and what is buffered, as libssl's state tells it.
Data ==
  /\ \A i \in 1..Taken : wire[i] = i
  /\ alert = "sent" => Len(wire) > 0 /\ wire[Len(wire)] = CloseNotify
  /\ \A i \in 1..Len(pending_write) : pending_write[i] = Taken + i
  /\ accepted = Taken + Len(pending_write)
  /\ alert # "none" => pending_write = <<>>
  /\ shutdown = "Closed" => alert = "sent"
  /\ SameBytesRetried

IInv == TypeOK /\ Control /\ Wakeups /\ Data

\* The steps in which no line of the stream's own code runs.
Outside ==
  \/ \E h \in Half :
       \/ \E o \in {"read", "write", "flush", "shutdown"}, n \in 0..MaxBuf, t \in 1..NTasks :
            Call(h, o, n, t)
       \/ Cancel(h) \/ SSL_drive(h)
  \/ \E d \in Dir : DriverSet(d) \/ DriverWake(d)
  \/ DriverDown \/ Drain \/ PeerAnswer \/ ConnectionReset
  \/ \E k \in PeerSends : PeerSend(k)

\* The chunk of a write starts behind what was accepted, is not empty and
\* fits one record (poll_write's cap at MAX_PLAINTEXT).
LEMMA ChunkFacts ==
  ASSUME TypeOK
  PROVE  /\ Chunk \in Seq(Nat)
         /\ Len(Chunk) <= MAX_PLAINTEXT
         /\ buf["writer"] # 0 => Len(Chunk) > 0
         /\ \A i \in 1..Len(Chunk) : Chunk[i] = accepted + i
<1> DEFINE b   == buf["writer"]
           len == IF b < MAX_PLAINTEXT THEN b ELSE MAX_PLAINTEXT
<1>1. b \in Nat /\ accepted \in Nat
  BY ConstantsAssumption DEF TypeOK, Half
<1>2. Chunk = [i \in 1..len |-> accepted + i]
  BY DEF Chunk
<1> HIDE DEF b
<1>3. len \in Nat /\ len <= MAX_PLAINTEXT /\ (b # 0 => len > 0)
  BY <1>1, ConstantsAssumption
<1> HIDE DEF len
<1>4. Chunk \in Seq(Nat) /\ Len(Chunk) = len
  BY <1>1, <1>2, <1>3
<1> QED
  BY <1>1, <1>2, <1>3, <1>4 DEF b

\* A stream as from_parts makes it is well typed.
LEMMA InitTypeOK == Init => TypeOK
<1> SUFFICES ASSUME Init PROVE TypeOK
  OBVIOUS
<1>1. /\ ready \in [Dir -> BOOLEAN] /\ edge \in [Dir -> BOOLEAN] /\ waking \in [Dir -> BOOLEAN]
      /\ dead \in BOOLEAN /\ nospace \in BOOLEAN
  BY Zenon DEF Init
<1> QED
  BY <1>1, ConstantsAssumption DEF Init, TypeOK, Half, Dir, IoError, Shutdown, Running

\* TypeOK is its parts, before a step and after it.
LEMMA TypeParts ==
  /\ TypeOK => CallTypes /\ StreamTypes /\ SslTypes /\ SockTypes /\ TokioTypes
  /\ CallTypes' /\ StreamTypes' /\ SslTypes' /\ SockTypes' /\ TokioTypes' => TypeOK'
<1>1. TypeOK => CallTypes /\ StreamTypes
  BY DEF TypeOK, CallTypes, StreamTypes
<1>2. TypeOK => SslTypes /\ SockTypes /\ TokioTypes
  BY DEF TypeOK, SslTypes, SockTypes, TokioTypes
<1>3. ASSUME CallTypes', StreamTypes', SslTypes', SockTypes', TokioTypes' PROVE TypeOK'
  BY <1>3 DEF TypeOK, CallTypes, StreamTypes, SslTypes, SockTypes, TokioTypes
<1> QED
  BY <1>1, <1>2, <1>3

\* A part no variable of which changes keeps its types.
LEMMA TypeFrames ==
  ASSUME TypeOK
  PROVE  /\ UNCHANGED <<callVars, pc>> => CallTypes'
         /\ UNCHANGED <<streamVars, woken>> => StreamTypes'
         /\ UNCHANGED <<sslVars, history>> => SslTypes'
         /\ UNCHANGED sockVars => SockTypes'
         /\ UNCHANGED tokioVars => TokioTypes'
<1>1. UNCHANGED <<callVars, pc>> => CallTypes'
  BY TypeParts DEF CallTypes, callVars
<1>2. UNCHANGED <<streamVars, woken>> => StreamTypes'
  BY TypeParts DEF StreamTypes, streamVars
<1>3. UNCHANGED <<sslVars, history>> => SslTypes'
  BY TypeParts DEF SslTypes, sslVars, history
<1>4. UNCHANGED sockVars => SockTypes'
  BY TypeParts DEF SockTypes, sockVars
<1>5. UNCHANGED tokioVars => TokioTypes'
  BY TypeParts DEF TokioTypes, tokioVars
<1> QED
  BY <1>1, <1>2, <1>3, <1>4, <1>5

\* How an operation ends keeps the types.
LEMMA TypeReturn ==
  ASSUME TypeOK, NEW h \in Half, NEW r \in {"none", "Ok", "Eof", "BrokenPipe"} \cup IoError,
         Return(h, r)
  PROVE  CallTypes'
<1>1. CallTypes /\ 0 \in 0..MaxBuf /\ 1 \in 1..NTasks
  BY ConstantsAssumption, TypeParts
<1> QED
  BY <1>1 DEF CallTypes, Return, Dir, Running

\* What happens to woken when an operation ends keeps its type.
LEMMA TypeFinish ==
  ASSUME TypeOK, NEW h \in Half, woken' = woken \ {h}, UNCHANGED streamVars
  PROVE  StreamTypes'
BY TypeParts DEF StreamTypes, streamVars

\* IoWaiters::notify keeps the types of what it changes.
LEMMA TypeNotify ==
  ASSUME TypeOK, Notify
  PROVE  woken' \subseteq Half /\ waiters' \in [Half -> 0..NTasks]
<1>1. 0 \in 0..NTasks /\ woken \subseteq Half
  BY ConstantsAssumption DEF TypeOK
<1> QED
  BY <1>1 DEF Notify, Registered

\* write_failure keeps the types of what it changes.
LEMMA TypeFailure ==
  ASSUME TypeOK, NEW h \in Half, NEW e \in IoError, write_failure(h, e),
         UNCHANGED <<pending_write, shutdown>>
  PROVE  CallTypes' /\ StreamTypes'
<1>1. CallTypes'
  BY TypeReturn, Zenon DEF write_failure
<1>2. woken' \subseteq Half /\ waiters' \in [Half -> 0..NTasks] /\ write_error' \in {"none"} \cup IoError
  BY TypeNotify DEF write_failure
<1> QED
  BY <1>1, <1>2, TypeParts DEF StreamTypes

\* ssl_io_error yields an error the stream knows.
LEMMA TypeErrors ==
  /\ ssl_io_error(Cause) \in IoError
  /\ ssl_io_error(Protocol) \in IoError
  /\ \A f \in BareFin : ssl_io_error(f) \in IoError
BY DEF ssl_io_error, IoError

\* poll_ssl_ready keeps the types.
LEMMA TypeReady ==
  ASSUME TypeOK, NEW h \in Half, poll_ssl_ready(h)
  PROVE  TypeOK'
<1> USE TypeParts, TypeFrames
<1>1. CASE register(h)
  <2>1. CallTypes'
    BY <1>1 DEF register, callVars, CallTypes, Running
  <2>2. StreamTypes'
    BY <1>1, ConstantsAssumption DEF register, slot, StreamTypes, CallTypes
  <2> QED
    BY <1>1, <2>1, <2>2 DEF register
<1>2. CASE poll_ready_failed(h)
  <2>1. CASE Finish(h, "Other") /\ UNCHANGED streamVars
    BY <1>2, <2>1, TypeReturn, TypeFinish DEF poll_ready_failed, Finish, IoError
  <2>2. CASE write_failure(h, "Other") /\ UNCHANGED <<pending_write, shutdown>>
    BY <1>2, <2>2, TypeFailure DEF poll_ready_failed, IoError
  <2> QED
    BY <1>2, <2>1, <2>2 DEF poll_ready_failed
<1>3. CASE poll_ready_pending(h)
  <2>1. CallTypes'
    BY <1>3 DEF poll_ready_pending, on_pending, callVars, CallTypes, Running
  <2>2. TokioTypes'
    BY <1>3 DEF poll_ready_pending, wait_waker, TokioTypes, CallTypes
  <2> QED
    BY <1>3, <2>1, <2>2 DEF poll_ready_pending
<1>4. CASE poll_ready_ok(h)
  <2>1. CallTypes'
    BY <1>4 DEF poll_ready_ok, callVars, CallTypes, Running
  <2> QED
    BY <1>4, <2>1 DEF poll_ready_ok
<1>5. CASE clear_ready(h)
  <2>1. CallTypes'
    BY <1>5 DEF clear_ready, after_clear, callVars, CallTypes, Running
  <2>2. TokioTypes'
    BY <1>5 DEF clear_ready, TokioTypes, CallTypes
  <2> QED
    BY <1>5, <2>1, <2>2 DEF clear_ready
<1> QED
  BY <1>1, <1>2, <1>3, <1>4, <1>5 DEF poll_ssl_ready

\* The entry of a poll keeps the types.
LEMMA TypeEntry ==
  ASSUME TypeOK, NEW h \in Half, Poll(h)
  PROVE  TypeOK'
<1> USE TypeParts, TypeFrames
<1>1. StreamTypes' /\ SslTypes' /\ SockTypes' /\ TokioTypes'
  <2>1. /\ UNCHANGED <<streamVars, sslVars, sockVars, tokioVars, history>>
        /\ woken' = woken \ {h}
    BY DEF Poll, poll_empty, poll_begin, poll_write_refused, Enter
  <2> QED
    BY <2>1, TypeFinish
<1>2. CASE poll_begin(h)
  <2>1. CallTypes'
    BY <1>2 DEF poll_begin, first_step, CallTypes, Running, Dir
  <2> QED
    BY <1>1, <2>1
<1>3. CASE h = "writer" /\ poll_write_refused
  <2>1. PICK r \in {"BrokenPipe"} \cup IoError : Return(h, r)
    BY <1>3, Zenon DEF poll_write_refused, StreamTypes
  <2> QED
    BY <1>1, <2>1, TypeReturn
<1>4. CASE poll_empty(h)
  BY <1>1, <1>4, TypeReturn DEF poll_empty
<1> QED
  BY <1>2, <1>3, <1>4 DEF Poll

\* What the callers do after poll_pending_write keeps the types.
LEMMA TypePendingReady ==
  ASSUME TypeOK, NEW h \in Half, pending_ready(h)
  PROVE  CallTypes' /\ shutdown' \in Shutdown /\ TokioTypes'
<1>1. shutdown' \in Shutdown
  BY TypeParts DEF pending_ready, StreamTypes, Shutdown
<1>2. TokioTypes'
  BY TypeFrames DEF pending_ready
<1>3. CASE Return(h, "Ok")
  BY <1>1, <1>2, <1>3, TypeReturn
<1>4. CASE ~Return(h, "Ok")
  BY <1>1, <1>2, <1>4, TypeParts DEF pending_ready, CallTypes, Running
<1> QED
  BY <1>3, <1>4

\* poll_pending_write keeps the types; the buffer stays one record.
LEMMA TypePending ==
  ASSUME TypeOK, NEW h \in Half, poll_pending_write(h)
  PROVE  TypeOK'
<1> USE TypeParts, TypeFrames
<1>1. CASE pending_latched(h)
  <2>1. write_error \in IoError /\ UNCHANGED streamVars
    BY <1>1 DEF pending_latched, kept_error, StreamTypes, streamVars
  <2> QED
    BY <1>1, <2>1, TypeReturn, TypeFinish, Zenon DEF pending_latched, Finish
<1>2. CASE pending_empty(h)
  <2>1. StreamTypes'
    BY <1>2, TypePendingReady DEF pending_empty, pending_ready, StreamTypes
  <2>2. SslTypes' /\ SockTypes'
    BY <1>2 DEF pending_empty, pending_ready, history
  <2> QED
    BY <1>2, <2>1, <2>2, TypePendingReady DEF pending_empty
<1>3. CASE pending_sent(h)
  <2>1. SslTypes' /\ SockTypes'
    <3>1. wire' \in Seq(Nat) /\ wbuf' \in Seq(Nat)
      BY <1>3 DEF pending_sent, SSL_write_done, StreamTypes, SslTypes
    <3>2. room' \in 0..SndRecords
      BY <1>3, ConstantsAssumption DEF pending_sent, SSL_write_done, SockTypes
    <3>3. UNCHANGED <<alert, ctl, dead, accepted, nospace, inq, inbound, net>>
      BY <1>3 DEF pending_sent, SSL_write_done, pending_ready
    <3> QED
      BY <3>1, <3>2, <3>3 DEF SslTypes, SockTypes
  <2>2. StreamTypes'
    <3>1. pending_write' \in Seq(Nat) /\ Len(pending_write') <= MAX_PLAINTEXT
      BY <1>3, ConstantsAssumption DEF pending_sent
    <3>2. woken' \subseteq Half /\ waiters' \in [Half -> 0..NTasks]
      BY <1>3, TypeNotify DEF pending_sent
    <3>3. write_error' = write_error /\ shutdown' \in Shutdown
      BY <1>3, TypePendingReady DEF pending_sent, pending_ready
    <3> QED
      BY <3>1, <3>2, <3>3 DEF StreamTypes
  <2> QED
    BY <1>3, <2>1, <2>2, TypePendingReady DEF pending_sent
<1>4. CASE pending_blocked(h)
  <2>1. PICK d \in Dir : SSL_write_want(pending_write, d) /\ Wait(h, d, "pending")
    BY <1>4 DEF pending_blocked
  <2>2. CallTypes'
    BY <1>4, <2>1 DEF pending_blocked, Wait, CallTypes, Running
  <2>3. SslTypes' /\ SockTypes'
    BY <1>4, <2>1 DEF pending_blocked, SSL_write_want, SslTypes, SockTypes, StreamTypes
  <2> QED
    BY <1>4, <2>2, <2>3 DEF pending_blocked
<1>5. CASE pending_failed(h)
  BY <1>5, TypeErrors, TypeFailure DEF pending_failed, SSL_write_failed, history
<1> QED
  BY <1>1, <1>2, <1>3, <1>4, <1>5 DEF poll_pending_write

\* Taking an inbound record keeps the queue's type.
LEMMA InqTail ==
  ASSUME TypeOK, inq # <<>>
  PROVE  Tail(inq) \in Seq(PeerSends \cup {"ctlFin"})
<1> DEFINE Rec == PeerSends \cup {"ctlFin"}
<1>1. inq \in Seq(Rec)
  BY DEF TypeOK
<1> HIDE DEF Rec
<1>2. Tail(inq) \in Seq(Rec)
  BY <1>1
<1> QED
  BY <1>2 DEF Rec

\* An arriving record keeps the queue's type.
LEMMA InqAppend ==
  ASSUME TypeOK, NEW k \in PeerSends \cup {"ctlFin"}
  PROVE  Append(inq, k) \in Seq(PeerSends \cup {"ctlFin"})
<1> DEFINE Rec == PeerSends \cup {"ctlFin"}
<1>1. inq \in Seq(Rec) /\ k \in Rec
  BY DEF TypeOK
<1> HIDE DEF Rec
<1>2. Append(inq, k) \in Seq(Rec)
  BY <1>1
<1> QED
  BY <1>2 DEF Rec

\* The loop of poll_read keeps the types.
LEMMA TypeRead ==
  ASSUME TypeOK, poll_read
  PROVE  TypeOK'
<1> USE TypeParts, TypeFrames
<1>0. /\ "reader" \in Half /\ TokioTypes'
      /\ UNCHANGED <<streamVars, wbuf, alert, ctl, room, inbound, net, history>>
  BY DEF Half, poll_read
<1>1. inq' \in Seq(PeerSends \cup {"ctlFin"}) /\ dead' \in BOOLEAN /\ nospace' \in BOOLEAN
  <2>1. dead' \in BOOLEAN
    BY Zenon DEF poll_read, poll_read_data, poll_read_eof, poll_read_want, poll_read_failed, SslTypes
  <2>2. nospace' \in BOOLEAN
    BY Zenon DEF poll_read, poll_read_data, poll_read_eof, poll_read_want, poll_read_failed, SockTypes
  <2>3. inq' = inq \/ (inq # <<>> /\ inq' = Tail(inq))
    BY DEF poll_read, poll_read_data, poll_read_eof, poll_read_want, poll_read_failed, Next_in
  <2> QED
    BY <2>1, <2>2, <2>3, InqTail DEF SockTypes
<1>2. SslTypes' /\ SockTypes'
  BY <1>0, <1>1 DEF SslTypes, SockTypes, history
<1>3. ASSUME NEW r \in {"Ok", "Eof"} \cup IoError, Finish("reader", r) PROVE TypeOK'
  BY <1>0, <1>2, <1>3, TypeReturn, TypeFinish DEF Finish
<1>4. CASE poll_read_want
  <2>1. CallTypes' /\ UNCHANGED woken
    BY <1>0, <1>4 DEF poll_read_want, Wait, CallTypes, Running
  <2> QED
    BY <1>0, <1>2, <2>1
<1>5. CASE poll_read_failed
  <2>1. PICK e \in IoError : Finish("reader", e)
    BY <1>5, TypeErrors DEF poll_read_failed
  <2> QED
    BY <1>3, <2>1, Zenon
<1> QED
  BY <1>3, <1>4, <1>5 DEF poll_read, poll_read_data, poll_read_eof

\* poll_write keeps the types: what it buffers is one chunk.
LEMMA TypeWrite ==
  ASSUME TypeOK, pending_write = <<>>, poll_write
  PROVE  TypeOK'
<1> USE TypeParts, TypeFrames
<1>0. "writer" \in Half /\ TokioTypes'
  BY DEF Half, poll_write
<1>1. CASE poll_write_sent
  <2>1. wire' \in Seq(Nat) /\ accepted' \in Nat /\ wbuf' \in Seq(Nat)
    BY <1>1, ChunkFacts DEF poll_write_sent, SSL_write_done, SslTypes
  <2>2. room' \in 0..SndRecords
    BY <1>1, ConstantsAssumption DEF poll_write_sent, SSL_write_done, SockTypes
  <2>3. SslTypes' /\ SockTypes'
    BY <1>1, <2>1, <2>2 DEF poll_write_sent, SSL_write_done, SslTypes, SockTypes
  <2> QED
    BY <1>0, <1>1, <2>3, TypeReturn, TypeFinish DEF poll_write_sent, Finish
<1>2. CASE poll_write_buffered
  <2>1. pending_write' \in Seq(Nat) /\ Len(pending_write') <= MAX_PLAINTEXT /\ accepted' \in Nat
    BY <1>2, ChunkFacts DEF poll_write_buffered, Retained, SslTypes
  <2>2. wbuf' \in Seq(Nat)
    BY <1>2, ChunkFacts DEF poll_write_buffered, SSL_write_want, SslTypes
  <2>3. SslTypes' /\ SockTypes'
    BY <1>2, <2>1, <2>2 DEF poll_write_buffered, SSL_write_want, SslTypes, SockTypes
  <2>4. StreamTypes'
    BY <1>2, <2>1 DEF poll_write_buffered, Finish, StreamTypes
  <2> QED
    BY <1>0, <1>2, <2>3, <2>4, TypeReturn DEF poll_write_buffered, Finish
<1>3. CASE poll_write_failed
  BY <1>0, <1>3, TypeErrors, TypeFailure DEF poll_write_failed, SSL_write_failed, history
<1> QED
  BY <1>1, <1>2, <1>3 DEF poll_write

\* The loop of poll_shutdown keeps the types.
LEMMA TypeShutdown ==
  ASSUME TypeOK, poll_shutdown
  PROVE  TypeOK'
<1> USE TypeParts, TypeFrames
<1>0. "writer" \in Half /\ TokioTypes' /\ accepted' = accepted
  BY DEF Half, poll_shutdown
<1>1. CASE poll_shutdown_done
  <2>1. wire' \in Seq(Nat) /\ room' \in 0..SndRecords /\ alert' \in {"none", "queued", "sent"}
    <3>1. CASE room' = room - 1 /\ wire' = Append(wire, CloseNotify) /\ alert' = "sent" /\ room > 0
      BY <3>1, ConstantsAssumption DEF CloseNotify, SslTypes, SockTypes
    <3>2. CASE UNCHANGED <<room, wire, alert>>
      BY <3>2 DEF SslTypes, SockTypes
    <3> QED
      BY <1>1, <3>1, <3>2 DEF poll_shutdown_done, SSL_shutdown_done
  <2>2. SslTypes' /\ SockTypes'
    BY <1>0, <1>1, <2>1 DEF poll_shutdown_done, SSL_shutdown_done, SslTypes, SockTypes
  <2>3. StreamTypes'
    BY <1>1 DEF poll_shutdown_done, Finish, StreamTypes, Shutdown
  <2> QED
    BY <1>0, <1>1, <2>2, <2>3, TypeReturn DEF poll_shutdown_done, Finish
<1>2. CASE poll_shutdown_want
  <2>1. PICK d \in Dir : SSL_shutdown_want(d) /\ Wait("writer", d, "ssl")
    BY <1>2 DEF poll_shutdown_want
  <2>2. CallTypes'
    BY <1>0, <1>2, <2>1 DEF poll_shutdown_want, Wait, CallTypes, Running
  <2>3. SslTypes' /\ SockTypes'
    BY <1>0, <2>1 DEF SSL_shutdown_want, SslTypes, SockTypes
  <2> QED
    BY <1>0, <1>2, <2>2, <2>3 DEF poll_shutdown_want
<1>3. CASE poll_shutdown_failed
  BY <1>0, <1>3, TypeErrors, TypeFailure DEF poll_shutdown_failed, history
<1> QED
  BY <1>1, <1>2, <1>3 DEF poll_shutdown

\* Application, libssl, driver and network keep the types.
LEMMA TypeOutside ==
  ASSUME TypeOK, Outside
  PROVE  TypeOK'
<1> USE TypeParts, TypeFrames DEF taskVars
<1>1. ASSUME NEW h \in Half, NEW o \in {"read", "write", "flush", "shutdown"},
             NEW n \in 0..MaxBuf, NEW t \in 1..NTasks, Call(h, o, n, t)
      PROVE  TypeOK'
  <2>1. CallTypes'
    BY <1>1 DEF Call, CallTypes
  <2>2. StreamTypes'
    BY <1>1 DEF Call, StreamTypes, streamVars
  <2> QED
    BY <1>1, <2>1, <2>2 DEF Call
<1>2. ASSUME NEW h \in Half, Cancel(h) PROVE TypeOK'
  BY <1>2, TypeReturn, TypeFinish DEF Cancel, Finish
<1>3. ASSUME NEW h \in Half, SSL_drive(h) PROVE TypeOK'
  <2>1. inq' \in Seq(PeerSends \cup {"ctlFin"})
    BY <1>3, InqTail DEF SSL_drive, Next_in, SockTypes
  <2>2. room' \in 0..SndRecords /\ ctl' \in {"none", "reply", "await"}
    BY <1>3, ConstantsAssumption DEF SSL_drive, SockTypes
  <2>3. SslTypes' /\ SockTypes'
    BY <1>3, <2>1, <2>2 DEF SSL_drive, SslTypes, SockTypes, history
  <2> QED
    BY <1>3, <2>3 DEF SSL_drive
<1>4. ASSUME NEW d \in Dir, DriverSet(d) PROVE TypeOK'
  <2>1. TokioTypes'
    BY <1>4 DEF DriverSet, TokioTypes
  <2> QED
    BY <1>4, <2>1 DEF DriverSet
<1>5. ASSUME NEW D, WakeArmed(D), UNCHANGED <<pending_write, write_error, shutdown>>
      PROVE  StreamTypes' /\ armed' \in [Dir -> {"none", "shared"} \cup Half]
  <2>1. armed' \in [Dir -> {"none", "shared"} \cup Half]
    BY <1>5 DEF WakeArmed, TokioTypes
  <2>2. woken' \subseteq Half
    BY <1>5 DEF WakeArmed, StreamTypes, Registered
  <2>3. waiters' \in [Half -> 0..NTasks]
    BY <1>5, ConstantsAssumption DEF WakeArmed, StreamTypes
  <2> QED
    BY <1>5, <2>1, <2>2, <2>3, Zenon DEF StreamTypes
<1>6. ASSUME NEW d \in Dir, DriverWake(d) PROVE TypeOK'
  <2>1. StreamTypes' /\ armed' \in [Dir -> {"none", "shared"} \cup Half]
    BY <1>5, <1>6 DEF DriverWake
  <2>2. TokioTypes'
    BY <1>6, <2>1, Zenon DEF DriverWake, TokioTypes
  <2> QED
    BY <1>6, <2>1, <2>2 DEF DriverWake
<1>7. CASE DriverDown
  <2>1. StreamTypes' /\ armed' \in [Dir -> {"none", "shared"} \cup Half]
    BY <1>5, <1>7 DEF DriverDown
  <2>2. TokioTypes'
    BY <1>7, <2>1 DEF DriverDown, TokioTypes
  <2> QED
    BY <1>7, <2>1, <2>2 DEF DriverDown
<1>8. CASE Drain
  <2>1. edge' = [edge EXCEPT !["write"] = TRUE] \/ edge' = edge
    BY <1>8, Zenon DEF Drain
  <2>2. /\ room < SndRecords /\ room' = room + 1 /\ nospace' \in BOOLEAN
        /\ UNCHANGED <<streamVars, taskVars, sslVars, inq, inbound, net, ready, armed, waking,
                       driver, history>>
    BY <1>8, Zenon DEF Drain
  <2>3. TokioTypes'
    BY <2>1, <2>2, Zenon DEF TokioTypes
  <2>4. SockTypes'
    BY <2>2, ConstantsAssumption DEF SockTypes
  <2> QED
    BY <2>2, <2>3, <2>4
<1>9. ASSUME NEW k \in PeerSends \cup {"ctlFin"}, Arrive(k), inbound' \in 0..MaxInbound
      PROVE  TypeOK'
  <2>1. TokioTypes'
    BY <1>9, Zenon DEF Arrive, TokioTypes
  <2>2. inq' \in Seq(PeerSends \cup {"ctlFin"})
    BY <1>9, InqAppend DEF Arrive
  <2>3. SockTypes'
    BY <1>9, <2>2 DEF Arrive, SockTypes
  <2> QED
    BY <1>9, <2>1, <2>3 DEF Arrive
<1>10. ASSUME NEW k \in PeerSends, PeerSend(k) PROVE TypeOK'
  <2>1. inbound' \in 0..MaxInbound
    BY <1>10, ConstantsAssumption DEF PeerSend, SockTypes
  <2> QED
    BY <1>9, <1>10, <2>1 DEF PeerSend
<1>11. CASE PeerAnswer
  BY <1>9, <1>11 DEF PeerAnswer, SockTypes
<1>12. CASE ConnectionReset
  <2>1. TokioTypes' /\ SockTypes'
    BY <1>12 DEF ConnectionReset, TokioTypes, SockTypes
  <2> QED
    BY <1>12, <2>1 DEF ConnectionReset
<1> QED
  BY <1>1, <1>2, <1>3, <1>4, <1>6, <1>7, <1>8, <1>10, <1>11, <1>12 DEF Outside

-----------------------------------------------------------------------------
\* The kernel, the peer and libssl's own exchange touch no poll and no waker.
LEMMA OutsideCases ==
  ASSUME Outside
  PROVE  \/ \E h \in Half : \E o \in {"read", "write", "flush", "shutdown"}, n \in 0..MaxBuf,
                               t \in 1..NTasks : Call(h, o, n, t)
         \/ \E h \in Half : Cancel(h)
         \/ \E d \in Dir : DriverWake(d)
         \/ DriverDown
         \/ UNCHANGED <<streamVars, taskVars, wbuf, alert, armed, history>>
<1> DEFINE Quiet == UNCHANGED <<streamVars, taskVars, wbuf, alert, armed, history>>
<1>1. ASSUME NEW h \in Half, SSL_drive(h) PROVE Quiet
  BY <1>1 DEF SSL_drive, tokioVars
<1>2. ASSUME NEW d \in Dir, DriverSet(d) PROVE Quiet
  BY <1>2 DEF DriverSet, sslVars
<1>3. CASE Drain
  BY <1>3 DEF Drain, sslVars
<1>4. CASE PeerAnswer
  BY <1>4 DEF PeerAnswer, Arrive, sslVars
<1>5. CASE ConnectionReset
  BY <1>5 DEF ConnectionReset, sslVars
<1>6. ASSUME NEW k \in PeerSends, PeerSend(k) PROVE Quiet
  BY <1>6 DEF PeerSend, Arrive, sslVars
<1> QED
  BY <1>1, <1>2, <1>3, <1>4, <1>5, <1>6 DEF Outside

\* TypeOK holds what the lemmas on Control and Wakeups need.
LEMMA NarrowTypes == TypeOK => PollTypes /\ WakeTypes
<1>1. TypeOK => PollTypes
  BY DEF TypeOK, PollTypes
<1>2. TypeOK => WakeTypes
  BY ConstantsAssumption DEF TypeOK, WakeTypes
<1> QED
  BY <1>1, <1>2

\* The end of an operation keeps Control, whatever a running poll has buffered or latched.
LEMMA ControlReturn ==
  ASSUME PollTypes, Control, NEW h \in Half, NEW r, Return(h, r),
         pc[h] \in Running \/ UNCHANGED <<write_error, pending_write>>
  PROVE  Control'
BY DEF PollTypes, Control, Empty, Return, Half, Running

\* WANT_READ and WANT_WRITE keep Control, given why the writer waits.
LEMMA ControlWait ==
  ASSUME PollTypes, Control, NEW h \in Half, NEW d, NEW s \in {"pending", "ssl"}, Wait(h, d, s),
         pc[h] \in Running, write_error = "none", UNCHANGED <<op, buf, write_error, pending_write>>,
         h = "writer" => IF s = "ssl" THEN op[h] = "shutdown" /\ pending_write = <<>>
                                      ELSE pending_write # <<>>
  PROVE  Control'
BY DEF PollTypes, Control, Empty, Wait, Half, Running

\* poll_ssl_ready keeps Control.
LEMMA ControlReady ==
  ASSUME PollTypes, Control, NEW h \in Half, poll_ssl_ready(h)
  PROVE  Control'
<1> USE DEF PollTypes, Control, Empty, Half, Running
<1> USE DEF streamVars, callVars, taskVars
<1>1. CASE register(h)
  BY <1>1 DEF register
<1>2. CASE poll_ready_failed(h)
  <2>1. pc[h] \in Running /\ Return(h, "Other")
    BY <1>2 DEF poll_ready_failed, Finish, write_failure
  <2> QED
    BY ONLY <2>1, ControlReturn, PollTypes, Control, h \in Half
<1>3. CASE poll_ready_pending(h)
  BY <1>3 DEF poll_ready_pending, on_pending
<1>4. CASE poll_ready_ok(h)
  BY <1>4 DEF poll_ready_ok
<1>5. CASE clear_ready(h)
  BY <1>5 DEF clear_ready, after_clear
<1> QED
  BY <1>1, <1>2, <1>3, <1>4, <1>5, Zenon DEF poll_ssl_ready

\* The entry of a poll keeps Control: the split lock is free.
LEMMA ControlEntry ==
  ASSUME PollTypes, Control, NEW h \in Half, Poll(h)
  PROVE  Control'
<1>1. CASE poll_begin(h)
  BY <1>1 DEF poll_begin, Empty, Enter, first_step, PollTypes, Control, Half, Running, streamVars
<1>2. CASE h = "writer" /\ poll_write_refused
  BY <1>2, ControlReturn DEF poll_write_refused, Enter, streamVars
<1>3. CASE poll_empty(h)
  BY <1>3, ControlReturn DEF poll_empty, Enter, streamVars
<1> QED
  BY <1>1, <1>2, <1>3 DEF Poll

\* What the callers do after poll_pending_write keeps Control.
LEMMA ControlPendingReady ==
  ASSUME PollTypes, Control, NEW h \in Half, pc[h] = "pending", write_error = "none",
         pending_write' = <<>>, pending_ready(h)
  PROVE  Control'
<1>1. CASE Return(h, "Ok")
  BY <1>1, ControlReturn DEF Running
<1>2. CASE ~Return(h, "Ok")
  BY <1>2 DEF pending_ready, PollTypes, Control, Empty, Half, Running
<1> QED
  BY <1>1, <1>2

\* poll_pending_write keeps Control.
LEMMA ControlPending ==
  ASSUME PollTypes, Control, NEW h \in Half, poll_pending_write(h)
  PROVE  Control'
<1>0. pc[h] = "pending" /\ pc[h] \in Running
  BY DEF poll_pending_write, Running
<1>1. CASE pending_latched(h)
  BY <1>0, <1>1, ControlReturn DEF pending_latched, Finish
<1>2. CASE pending_empty(h)
  BY <1>0, <1>2, ControlPendingReady DEF pending_empty
<1>3. CASE pending_sent(h)
  BY <1>0, <1>3, ControlPendingReady DEF pending_sent
<1>4. CASE pending_blocked(h)
  BY <1>0, <1>4, ControlWait DEF pending_blocked, streamVars
<1>5. CASE pending_failed(h)
  BY <1>0, <1>5, ControlReturn DEF pending_failed, write_failure
<1> QED
  BY <1>1, <1>2, <1>3, <1>4, <1>5 DEF poll_pending_write

\* poll_read ends or waits.
LEMMA ReadOutcome ==
  ASSUME poll_read
  PROVE  \/ \E r : Finish("reader", r)
         \/ poll_read_want
BY DEF poll_read, poll_read_data, poll_read_eof, poll_read_failed

\* poll_read keeps Control.
LEMMA ControlRead ==
  ASSUME PollTypes, Control, poll_read
  PROVE  Control'
<1>0. "reader" \in Half /\ pc["reader"] \in Running /\ write_error = "none"
  BY DEF poll_read, Control, Half, Running
<1>1. ASSUME NEW r, Finish("reader", r) PROVE Control'
  BY <1>0, <1>1, ControlReturn DEF Finish
<1>2. CASE poll_read_want
  <2>1. PICK d : Wait("reader", d, "ssl")
    BY <1>2 DEF poll_read_want
  <2>2. UNCHANGED <<op, buf, write_error, pending_write>>
    BY <1>2 DEF poll_read, poll_read_want, streamVars
  <2> QED
    BY <1>0, <2>1, <2>2, ControlWait
<1> QED
  BY <1>1, <1>2, ReadOutcome

\* poll_write and poll_shutdown keep Control.
LEMMA ControlWrite ==
  ASSUME PollTypes, Control, poll_write \/ poll_shutdown
  PROVE  Control'
<1>0. "writer" \in Half /\ pc["writer"] \in Running /\ write_error = "none"
  BY DEF poll_write, poll_shutdown, Control, Half, Running
<1>1. CASE poll_write
  <2>1. PICK r : Return("writer", r)
    BY <1>1 DEF poll_write, poll_write_sent, poll_write_buffered, poll_write_failed, Finish,
                write_failure
  <2> QED
    BY <1>0, <2>1, ControlReturn
<1>2. CASE poll_shutdown /\ ~poll_shutdown_want
  <2>1. PICK r : Return("writer", r)
    BY <1>2 DEF poll_shutdown, poll_shutdown_done, poll_shutdown_failed, Finish, write_failure
  <2> QED
    BY <1>0, <2>1, ControlReturn
<1>3. CASE poll_shutdown /\ poll_shutdown_want
  <2>1. PICK d : Wait("writer", d, "ssl")
    BY <1>3 DEF poll_shutdown_want
  <2>2. op["writer"] = "shutdown" /\ pending_write = <<>>
    BY <1>3 DEF poll_shutdown, Control
  <2>3. UNCHANGED <<op, buf, write_error, pending_write>>
    BY <1>3 DEF poll_shutdown_want, streamVars
  <2> QED
    BY <1>0, <2>1, <2>2, <2>3, ControlWait
<1> QED
  BY <1>1, <1>2, <1>3

\* Application, libssl, driver and network keep Control.
LEMMA ControlOutside ==
  ASSUME PollTypes, Control, Outside
  PROVE  Control'
<1> USE DEF PollTypes, Control, Empty, Half, Running
<1> USE DEF streamVars, callVars, taskVars
<1>1. ASSUME NEW h \in Half, NEW o \in {"read", "write", "flush", "shutdown"},
             NEW n \in 0..MaxBuf, NEW t \in 1..NTasks, Call(h, o, n, t)
      PROVE  Control'
  BY <1>1 DEF Call
<1>2. ASSUME NEW h \in Half, Cancel(h) PROVE Control'
  BY <1>2 DEF Cancel, Finish, Return
<1>3. CASE UNCHANGED <<streamVars, taskVars>>
  BY <1>3
<1>4. ASSUME NEW d \in Dir, DriverWake(d) PROVE Control'
  BY <1>4 DEF DriverWake
<1>5. CASE DriverDown
  BY <1>5 DEF DriverDown
<1> QED
  BY OutsideCases, <1>1, <1>2, <1>3, <1>4, <1>5, Zenon

-----------------------------------------------------------------------------
\* A half that does not go to sleep takes no waker from the other.
LEMMA WakeAwake ==
  ASSUME PollTypes, WakeTypes, Wakeups, NEW h \in Half, NEW p, p \notin {"ready", "waiting"},
         pc' = [pc EXCEPT ![h] = p], UNCHANGED <<waiters, armed, write_error>>,
         h = "writer" \/ UNCHANGED pending_write,
         \A g \in Half \ {h} : UNCHANGED <<want[g], stage[g], task[g]>>,
         \A g \in woken \ {h} : pc[g] # "idle" => g \in woken'
  PROVE  Wakeups'
<1>1. pc'[h] = p /\ \A g \in Half \ {h} : pc'[g] = pc[g]
  BY DEF PollTypes
<1>2. \A g \in Half \ {h} : pc[g] # "idle" /\ g \in woken => g \in woken'
  OBVIOUS
<1>3. \A g \in Half \ {h} : g \in Registered => g \in Registered'
  BY DEF Registered
<1>4. armed' \in [Dir -> {"none", "shared"}]
      /\ \A g \in Half : pc'[g] = "ready" => (g \in Registered \cup woken)'
  BY <1>1, <1>2, <1>3 DEF Wakeups
<1>5. ParkedIsRegistered'
  BY <1>1, <1>2, <1>3 DEF Wakeups, ParkedIsRegistered
<1>6. NobodySleepsOnError' /\ NobodySleepsOnDrained'
  BY <1>1, <1>2 DEF Wakeups, NobodySleepsOnError, NobodySleepsOnDrained, Half
<1> QED
  BY <1>4, <1>5, <1>6 DEF Wakeups

\* An operation that ends does not go to sleep.
LEMMA WakeReturn ==
  ASSUME PollTypes, WakeTypes, Wakeups, NEW h \in Half, NEW r, Return(h, r),
         UNCHANGED <<waiters, armed, write_error>>, h = "writer" \/ UNCHANGED pending_write,
         \A g \in woken \ {h} : pc[g] # "idle" => g \in woken'
  PROVE  Wakeups'
<1>1. \A g \in Half \ {h} : UNCHANGED <<want[g], stage[g], task[g]>>
  BY DEF Return, PollTypes, WakeTypes
<1> QED
  BY <1>1, WakeAwake, Zenon DEF Return

\* Nor does a poll that has yet to register.
LEMMA WakeWait ==
  ASSUME PollTypes, WakeTypes, Wakeups, NEW h \in Half, NEW d, NEW s, Wait(h, d, s),
         UNCHANGED <<waiters, task, armed, write_error, pending_write, woken>>
  PROVE  Wakeups'
<1>1. \A g \in Half \ {h} : UNCHANGED <<want[g], stage[g], task[g]>>
  BY DEF Wait, PollTypes, WakeTypes
<1> QED
  BY <1>1, WakeAwake, Zenon DEF Wait

\* After notify whoever slept, or was about to, is woken.
LEMMA WakeNotified ==
  ASSUME PollTypes, Wakeups, NEW h \in Half, NEW p, p \notin {"ready", "waiting"},
         pc' = [pc EXCEPT ![h] = p], Notify, UNCHANGED armed
  PROVE  Wakeups'
<1>1. ASSUME NEW g \in Half, pc'[g] \in {"ready", "waiting"} PROVE g \in woken'
  <2>1. pc'[g] = pc[g]
    BY <1>1 DEF PollTypes
  <2>2. g \in Registered \cup woken
    BY <1>1, <2>1 DEF Wakeups, ParkedIsRegistered
  <2> QED
    BY <1>1, <2>2 DEF Notify
<1> QED
  BY <1>1, Zenon DEF Wakeups, ParkedIsRegistered, NobodySleepsOnError, NobodySleepsOnDrained, Half

\* poll_ssl_ready parks a half only with its waker in place.
LEMMA WakeReady ==
  ASSUME PollTypes, WakeTypes, Control, Wakeups, NEW h \in Half, poll_ssl_ready(h)
  PROVE  Wakeups'
<1> USE DEF streamVars, callVars, tokioVars
<1>1. CASE register(h)
  BY <1>1 DEF register, slot, PollTypes, WakeTypes, Wakeups, Half, Registered,
              ParkedIsRegistered, NobodySleepsOnError, NobodySleepsOnDrained
<1>2. CASE poll_ready_failed(h)
  <2>1. CASE Finish(h, "Other") /\ UNCHANGED streamVars
    BY <1>2, <2>1, WakeReturn DEF poll_ready_failed, Finish
  <2>2. CASE write_failure(h, "Other")
    BY <1>2, <2>2, WakeNotified, Zenon DEF poll_ready_failed, write_failure, Return
  <2> QED
    BY <1>2, <2>1, <2>2, Zenon DEF poll_ready_failed
<1>3. CASE poll_ready_pending(h)
  <2>1. armed' = [armed EXCEPT ![want[h]] = "shared"] /\ want[h] \in Dir
    BY <1>3 DEF poll_ready_pending, wait_waker, WakeTypes
  <2>2. /\ armed' \in [Dir -> {"none", "shared"}] /\ armed'[want[h]] = "shared"
        /\ \A g \in Half : armed[want[g]] = "shared" => armed'[want[g]] = "shared"
    BY <2>1 DEF Wakeups, WakeTypes
  <2>3. pc[h] = "ready" /\ pc' = [pc EXCEPT ![h] = on_pending(h)]
        /\ UNCHANGED <<streamVars, callVars, woken>> /\ on_pending(h) \in {"ssl", "waiting"}
    BY <1>3, Zenon DEF poll_ready_pending, on_pending
  <2>4. h \in Registered \cup woken /\ write_error = "none"
    BY <2>3 DEF Wakeups, Control, Running
  <2>5. h = "writer" => stage[h] = "ssl" \/ pending_write # <<>>
    BY <2>3 DEF Control
  <2>6. ParkedIsRegistered'
    BY <2>2, <2>3, <2>4, Zenon DEF Wakeups, ParkedIsRegistered, PollTypes, Registered
  <2>7. NobodySleepsOnError' /\ NobodySleepsOnDrained'
    BY <2>3, <2>4, <2>5 DEF Wakeups, NobodySleepsOnError, NobodySleepsOnDrained, PollTypes
  <2>8. \A g \in Half : pc'[g] = "ready" => (g \in Registered \cup woken)'
    BY <2>3, Zenon DEF Wakeups, PollTypes, Registered
  <2> QED
    BY <2>2, <2>6, <2>7, <2>8, Zenon DEF Wakeups
<1>4. CASE poll_ready_ok(h)
  BY <1>4, WakeAwake, Zenon DEF poll_ready_ok
<1>5. CASE clear_ready(h)
  <2>1. stage[h] \notin {"ready", "waiting"}
    BY DEF PollTypes
  <2> QED
    BY <1>5, <2>1, WakeAwake, Zenon DEF clear_ready, after_clear
<1> QED
  BY <1>1, <1>2, <1>3, <1>4, <1>5 DEF poll_ssl_ready

\* The entry of a poll leaves no other half without a waker.
LEMMA WakeEntry ==
  ASSUME PollTypes, WakeTypes, Wakeups, NEW h \in Half, Poll(h)
  PROVE  Wakeups'
<1> USE DEF streamVars, tokioVars
<1>1. CASE poll_begin(h)
  <2>1. \A g \in Half \ {h} : UNCHANGED <<want[g], stage[g], task[g]>>
    BY <1>1 DEF poll_begin, PollTypes, WakeTypes
  <2> QED
    BY <1>1, <2>1, WakeAwake, Zenon DEF poll_begin, Enter, first_step
<1>2. CASE h = "writer" /\ poll_write_refused
  BY <1>2, WakeReturn DEF poll_write_refused, Enter
<1>3. CASE poll_empty(h)
  BY <1>3, WakeReturn DEF poll_empty, Enter
<1> QED
  BY <1>1, <1>2, <1>3 DEF Poll

\* poll_pending_write wakes both halves when it completes or fails.
LEMMA WakePending ==
  ASSUME PollTypes, WakeTypes, Wakeups, NEW h \in Half, poll_pending_write(h)
  PROVE  Wakeups'
<1> USE DEF streamVars, tokioVars
<1>1. CASE pending_latched(h)
  BY <1>1, WakeReturn DEF pending_latched, kept_error, Finish
<1>2. CASE pending_empty(h)
  <2>1. \A g \in Half \ {h} : UNCHANGED <<want[g], stage[g], task[g]>>
    BY <1>2, Zenon DEF pending_empty, pending_ready, Return, PollTypes, WakeTypes
  <2>2. PICK p \in {"idle", "ssl"} : pc' = [pc EXCEPT ![h] = p]
    BY <1>2 DEF pending_empty, pending_ready, Return
  <2>3. \A g \in woken \ {h} : pc[g] # "idle" => g \in woken'
    BY <1>2, <2>2 DEF pending_empty, PollTypes, WakeTypes
  <2> QED
    BY <1>2, <2>1, <2>2, <2>3, WakeAwake, Zenon DEF pending_empty, pending_ready
<1>3. CASE pending_sent(h)
  <2>1. PICK p \in {"idle", "ssl"} : pc' = [pc EXCEPT ![h] = p]
    BY <1>3 DEF pending_sent, pending_ready, Return
  <2> QED
    BY <1>3, <2>1, WakeNotified, Zenon DEF pending_sent, pending_ready
<1>4. CASE pending_blocked(h)
  BY <1>4, WakeWait DEF pending_blocked
<1>5. CASE pending_failed(h)
  BY <1>5, WakeNotified, Zenon DEF pending_failed, write_failure, Return
<1> QED
  BY <1>1, <1>2, <1>3, <1>4, <1>5 DEF poll_pending_write

\* poll_read leaves no half without a waker.
LEMMA WakeRead ==
  ASSUME PollTypes, WakeTypes, Wakeups, poll_read
  PROVE  Wakeups'
<1>0. "reader" \in Half /\ UNCHANGED <<pending_write, write_error, waiters, armed>>
  BY DEF poll_read, Half, streamVars, tokioVars
<1>1. ASSUME NEW r, Finish("reader", r) PROVE Wakeups'
  BY <1>0, <1>1, WakeReturn DEF Finish
<1>2. CASE poll_read_want
  BY <1>0, <1>2, WakeWait DEF poll_read_want
<1> QED
  BY <1>1, <1>2, ReadOutcome

\* poll_write and poll_shutdown leave no half without a waker.
LEMMA WakeWrite ==
  ASSUME PollTypes, WakeTypes, Wakeups, poll_write \/ poll_shutdown
  PROVE  Wakeups'
<1>0. "writer" \in Half /\ UNCHANGED armed
  BY DEF poll_write, poll_shutdown, Half, tokioVars
<1>1. CASE poll_write_sent \/ poll_write_buffered \/ poll_shutdown_done
  <2>1. Finish("writer", "Ok") /\ UNCHANGED <<waiters, write_error>>
    BY <1>1 DEF poll_write_sent, poll_write_buffered, poll_shutdown_done, streamVars
  <2> QED
    BY <1>0, <2>1, WakeReturn DEF Finish
<1>2. CASE poll_write_failed \/ poll_shutdown_failed
  <2>1. write_failure("writer", ssl_io_error(Cause))
    BY <1>2 DEF poll_write_failed, poll_shutdown_failed
  <2> QED
    BY <1>0, <2>1, WakeNotified, Zenon DEF write_failure, Return
<1>3. CASE poll_shutdown_want
  BY <1>0, <1>3, WakeWait DEF poll_shutdown_want, streamVars
<1> QED
  BY <1>1, <1>2, <1>3 DEF poll_write, poll_shutdown

\* The driver wakes whom it takes the waker of, a call starts woken.
LEMMA WakeOutside ==
  ASSUME PollTypes, WakeTypes, Control, Wakeups, Outside
  PROVE  Wakeups'
<1> USE DEF PollTypes, WakeTypes, Control, Wakeups, Half, Running, Registered, ParkedIsRegistered,
            NobodySleepsOnError, NobodySleepsOnDrained
<1> USE DEF streamVars, callVars, taskVars, tokioVars
<1>1. ASSUME NEW h \in Half, NEW o \in {"read", "write", "flush", "shutdown"},
             NEW n \in 0..MaxBuf, NEW t \in 1..NTasks, Call(h, o, n, t)
      PROVE  Wakeups'
  BY <1>1, Zenon DEF Call
<1>2. ASSUME NEW h \in Half, Cancel(h) PROVE Wakeups'
  BY <1>2 DEF Cancel, Finish, Return
<1>3. ASSUME NEW d \in Dir, DriverWake(d) PROVE Wakeups'
  BY <1>3, Zenon DEF DriverWake, WakeArmed, Dir
<1>4. CASE DriverDown
  BY <1>4, Zenon DEF DriverDown, WakeArmed, Dir
<1>5. CASE UNCHANGED <<streamVars, taskVars, wbuf, alert, armed, history>>
  BY <1>5
<1> QED
  BY ONLY OutsideCases, Outside, <1>1, <1>2, <1>3, <1>4, <1>5, Zenon

-----------------------------------------------------------------------------
\* A step that leaves the buffers, libssl's write state and the wire alone, and closes nothing, keeps Data.
LEMMA DataFrame ==
  ASSUME Data, UNCHANGED <<pending_write, alert, wbuf, history>>,
         shutdown' = shutdown \/ shutdown' # "Closed"
  PROVE  Data'
BY DEF Data, Taken, SameBytesRetried, history

\* Concatenation onto the wire of the bytes that come next.
LEMMA WireExtended ==
  ASSUME NEW w \in Seq(Nat), NEW c \in Seq(Nat),
         \A i \in 1..Len(w) : w[i] = i, \A i \in 1..Len(c) : c[i] = Len(w) + i
  PROVE  /\ Len(w \o c) = Len(w) + Len(c)
         /\ \A i \in 1..Len(w \o c) : (w \o c)[i] = i
OBVIOUS

\* poll_pending_write moves the buffered chunk to the wire, once.
LEMMA DataPending ==
  ASSUME TypeOK, Control, Data, NEW h \in Half, poll_pending_write(h)
  PROVE  Data'
<1> USE DEF streamVars, sslVars, history
<1>1. CASE pending_latched(h)
  BY <1>1, DataFrame DEF pending_latched
<1>2. CASE pending_empty(h)
  BY <1>2, DataFrame DEF pending_empty, pending_ready
<1>3. CASE pending_sent(h)
  <2>1. /\ alert = "none" /\ alert' = "none" /\ pending_write' = <<>> /\ wbuf' = <<>>
        /\ wire' = wire \o pending_write /\ accepted' = accepted
        /\ shutdown' = shutdown \/ shutdown' # "Closed"
    BY <1>3 DEF pending_sent, SSL_write_done, pending_ready
  <2>2. /\ wire \in Seq(Nat) /\ pending_write \in Seq(Nat)
        /\ \A i \in 1..Len(wire) : wire[i] = i
        /\ \A i \in 1..Len(pending_write) : pending_write[i] = Len(wire) + i
        /\ accepted = Len(wire) + Len(pending_write)
    BY <2>1 DEF TypeOK, Data, Taken
  <2>3. Len(wire') = accepted /\ \A i \in 1..Len(wire') : wire'[i] = i
    BY <2>1, <2>2, WireExtended
  <2> QED
    BY <2>1, <2>2, <2>3 DEF Data, Taken, SameBytesRetried
<1>4. CASE pending_blocked(h)
  <2>1. wbuf' = wbuf \/ wbuf' = pending_write
    BY <1>4 DEF pending_blocked, SSL_write_want
  <2> QED
    BY <1>4, <2>1 DEF pending_blocked, SSL_write_want, Data, Taken, SameBytesRetried
<1>5. CASE pending_failed(h)
  BY <1>5, DataFrame DEF pending_failed, SSL_write_failed
<1> QED
  BY <1>1, <1>2, <1>3, <1>4, <1>5 DEF poll_pending_write

\* poll_write puts its chunk on the wire or into the buffer, once.
LEMMA DataWrite ==
  ASSUME TypeOK, Control, Data, poll_write
  PROVE  Data'
<1> USE DEF streamVars, sslVars, history
<1>0. pending_write = <<>> /\ wbuf = <<>>
  BY DEF poll_write, Control, Data, SameBytesRetried
<1>1. CASE poll_write_sent
  <2>1. /\ alert = "none" /\ alert' = "none" /\ pending_write' = <<>> /\ wbuf' = <<>>
        /\ wire' = wire \o Chunk /\ accepted' = accepted + Len(Chunk) /\ shutdown' = shutdown
    BY <1>0, <1>1 DEF poll_write_sent, SSL_write_done
  <2>2. /\ wire \in Seq(Nat) /\ accepted = Len(wire)
        /\ \A i \in 1..Len(wire) : wire[i] = i
    BY <1>0, <2>1 DEF TypeOK, Data, Taken
  <2>3. Len(wire') = accepted' /\ \A i \in 1..Len(wire') : wire'[i] = i
    BY <2>1, <2>2, WireExtended, ChunkFacts
  <2> QED
    BY <2>1, <2>2, <2>3 DEF Data, Taken, SameBytesRetried
<1>2. CASE poll_write_buffered
  <2>1. pending_write' = Chunk
    BY <1>0, <1>2, ChunkFacts DEF poll_write_buffered, Retained
  <2>2. /\ alert = "none" /\ alert' = "none" /\ wire' = wire /\ shutdown' = shutdown
        /\ accepted' = accepted + Len(Chunk) /\ wbuf' \in {<<>>, Chunk}
    BY <1>0, <1>2 DEF poll_write_buffered, SSL_write_want
  <2>3. accepted = Len(wire)
    BY <1>0, <2>2 DEF Data, Taken, TypeOK
  <2> QED
    BY <2>1, <2>2, <2>3, ChunkFacts, Zenon DEF Data, Taken, SameBytesRetried, TypeOK
<1>3. CASE poll_write_failed
  BY <1>3, DataFrame DEF poll_write_failed, SSL_write_failed
<1> QED
  BY <1>1, <1>2, <1>3 DEF poll_write

\* poll_shutdown puts close_notify behind all that was accepted.
LEMMA DataShutdown ==
  ASSUME TypeOK, Control, Data, poll_shutdown
  PROVE  Data'
<1> USE DEF streamVars, sslVars, history
<1>0. pending_write = <<>> /\ wbuf = <<>>
  BY DEF poll_shutdown, Control, Data, SameBytesRetried
<1>1. CASE poll_shutdown_done
  <2>1. /\ alert' = "sent" /\ pending_write' = <<>> /\ wbuf' = <<>> /\ accepted' = accepted
    BY <1>0, <1>1 DEF poll_shutdown, poll_shutdown_done, SSL_shutdown_done
  <2>2. CASE alert # "sent" /\ wire' = Append(wire, CloseNotify)
    <3>1. wire \in Seq(Nat) /\ CloseNotify \in Nat
      BY DEF TypeOK, CloseNotify
    <3>2. /\ Len(wire') = Len(wire) + 1 /\ wire'[Len(wire')] = CloseNotify
          /\ \A i \in 1..Len(wire) : wire'[i] = wire[i]
      BY <2>2, <3>1
    <3>3. Taken = Len(wire) /\ Taken' = Len(wire) /\ Len(wire) \in Nat
      BY <2>1, <2>2, <3>1, <3>2 DEF Taken
    <3>4. accepted = Taken + 0 /\ \A i \in 1..Taken : wire[i] = i
      BY <1>0 DEF Data
    <3> QED
      BY <1>0, <2>1, <3>2, <3>3, <3>4 DEF Data, SameBytesRetried
  <2>3. CASE alert = "sent" /\ wire' = wire
    BY <1>0, <2>1, <2>3 DEF Data, Taken, SameBytesRetried
  <2> QED
    BY <1>1, <2>2, <2>3 DEF poll_shutdown_done, SSL_shutdown_done
<1>2. CASE poll_shutdown_want
  BY <1>0, <1>2 DEF poll_shutdown, poll_shutdown_want, SSL_shutdown_want, Data, Taken,
                    SameBytesRetried
<1>3. CASE poll_shutdown_failed
  BY <1>3, DataFrame DEF poll_shutdown, poll_shutdown_failed
<1> QED
  BY <1>1, <1>2, <1>3 DEF poll_shutdown

\* Application, libssl's exchanges, driver and network keep Data.
LEMMA DataOutside ==
  ASSUME Data, Outside
  PROVE  Data'
<1>1. UNCHANGED <<pending_write, shutdown, alert, wbuf, history>>
  <2>1. ASSUME NEW h \in Half, NEW o, NEW n, NEW t, Call(h, o, n, t)
        PROVE  UNCHANGED <<pending_write, shutdown, alert, wbuf, history>>
    BY <2>1 DEF Call, streamVars, sslVars
  <2>2. ASSUME NEW h \in Half, Cancel(h)
        PROVE  UNCHANGED <<pending_write, shutdown, alert, wbuf, history>>
    BY <2>2 DEF Cancel, streamVars, sslVars
  <2>3. ASSUME NEW d \in Dir, DriverWake(d)
        PROVE  UNCHANGED <<pending_write, shutdown, alert, wbuf, history>>
    BY <2>3 DEF DriverWake, sslVars
  <2>4. CASE DriverDown
    BY <2>4 DEF DriverDown, sslVars
  <2>5. CASE UNCHANGED <<streamVars, taskVars, wbuf, alert, armed, history>>
    BY <2>5 DEF streamVars
  <2> QED
    BY OutsideCases, <2>1, <2>2, <2>3, <2>4, <2>5
<1> QED
  BY <1>1, DataFrame

\* poll_ssl_ready, poll_read and the entry of a poll keep Data.
LEMMA DataElsewhere ==
  ASSUME Data, \/ \E h \in Half : Poll(h) \/ poll_ssl_ready(h)
               \/ poll_read
  PROVE  Data'
<1> USE DEF streamVars, sslVars, history
<1>1. ASSUME NEW h \in Half, Poll(h) PROVE Data'
  BY <1>1, DataFrame, Zenon DEF Poll, poll_empty, poll_begin, poll_write_refused, Enter
<1>2. ASSUME NEW h \in Half, poll_ssl_ready(h) PROVE Data'
  BY <1>2, DataFrame, Zenon DEF poll_ssl_ready, register, poll_ready_failed, poll_ready_pending,
                         poll_ready_ok, clear_ready
<1>3. CASE poll_read
  BY <1>3, DataFrame DEF poll_read
<1> QED
  BY <1>1, <1>2, <1>3

-----------------------------------------------------------------------------
\* The steps of the system, as the lemmas above split them.
LEMMA NextCases ==
  ASSUME Next
  PROVE  \/ \E h \in Half : Poll(h) \/ poll_ssl_ready(h) \/ poll_pending_write(h)
         \/ poll_read \/ poll_write \/ poll_shutdown
         \/ Outside
BY DEF Next, Step, Outside

\* The inductive invariant holds of a stream as from_parts makes it.
LEMMA InitInv == Init => IInv
<1> SUFFICES ASSUME Init PROVE IInv
  OBVIOUS
<1>1. TypeOK
  BY InitTypeOK
<1>2. Control /\ Wakeups
  BY <1>1 DEF Init, Control, Wakeups, ParkedIsRegistered, NobodySleepsOnError,
              NobodySleepsOnDrained, Half, Dir, Running
<1>3. Data
  BY <1>1 DEF Init, Data, Taken, SameBytesRetried
<1> QED
  BY <1>1, <1>2, <1>3 DEF IInv

\* Every step keeps the inductive invariant.
LEMMA StepInv == IInv /\ [Next]_vars => IInv'
<1> SUFFICES ASSUME IInv, [Next]_vars PROVE IInv'
  OBVIOUS
<1> USE NarrowTypes DEF IInv
<1>1. ASSUME NEW h \in Half, Poll(h) PROVE IInv'
  BY <1>1, TypeEntry, ControlEntry, WakeEntry, DataElsewhere
<1>2. ASSUME NEW h \in Half, poll_ssl_ready(h) PROVE IInv'
  BY <1>2, TypeReady, ControlReady, WakeReady, DataElsewhere
<1>3. ASSUME NEW h \in Half, poll_pending_write(h) PROVE IInv'
  BY <1>3, TypePending, ControlPending, WakePending, DataPending
<1>4. CASE poll_read
  BY <1>4, TypeRead, ControlRead, WakeRead, DataElsewhere
<1>5. CASE poll_write
  <2>1. pending_write = <<>>
    BY <1>5 DEF poll_write, Control
  <2> QED
    BY <1>5, <2>1, TypeWrite, ControlWrite, WakeWrite, DataWrite
<1>6. CASE poll_shutdown
  BY <1>6, TypeShutdown, ControlWrite, WakeWrite, DataShutdown
<1>7. CASE Outside
  BY <1>7, TypeOutside, ControlOutside, WakeOutside, DataOutside
<1>8. CASE UNCHANGED vars
  <2> USE <1>8 DEF vars, streamVars, callVars, taskVars, sslVars, sockVars, tokioVars, history
  <2>1. TypeOK'
    BY Zenon DEF TypeOK
  <2>2. Control'
    BY Zenon DEF Control, Empty
  <2>3. Wakeups'
    BY Zenon DEF Wakeups, ParkedIsRegistered, NobodySleepsOnError, NobodySleepsOnDrained, Registered
  <2>4. Data'
    BY DataFrame
  <2> QED
    BY <2>1, <2>2, <2>3, <2>4
<1> QED
  BY <1>1, <1>2, <1>3, <1>4, <1>5, <1>6, <1>7, <1>8, NextCases

\* The inductive invariant holds in every reachable state.
LEMMA Invariance == Spec => []IInv
BY InitInv, StepInv, PTL DEF Spec

\* Data in terms of the wire alone: where close_notify is and what was sent.
LEMMA DataMeaning ==
  ASSUME TypeOK, Data
  PROVE  (CloseSent <=> alert = "sent") /\ Sent = Taken /\ ExactlyOnce /\ CloseAfterData
<1>1. CloseSent <=> alert = "sent"
  <2>1. ASSUME alert = "sent" PROVE CloseSent
    BY <2>1 DEF TypeOK, Data, CloseSent
  <2>2. ASSUME alert # "sent", wire # <<>> PROVE wire[Len(wire)] # CloseNotify
    <3>1. Len(wire) \in 1..Taken
      BY <2>2 DEF TypeOK, Taken
    <3> QED
      BY <3>1 DEF Data, CloseNotify
  <2> QED
    BY <2>1, <2>2 DEF CloseSent
<1>2. Sent = Taken
  BY <1>1 DEF Sent, Taken
<1>3. ExactlyOnce
  BY <1>2 DEF Data, ExactlyOnce
<1>4. CloseAfterData
  <2>1. Taken \in Int
    BY DEF TypeOK, Taken
  <2> QED
    BY <1>2, <2>1 DEF Data, CloseAfterData
<1> QED
  BY <1>1, <1>2, <1>3, <1>4

-----------------------------------------------------------------------------
(* The stream's state keeps its types: in particular poll_write never has  *)
(* more than one chunk of MAX_PLAINTEXT bytes buffered.                    *)
THEOREM TypeCorrect == Spec => []TypeOK
<1>1. IInv => TypeOK
  BY DEF IInv
<1> QED
  BY <1>1, Invariance, PTL

(* Every acknowledged byte is on the wire or in pending_write, once and in *)
(* order, for any sizes, tasks and failures (poll_write,                   *)
(* poll_pending_write).                                                    *)
THEOREM BytesExactlyOnce == Spec => []ExactlyOnce
<1>1. IInv => ExactlyOnce
  BY DataMeaning DEF IInv
<1> QED
  BY <1>1, Invariance, PTL

(* close_notify begins only when everything accepted has been sent.        *)
THEOREM CloseComesLast == Spec => []CloseAfterData
<1>1. IInv => CloseAfterData
  BY DataMeaning DEF IInv
<1> QED
  BY <1>1, Invariance, PTL

(* A retried SSL_write always repeats the bytes libssl is committed to.    *)
THEOREM RetriesRepeat == Spec => []SameBytesRetried
<1>1. IInv => SameBytesRetried
  BY DEF IInv, Data
<1> QED
  BY <1>1, Invariance, PTL

(* A parked half has its own waker in IoWaiters and the shared one in      *)
(* tokio, or has been woken (poll_ssl_ready, register, notify).            *)
THEOREM NoLostWaker == Spec => []ParkedIsRegistered
<1>1. IInv => ParkedIsRegistered
  BY DEF IInv, Wakeups
<1> QED
  BY <1>1, Invariance, PTL

(* Nobody sleeps through a latched write error: a half that waits when     *)
(* write_failure latches one is woken to report it.                        *)
THEOREM ErrorWakes == Spec => []NobodySleepsOnError
<1>1. IInv => NobodySleepsOnError
  BY DEF IInv, Wakeups
<1> QED
  BY <1>1, Invariance, PTL

(* Nobody sleeps through the completion of the pending write by the other  *)
(* half (poll_pending_write).                                              *)
THEOREM DrainWakes == Spec => []NobodySleepsOnDrained
<1>1. IInv => NobodySleepsOnDrained
  BY DEF IInv, Wakeups
<1> QED
  BY <1>1, Invariance, PTL

-----------------------------------------------------------------------------
\* Under the invariant the end of the wire tells what libssl has sent.
LEMMA Meaning == IInv => (CloseSent <=> alert = "sent") /\ Sent = Taken
BY DataMeaning DEF IInv

\* With nothing buffered, everything accepted is on the wire.
LEMMA DrainedMeaning == IInv => (pending_write = <<>> => Sent = accepted)
<1> SUFFICES ASSUME IInv, pending_write = <<>> PROVE Sent = accepted
  OBVIOUS
<1>1. Taken \in Int
  BY DEF IInv, TypeOK, Taken
<1>2. accepted = Taken + 0
  BY DEF IInv, Data
<1> QED
  BY <1>1, <1>2, Meaning

\* What can be said when an operation of the writer ends well.
LEMMA WriterDone ==
  ASSUME IInv, IInv', Next, op["writer"] \in {"flush", "shutdown"}, op'["writer"] = "none",
         result'["writer"] = "Ok"
  PROVE  /\ pending_write' = <<>> /\ accepted' = accepted
         /\ op["writer"] = "shutdown" => alert' = "sent"
<1>0. /\ Control /\ Data /\ op \in [Half -> {"none", "read", "write", "flush", "shutdown"}]
      /\ result \in [Half -> {"none", "Ok", "Eof", "BrokenPipe"} \cup IoError]
      /\ "reader" \in Half /\ "writer" \in Half
  BY Zenon DEF IInv, TypeOK, Half
<1> USE DEF streamVars, callVars, taskVars, sslVars, history
<1>1. ASSUME NEW h \in Half, Poll(h) PROVE FALSE
  <2>1. CASE poll_empty(h)
    BY <1>0, <2>1 DEF poll_empty, Empty, Return
  <2> QED
    BY <1>1, <2>1 DEF Poll, poll_begin, poll_write_refused, Enter
<1>a. ASSUME NEW h \in Half, NEW r, r # "Ok", Return(h, r) PROVE FALSE
  BY <1>0, <1>a DEF Return
<1>2. ASSUME NEW h \in Half, poll_ssl_ready(h) PROVE FALSE
  <2>1. CASE poll_ready_failed(h)
    BY <2>1, <1>a DEF poll_ready_failed, Finish, write_failure
  <2>2. CASE ~poll_ready_failed(h)
    BY <1>2, <2>2, Zenon DEF poll_ssl_ready, register, poll_ready_pending, poll_ready_ok, clear_ready
  <2> QED
    BY <2>1, <2>2
<1>3. CASE poll_read
  <2>1. UNCHANGED op \/ \E r : Return("reader", r)
    BY <1>3, ReadOutcome DEF poll_read_want, Finish
  <2>2. op'["writer"] = op["writer"]
    BY <1>0, <2>1 DEF Return
  <2> QED
    BY <2>2
<1>4. CASE poll_write
  BY <1>4 DEF poll_write
<1>5. CASE poll_shutdown
  <2>1. CASE poll_shutdown_done
    BY <1>0, <1>5, <2>1 DEF poll_shutdown, poll_shutdown_done, SSL_shutdown_done, Control
  <2>2. CASE poll_shutdown_want
    BY <2>2 DEF poll_shutdown_want
  <2>3. CASE poll_shutdown_failed
    BY <1>0, <1>a, <2>3, TypeErrors DEF poll_shutdown_failed, write_failure, IoError
  <2> QED
    BY <1>5, <2>1, <2>2, <2>3 DEF poll_shutdown
<1>6. CASE Outside
  <2>1. ASSUME NEW h \in Half, NEW o \in {"read", "write", "flush", "shutdown"},
               NEW n \in 0..MaxBuf, NEW t \in 1..NTasks, Call(h, o, n, t)
        PROVE  FALSE
    BY <1>0, <2>1 DEF Call
  <2>2. ASSUME NEW h \in Half, Cancel(h) PROVE FALSE
    BY <1>a, <2>2 DEF Cancel, Finish
  <2>3. CASE (\E d \in Dir : DriverWake(d)) \/ DriverDown
    BY <2>3, Zenon DEF DriverWake, DriverDown
  <2>4. CASE UNCHANGED <<streamVars, taskVars, wbuf, alert, armed, history>>
    BY <2>4
  <2> QED
    BY ONLY <1>6, OutsideCases, <2>1, <2>2, <2>3, <2>4
<1>7. ASSUME NEW h \in Half, poll_pending_write(h)
      PROVE  /\ pending_write' = <<>> /\ accepted' = accepted
             /\ op["writer"] = "shutdown" => alert' = "sent"
  <2>0. ASSUME pending_ready(h), UNCHANGED alert
        PROVE  op["writer"] = "shutdown" => alert' = "sent"
    <3>1. CASE h = "writer"
      BY <1>0, <2>0, <3>1 DEF pending_ready, is_closed, Data
    <3>2. CASE h # "writer"
      BY <1>0, <2>0, <3>2 DEF pending_ready, Return
    <3> QED
      BY <3>1, <3>2
  <2>1. CASE pending_latched(h)
    BY <1>a, <2>1, Zenon DEF pending_latched, Finish, IInv, TypeOK, IoError
  <2>2. CASE pending_empty(h)
    BY <2>0, <2>2 DEF pending_empty, pending_ready
  <2>3. CASE pending_sent(h)
    BY <2>0, <2>3 DEF pending_sent, SSL_write_done, pending_ready
  <2>4. CASE pending_blocked(h)
    BY <2>4 DEF pending_blocked
  <2>5. CASE pending_failed(h)
    BY <1>a, <2>5, TypeErrors DEF pending_failed, write_failure, IoError
  <2> QED
    BY <1>7, <2>1, <2>2, <2>3, <2>4, <2>5 DEF poll_pending_write
<1> QED
  BY ONLY <1>1, <1>2, <1>3, <1>4, <1>5, <1>6, <1>7, NextCases, Next

(* When poll_flush or poll_shutdown returns Ok, everything accepted is on  *)
(* the wire, and after poll_shutdown so is close_notify.                   *)
THEOREM FlushIsComplete == Spec => FlushMeansSent
<1> DEFINE Meant == /\ CloseSent <=> alert = "sent"
                    /\ pending_write = <<>> => Sent = accepted
<1>1. ASSUME IInv, IInv', Next, Meant'
      PROVE  op["writer"] \in {"flush", "shutdown"} /\ op'["writer"] = "none"
               /\ result'["writer"] = "Ok"
             => Sent' = accepted /\ (op["writer"] = "shutdown" => CloseSent')
  BY <1>1, WriterDone
<1>2. IInv /\ IInv' /\ [Next]_vars /\ Meant'
      => [op["writer"] \in {"flush", "shutdown"} /\ op'["writer"] = "none"
            /\ result'["writer"] = "Ok"
          => /\ Sent' = accepted
             /\ op["writer"] = "shutdown" => CloseSent']_vars
  BY <1>1
<1>3. IInv => Meant
  BY Meaning, DrainedMeaning
<1> HIDE DEF Meant
<1>4. IInv' => Meant'
  BY <1>3, PTL
<1> QED
  BY <1>2, <1>4, Invariance, PTL DEF Spec, FlushMeansSent

\* The end of an operation is the end of that half's operation only.
LEMMA ReturnEnds ==
  ASSUME PollTypes, result \in [Half -> {"none", "Ok", "Eof", "BrokenPipe"} \cup IoError],
         NEW h \in Half, NEW r, Return(h, r)
  PROVE  \A g \in Half : op[g] # "none" /\ op'[g] = "none" => g = h /\ result'[g] = r
BY DEF PollTypes, Return

\* Once an error is latched no poll with a buffer gets past reporting it.
LEMMA LatchedStep ==
  ASSUME IInv, Next, write_error # "none"
  PROVE  /\ write_error' = write_error
         /\ \A h \in Half : op[h] # "none" /\ op'[h] = "none"
              => result'[h] \in {IF Empty(h) THEN "Ok" ELSE write_error, "none"}
<1> DEFINE Told(g) == op[g] # "none" /\ op'[g] = "none"
                        => result'[g] \in {IF Empty(g) THEN "Ok" ELSE write_error, "none"}
           Goal == write_error' = write_error /\ \A g \in Half : Told(g)
<1>0. /\ PollTypes /\ result \in [Half -> {"none", "Ok", "Eof", "BrokenPipe"} \cup IoError]
      /\ \A h \in Half : pc[h] \in Running => pc[h] = "pending" /\ ~Empty(h)
  BY NarrowTypes DEF IInv, TypeOK, Control
<1>1. ASSUME NEW h \in Half, Poll(h) PROVE Goal
  <2>1. write_error' = write_error
    BY <1>1 DEF Poll, poll_empty, poll_begin, poll_write_refused, Enter, streamVars
  <2>2. CASE poll_empty(h)
    BY <1>0, <2>1, <2>2, ReturnEnds, Zenon DEF poll_empty
  <2>3. CASE poll_begin(h)
    BY <2>1, <2>3 DEF poll_begin
  <2>4. CASE h = "writer" /\ poll_write_refused
    BY <1>0, <2>1, <2>4, ReturnEnds, Zenon DEF poll_write_refused
  <2> QED
    BY <1>1, <2>2, <2>3, <2>4 DEF Poll
<1>2. ASSUME NEW h \in Half, poll_ssl_ready(h) PROVE Goal
  BY <1>0, <1>2, Zenon DEF poll_ssl_ready, register, poll_ready_failed, poll_ready_pending,
              poll_ready_ok, clear_ready, Running
<1>3. ASSUME NEW h \in Half, poll_pending_write(h) PROVE Goal
  <2>1. ~Empty(h) /\ pending_latched(h)
    BY <1>0, <1>3, Zenon DEF poll_pending_write, pending_empty, pending_sent, pending_blocked,
              pending_failed, Running
  <2>2. Return(h, write_error) /\ write_error' = write_error
    BY <2>1 DEF pending_latched, kept_error, Finish
  <2> QED
    BY <1>0, <2>1, <2>2, ReturnEnds, Zenon
<1>4. CASE poll_read \/ poll_write \/ poll_shutdown
  BY <1>0, <1>4, Zenon DEF poll_read, poll_write, poll_shutdown, Half, Running
<1>5. CASE Outside
  <2>1. ASSUME NEW h \in Half, NEW o \in {"read", "write", "flush", "shutdown"},
               NEW n \in 0..MaxBuf, NEW t \in 1..NTasks, Call(h, o, n, t)
        PROVE  Goal
    BY <1>0, <2>1 DEF Call, PollTypes, streamVars
  <2>2. ASSUME NEW h \in Half, Cancel(h) PROVE Goal
    BY <1>0, <2>2, ReturnEnds, Zenon DEF Cancel, Finish, streamVars
  <2>3. CASE (\E d \in Dir : DriverWake(d)) \/ DriverDown
    BY <2>3, Zenon DEF DriverWake, DriverDown, streamVars, taskVars, callVars
  <2>4. CASE UNCHANGED <<streamVars, taskVars, wbuf, alert, armed, history>>
    BY <2>4, Zenon DEF streamVars, taskVars, callVars
  <2> QED
    BY ONLY <1>5, OutsideCases, <2>1, <2>2, <2>3, <2>4
<1> QED
  BY ONLY <1>1, <1>2, <1>3, <1>4, <1>5, NextCases, Next

(* A latched write error stays, and every later operation of either half   *)
(* returns it, but for a read or a write with an empty buffer, which       *)
(* poll_read and poll_write answer with Ok before they look at anything    *)
(* else (poll_pending_write, poll_write, write_failure).                   *)
THEOREM ErrorStaysLatched == Spec => ErrorIsSticky
<1>1. IInv /\ [Next]_vars =>
        [write_error # "none" =>
           /\ write_error' = write_error
           /\ \A h \in Half : op[h] # "none" /\ op'[h] = "none"
                => result'[h] \in {IF Empty(h) THEN "Ok" ELSE write_error, "none"}]_vars
  BY LatchedStep
<1> QED
  BY <1>1, Invariance, PTL DEF Spec, ErrorIsSticky

-----------------------------------------------------------------------------
\* The steps that can be seen from outside.
LEMMA HistorySteps ==
  ASSUME Next
  PROVE  \/ \E h \in Half : pending_sent(h)
         \/ op["writer"] = "write" /\ pc["writer"] = "ssl"
              /\ (poll_write_sent \/ poll_write_buffered)
         \/ pc["writer"] = "ssl" /\ poll_shutdown_done /\ accepted' = accepted
         \/ UNCHANGED history
<1> USE DEF history
<1>1. ASSUME NEW h \in Half, Poll(h) PROVE UNCHANGED history
  BY <1>1 DEF Poll, poll_empty, poll_begin, poll_write_refused, Enter
<1>2. ASSUME NEW h \in Half, poll_ssl_ready(h) PROVE UNCHANGED history
  BY <1>2, Zenon DEF poll_ssl_ready, register, poll_ready_failed, poll_ready_pending, poll_ready_ok,
              clear_ready
<1>3. ASSUME NEW h \in Half, poll_pending_write(h) PROVE UNCHANGED history \/ pending_sent(h)
  BY <1>3, Zenon DEF poll_pending_write, pending_latched, pending_empty, pending_blocked,
              pending_failed, pending_ready, SSL_write_want, SSL_write_failed
<1>4. CASE poll_read
  BY <1>4 DEF poll_read
<1>5. CASE poll_write
  BY <1>5 DEF poll_write, poll_write_failed, SSL_write_failed
<1>6. CASE poll_shutdown
  BY <1>6 DEF poll_shutdown, poll_shutdown_want, poll_shutdown_failed, SSL_shutdown_want
<1>7. CASE Outside
  <2>1. ASSUME NEW h \in Half, NEW o, NEW n, NEW t, Call(h, o, n, t) PROVE UNCHANGED history
    BY <2>1 DEF Call
  <2>2. ASSUME NEW h \in Half, Cancel(h) PROVE UNCHANGED history
    BY <2>2 DEF Cancel
  <2>3. CASE (\E d \in Dir : DriverWake(d)) \/ DriverDown
    BY <2>3, Zenon DEF DriverWake, DriverDown
  <2> QED
    BY <1>7, OutsideCases, <2>1, <2>2, <2>3
<1> QED
  BY ONLY <1>1, <1>2, <1>3, <1>4, <1>5, <1>6, <1>7, NextCases, Next

\* Every step of the stream is a step of OutboundStream or leaves it alone.
LEMMA RefinesStep ==
  ASSUME IInv, Next
  PROVE  [Outbound!Next]_(Outbound!vars)
<1> USE DEF IInv
<1>0. /\ wire \in Seq(Nat) /\ accepted \in Nat /\ pending_write \in Seq(Nat)
      /\ Outbound!Closed <=> alert = "sent"
  BY Meaning, Zenon DEF Outbound!Closed, CloseSent, CloseNotify, TypeOK
<1>1. ASSUME NEW h \in Half, pending_sent(h) PROVE Outbound!Send
  <2>1. /\ alert = "none" /\ wire' = wire \o pending_write /\ accepted' = accepted
        /\ pending_write # <<>>
    BY <1>1 DEF pending_sent, SSL_write_done, pending_ready
  <2>2. accepted = Len(wire) + Len(pending_write) /\ Len(pending_write) > 0
    BY <1>0, <2>1 DEF Data, Taken
  <2>3. pending_write = [i \in 1..Len(pending_write) |-> Len(wire) + i]
    BY <1>0, <2>1 DEF Data, Taken
  <2>4. pending_write = Outbound!Positions(Len(wire), accepted)
    <3>1. accepted - Len(wire) = Len(pending_write)
      BY <1>0, <2>2
    <3> QED
      BY <2>3, <3>1 DEF Outbound!Positions
  <2> QED
    BY <1>0, <2>1, <2>2, <2>4 DEF Outbound!Send
<1>2. CASE op["writer"] = "write" /\ pc["writer"] = "ssl" /\ poll_write_sent
  <2>1. /\ alert = "none" /\ wire' = wire \o Chunk /\ accepted' = accepted + Len(Chunk)
        /\ Len(Chunk) > 0 /\ Len(Chunk) \in Nat
    BY <1>2, ChunkFacts DEF poll_write_sent, SSL_write_done, Control, Empty, Half, Running
  <2>2. accepted = Len(wire)
    <3>1. pending_write = <<>>
      BY <1>2, <2>1 DEF Control
    <3>2. accepted = Len(wire) + Len(pending_write)
      BY <2>1 DEF Data, Taken
    <3> QED
      BY <1>0, <3>1, <3>2
  <2>3. Chunk = Outbound!Positions(accepted, accepted')
    <3>1. accepted' - accepted = Len(Chunk)
      BY <1>0, <2>1
    <3>2. Chunk = [i \in 1..Len(Chunk) |-> accepted + i]
      BY <2>1, ChunkFacts
    <3> QED
      BY <3>1, <3>2 DEF Outbound!Positions
  <2> QED
    BY <1>0, <2>1, <2>2, <2>3 DEF Outbound!Next, Outbound!AcceptAndSend
<1>3. CASE op["writer"] = "write" /\ pc["writer"] = "ssl" /\ poll_write_buffered
  <2>1. /\ alert = "none" /\ wire' = wire /\ accepted' = accepted + Len(Chunk)
        /\ Len(Chunk) > 0 /\ Len(Chunk) <= MAX_PLAINTEXT /\ Len(Chunk) \in Nat
    BY <1>3, ChunkFacts DEF poll_write_buffered, SSL_write_want, Control, Empty, Half, Running
  <2>2. accepted = Len(wire)
    BY <1>0, <1>3, <2>1 DEF Data, Taken, Control
  <2> QED
    BY <1>0, <2>1, <2>2, ConstantsAssumption DEF Outbound!Next, Outbound!Accept
<1>4. CASE pc["writer"] = "ssl" /\ poll_shutdown_done /\ accepted' = accepted
  <2>1. CASE alert # "sent" /\ wire' = Append(wire, CloseNotify)
    <3>1. accepted = Len(wire)
      BY <1>0, <1>4, <2>1 DEF Data, Taken, Control
    <3> QED
      BY <1>0, <1>4, <2>1, <3>1 DEF Outbound!Next, Outbound!Close, CloseNotify
  <2>2. CASE wire' = wire
    BY <1>4, <2>2 DEF Outbound!vars
  <2> QED
    BY <1>4, <2>1, <2>2 DEF poll_shutdown_done, SSL_shutdown_done
<1>5. CASE UNCHANGED history
  BY <1>5 DEF history, Outbound!vars
<1> QED
  BY <1>1, <1>2, <1>3, <1>4, <1>5, HistorySteps DEF Outbound!Next

(* The stream implements OutboundStream: what it has acknowledged and what *)
(* it has sent evolve only as that contract allows.                        *)
THEOREM ImplementsOutbound == Spec => RefinesOutbound
<1>1. Init => Outbound!Init
  BY DEF Init, Outbound!Init
<1>2. IInv /\ [Next]_vars => [Outbound!Next]_(Outbound!vars)
  BY RefinesStep DEF vars, history, Outbound!vars
<1> QED
  BY <1>1, <1>2, Invariance, PTL DEF Spec, RefinesOutbound, Outbound!Spec

=============================================================================
