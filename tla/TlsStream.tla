----------------------------- MODULE TlsStream -----------------------------
(***************************************************************************)
(* The userspace data path of TlsStream (src/stream.rs): poll_read,        *)
(* poll_write, poll_flush and poll_shutdown of one established stream      *)
(* whose two split halves are driven by two tasks, over libssl, the socket *)
(* and tokio's cached readiness.                                           *)
(*                                                                         *)
(* A poll runs under the lock of tokio::io::split, so the stream's fields  *)
(* and libssl belong to one poll at a time.  The kernel, the peer and the  *)
(* I/O driver run between any two steps of a poll.                         *)
(*                                                                         *)
(* The bytes the application writes are numbered by their position in its  *)
(* stream: the next unaccepted byte is accepted + 1.                       *)
(***************************************************************************)
EXTENDS Integers, Sequences

CONSTANTS
  MAX_PLAINTEXT,  \* largest chunk handed to one SSL_write
  MaxBuf,         \* bound: length of a caller's buffer
  MaxBytes,       \* bound: bytes the application writes in all
  SndRecords,     \* records the kernel's send buffer holds
  StartRoom,      \* free slots of it when the handshake is over
  MaxInbound,     \* bound: records the peer sends
  NTasks,         \* bound: tasks that may drive a half, one after another
  PeerSends,      \* the kinds of record the peer sends
  Failures        \* what may fail: "reset" (the connection), "driver" (tokio's)

ASSUME ConstantsAssumption ==
  /\ MAX_PLAINTEXT \in Nat \ {0}
  /\ MaxBuf \in Nat
  /\ MaxBytes \in Nat
  /\ SndRecords \in Nat \ {0} /\ StartRoom \subseteq 0..SndRecords
  /\ MaxInbound \in Nat
  /\ NTasks \in Nat \ {0}
  /\ PeerSends \subseteq {"data", "ctl", "close_notify", "bad", "fin"}
  /\ Failures \subseteq {"reset", "driver"}

VARIABLES
  \* fields of TlsStream
  pending_write, write_error, shutdown,
  waiters,        \* IoWaiters: per half, the task whose waker it holds, or 0
  \* the tasks that drive the halves
  task,           \* the task that drives the half's operation
  op,             \* the operation a half is in, or "none"
  pc,             \* where its poll stands: "idle", "waiting" or a step
  stage,          \* the loop it waits in: poll_pending_write's or the caller's
  want,           \* the direction SSL_get_error asked for
  buf,            \* length of the buffer of each half's poll_read or poll_write
  woken,          \* halves whose task has been woken since its last poll
  result,         \* how the half's last operation ended
  \* libssl, the socket and tokio
  wbuf,           \* plaintext of the record SSL_write is committed to
  alert,          \* libssl's close_notify: "none", "queued" or "sent"
  ctl,            \* libssl's own exchange: "none", "reply" to send, "await"
  dead,           \* libssl has failed the connection
  room,           \* free records of the send buffer
  nospace,        \* a send has met EAGAIN since the last write edge
  inq,            \* inbound records not yet read
  inbound,        \* records the peer has sent
  net,            \* "up" or "reset"
  ready,          \* tokio's cached readiness, per direction
  armed,          \* the waker tokio holds, per direction
  edge,           \* an epoll edge the driver has not yet seen
  waking,         \* the driver has set the bit and has yet to wake
  driver,         \* tokio's I/O driver: "up" or "down"
  \* history
  accepted,       \* bytes acknowledged to the application
  wire            \* what has been handed to the transport, in order

streamVars == <<pending_write, write_error, shutdown, waiters>>
callVars   == <<task, op, stage, want, buf, result>>
taskVars   == <<callVars, pc, woken>>
sslVars    == <<wbuf, alert, ctl, dead>>
sockVars   == <<room, nospace, inq, inbound, net>>
tokioVars  == <<ready, armed, edge, waking, driver>>
history    == <<accepted, wire>>
vars == <<streamVars, taskVars, sslVars, sockVars, tokioVars, history>>

Half == {"reader", "writer"}
Dir  == {"read", "write"}
CloseNotify == 0                       \* how close_notify appears in wire
IoError == {"Os", "UnexpectedEof", "Other"}
Shutdown == {"Open", "Sending", "Closed"}
Running == {"pending", "ssl", "register", "ready", "clear"}

-----------------------------------------------------------------------------
(* from_parts: a stream is created open, with nothing buffered.  The       *)
(* handshake may have left records in the socket and bits in tokio's cache.*)
Init ==
  /\ pending_write = <<>> /\ write_error = "none" /\ shutdown = "Open"
  /\ waiters = [h \in Half |-> 0] /\ task = [h \in Half |-> 1]
  /\ op = [h \in Half |-> "none"] /\ pc = [h \in Half |-> "idle"]
  /\ stage = [h \in Half |-> "pending"] /\ want = [h \in Half |-> "read"]
  /\ buf = [h \in Half |-> 0] /\ woken = {} /\ result = [h \in Half |-> "none"]
  /\ wbuf = <<>> /\ alert = "none" /\ ctl = "none" /\ dead = FALSE
  /\ room \in StartRoom /\ nospace = FALSE
  /\ inq = <<>> /\ inbound = 0 /\ net = "up"
  /\ ready \in [Dir -> BOOLEAN] /\ armed = [d \in Dir |-> "none"]
  /\ edge = [d \in Dir |-> FALSE] /\ waking = [d \in Dir |-> FALSE]
  /\ driver = "up"
  /\ accepted = 0 /\ wire = <<>>

-----------------------------------------------------------------------------
(* How an operation ends and who is woken.                                 *)

\* The half is idle again; woken only concerns halves that are not.
Return(h, r) ==
  /\ op' = [op EXCEPT ![h] = "none"]
  /\ pc' = [pc EXCEPT ![h] = "idle"]
  /\ stage' = [stage EXCEPT ![h] = "pending"]
  /\ want' = [want EXCEPT ![h] = "read"]
  /\ buf' = [buf EXCEPT ![h] = 0]
  /\ task' = [task EXCEPT ![h] = 1]
  /\ result' = [result EXCEPT ![h] = r]

\* The halves whose present task IoWaiters would wake.
Registered == {h \in Half : waiters[h] = task[h]}

\* Mutant: only the reader's slot is taken.
Notify_reader ==
  /\ woken' = {h \in woken \cup (Registered \cap {"reader"}) : pc'[h] # "idle"}
  /\ waiters' = [waiters EXCEPT !["reader"] = 0]

\* IoWaiters::notify takes both wakers and wakes their tasks.
Notify ==
  /\ woken' = {h \in woken \cup Registered : pc'[h] # "idle"}
  /\ waiters' = [h \in Half |-> 0]

Finish(h, r) == Return(h, r) /\ woken' = woken \ {h}

\* write_failure latches the error, wakes both halves and returns it.
write_failure(h, e) ==
  /\ write_error' = e
  /\ Return(h, e)
  /\ Notify

-----------------------------------------------------------------------------
(* The application.                                                        *)

\* A half starts an operation: its task is runnable.  Of a read's buffer only
\* matters whether it has room.
Call(h, o, n, t) ==
  /\ pc[h] = "idle"
  /\ o \in (IF h = "reader" THEN {"read"} ELSE {"write", "flush", "shutdown"})
  /\ o = "write" => accepted + n <= MaxBytes
  /\ o = "read" => n <= 1
  /\ o \notin {"read", "write"} => n = 0
  /\ op' = [op EXCEPT ![h] = o]
  /\ pc' = [pc EXCEPT ![h] = "waiting"]
  /\ buf' = [buf EXCEPT ![h] = n]
  /\ task' = [task EXCEPT ![h] = t]
  /\ woken' = woken \cup {h}
  /\ result' = [result EXCEPT ![h] = "none"]
  /\ UNCHANGED <<streamVars, stage, want, sslVars, sockVars, tokioVars, history>>

\* The future of a pending operation is dropped; its registered waker stays.
Cancel(h) ==
  /\ pc[h] = "waiting"
  /\ Finish(h, "none")
  /\ UNCHANGED <<streamVars, sslVars, sockVars, tokioVars, history>>

(* ssl_io_error: the kind of io::Error a failed libssl call becomes.       *)
ssl_io_error(f) ==
  IF f.code = "SYSCALL" /\ f.errno # 0 THEN "Os"
  ELSE IF f.code # "SYSCALL" /\ ~(f.code = "SSL" /\ f.reason = "UNEXPECTED_EOF")
       THEN "Other"
       ELSE "UnexpectedEof"

-----------------------------------------------------------------------------
(* libssl, as the stream uses it.  It may have to finish an exchange of    *)
(* its own before any operation: send a record, then receive one.          *)

Reset    == [code |-> "SYSCALL", errno |-> 104, reason |-> "none"]
Protocol == [code |-> "SSL", errno |-> 0, reason |-> "protocol"]
\* Older AWS-LC reports a bare FIN as SYSCALL with no errno.
BareFin  == {[code |-> "SYSCALL", errno |-> 0, reason |-> "none"],
             [code |-> "SSL", errno |-> 0, reason |-> "UNEXPECTED_EOF"]}

Broken == dead \/ net = "reset"
Cause  == IF net = "reset" THEN Reset ELSE Protocol
Next_in(k) == inq # <<>> /\ Head(inq) = k

\* The exchange can go no further: libssl returns WANT_READ or WANT_WRITE.
CtlBlocked(d) ==
  \/ ctl = "reply" /\ room = 0 /\ d = "write"
  \/ ctl = "await" /\ inq = <<>> /\ d = "read"

\* A retry must repeat the bytes libssl is committed to.
BadRetry(chunk) == wbuf # <<>> /\ wbuf # chunk

SSL_write_done(chunk) ==
  /\ ~Broken /\ ctl = "none" /\ room > 0 /\ alert = "none" /\ ~BadRetry(chunk)
  /\ room' = room - 1
  /\ wire' = wire \o chunk
  /\ wbuf' = <<>>
  /\ UNCHANGED <<alert, ctl, dead, nospace, inq, inbound, net>>

SSL_write_want(chunk, d) ==
  /\ ~Broken /\ alert = "none" /\ ~BadRetry(chunk)
  /\ \/ CtlBlocked(d) /\ wbuf' = wbuf
     \/ ctl = "none" /\ room = 0 /\ d = "write" /\ wbuf' = chunk
  /\ nospace' = (nospace \/ d = "write")
  /\ UNCHANGED <<alert, ctl, dead, room, inq, inbound, net, wire>>

SSL_write_failed(chunk) ==
  /\ Broken \/ alert # "none" \/ BadRetry(chunk)
  /\ UNCHANGED <<sslVars, sockVars, wire>>

SSL_shutdown_done ==
  /\ ~Broken /\ ctl = "none"
  /\ \/ /\ alert # "sent" /\ room > 0
        /\ room' = room - 1
        /\ wire' = Append(wire, CloseNotify)
        /\ alert' = "sent"
     \/ /\ alert = "sent" /\ Next_in("close_notify")
        /\ UNCHANGED <<room, wire, alert>>
  /\ UNCHANGED <<wbuf, ctl, dead, nospace, inq, inbound, net>>

SSL_shutdown_want(d) ==
  /\ ~Broken
  /\ \/ CtlBlocked(d) /\ UNCHANGED alert
     \/ /\ ctl = "none" /\ alert # "sent" /\ room = 0 /\ d = "write"
        /\ alert' = "queued"
     \/ /\ ctl = "none" /\ alert = "sent" /\ ~Next_in("close_notify") /\ d = "read"
        /\ UNCHANGED alert
  /\ nospace' = (nospace \/ d = "write")
  /\ UNCHANGED <<wbuf, ctl, dead, room, inq, inbound, net, wire>>

\* A call in progress drives the exchange as far as the socket allows.
SSL_drive(h) ==
  /\ pc[h] = "ssl" \/ (pc[h] = "pending" /\ write_error = "none" /\ pending_write # <<>>)
  /\ ~Broken
  /\ \/ ctl = "reply" /\ room > 0 /\ room' = room - 1 /\ ctl' = "await" /\ inq' = inq
     \/ ctl = "await" /\ Next_in("ctlFin") /\ ctl' = "none" /\ inq' = Tail(inq) /\ room' = room
     \/ /\ ctl = "none" /\ Next_in("ctl") /\ op[h] = "read" /\ pc[h] = "ssl"
        /\ ctl' = "reply" /\ inq' = Tail(inq) /\ room' = room
  /\ UNCHANGED <<streamVars, taskVars, wbuf, alert, dead, nospace, inbound, net,
                 tokioVars, history>>

-----------------------------------------------------------------------------
(* poll_ssl_ready: after WANT_READ or WANT_WRITE, register the caller's    *)
(* waker, wait for readiness with the shared one and clear the cached bit. *)

\* SSL_get_error asked for direction d, in the loop s.
Wait(h, d, s) ==
  /\ pc' = [pc EXCEPT ![h] = "register"]
  /\ want' = [want EXCEPT ![h] = d]
  /\ stage' = [stage EXCEPT ![h] = s]

\* Mutant: a waker left by an earlier task is kept.
slot_kept(h) == IF waiters[h] = 0 THEN task[h] ELSE waiters[h]

\* IoWaiters::register stores the caller's waker unless it is already there.
slot(h) == task[h]

register(h) ==
  /\ pc[h] = "register"
  /\ waiters' = [waiters EXCEPT ![h] = slot(h)]
  /\ pc' = [pc EXCEPT ![h] = "ready"]
  /\ UNCHANGED <<pending_write, write_error, shutdown, callVars, woken, sslVars, sockVars,
                 tokioVars, history>>

\* The error of a failed wait is latched except by poll_read's own loop.
poll_ready_failed(h) ==
  /\ pc[h] = "ready" /\ driver = "down"
  /\ \/ /\ op[h] = "read" /\ stage[h] = "ssl"
        /\ Finish(h, "Other")
        /\ UNCHANGED streamVars
     \/ /\ ~(op[h] = "read" /\ stage[h] = "ssl")
        /\ write_failure(h, "Other")
        /\ UNCHANGED <<pending_write, shutdown>>
  /\ UNCHANGED <<sslVars, sockVars, tokioVars, history>>

\* Mutant: each half waits with its own waker.
wait_waker_own(h) == h

\* The waker poll_ssl_ready gives tokio: the one both halves share.
wait_waker(h) == "shared"

\* Mutant: a read waits for the pending write.
on_pending_wait(h) == "waiting"

\* Pending ends the poll, but poll_read goes on after poll_pending_write's.
on_pending(h) == IF op[h] = "read" /\ stage[h] = "pending" THEN "ssl" ELSE "waiting"

poll_ready_pending(h) ==
  /\ pc[h] = "ready" /\ driver = "up" /\ ~ready[want[h]]
  /\ armed' = [armed EXCEPT ![want[h]] = wait_waker(h)]
  /\ pc' = [pc EXCEPT ![h] = on_pending(h)]
  /\ UNCHANGED <<streamVars, callVars, woken, sslVars, sockVars, ready, edge, waking,
                 driver, history>>

poll_ready_ok(h) ==
  /\ pc[h] = "ready" /\ driver = "up" /\ ready[want[h]]
  /\ pc' = [pc EXCEPT ![h] = "clear"]
  /\ UNCHANGED <<streamVars, callVars, woken, sslVars, sockVars, tokioVars, history>>

\* Mutant: the bit is cleared but the call is not repeated.
after_clear_park(h) == "waiting"

\* The loop repeats the libssl call once the cached bit is cleared.
after_clear(h) == stage[h]

\* poll_clear_read_ready, poll_clear_write_ready.
clear_ready(h) ==
  /\ pc[h] = "clear"
  /\ ready' = [ready EXCEPT ![want[h]] = FALSE]
  /\ pc' = [pc EXCEPT ![h] = after_clear(h)]
  /\ UNCHANGED <<streamVars, callVars, woken, sslVars, sockVars, armed, edge, waking,
                 driver, history>>

poll_ssl_ready(h) ==
  \/ register(h)
  \/ poll_ready_failed(h)
  \/ poll_ready_pending(h)
  \/ poll_ready_ok(h)
  \/ clear_ready(h)

-----------------------------------------------------------------------------
(* Entry of a poll, once the split lock is free.                           *)

Enter(h) ==
  /\ pc[h] = "waiting"
  /\ \A g \in Half : pc[g] \notin Running
  /\ woken' = woken \ {h}
  /\ UNCHANGED <<streamVars, sslVars, sockVars, tokioVars, history>>

Empty(h) == op[h] \in {"read", "write"} /\ buf[h] = 0

\* A poll_read or poll_write with an empty buffer is done before anything is
\* looked at, a latched error included.
poll_empty(h) ==
  /\ Empty(h)
  /\ Enter(h)
  /\ Return(h, "Ok")

\* poll_write then reports the latched error and a closed half.
poll_write_refused ==
  /\ op["writer"] = "write" /\ ~Empty("writer")
  /\ Enter("writer")
  /\ \/ write_error # "none" /\ Return("writer", write_error)
     \/ write_error = "none" /\ shutdown # "Open" /\ Return("writer", "BrokenPipe")

\* Mutant: poll_shutdown does not drain pending_write.
first_step_no_drain(h) == IF op[h] = "shutdown" THEN "ssl" ELSE "pending"

\* Every other poll begins with poll_pending_write.
first_step(h) == "pending"

poll_begin(h) ==
  /\ ~Empty(h)
  /\ op[h] = "write" => write_error = "none" /\ shutdown = "Open"
  /\ Enter(h)
  /\ pc' = [pc EXCEPT ![h] = first_step(h)]
  /\ stage' = [stage EXCEPT ![h] = "pending"]
  /\ want' = [want EXCEPT ![h] = "read"]
  /\ UNCHANGED <<task, op, buf, result>>

Poll(h) == poll_empty(h) \/ poll_begin(h) \/ (h = "writer" /\ poll_write_refused)

-----------------------------------------------------------------------------
(* poll_pending_write.                                                     *)

\* Mutant: a shutdown already begun is taken for done.
is_closed_begun == shutdown # "Open"

is_closed == shutdown = "Closed"

\* What each caller does with Ready(Ok): poll_flush returns it, poll_shutdown
\* starts sending unless it is Closed, poll_read and poll_write go on.
pending_ready(h) ==
  /\ \/ /\ op[h] = "flush" \/ (op[h] = "shutdown" /\ is_closed)
        /\ Return(h, "Ok")
        /\ UNCHANGED shutdown
     \/ /\ op[h] \in {"read", "write"} \/ (op[h] = "shutdown" /\ ~is_closed)
        /\ shutdown' = IF op[h] = "shutdown" THEN "Sending" ELSE shutdown
        /\ pc' = [pc EXCEPT ![h] = "ssl"]
        /\ stage' = [stage EXCEPT ![h] = "ssl"]
        /\ UNCHANGED <<task, op, want, buf, result>>
  /\ UNCHANGED <<write_error, tokioVars, accepted>>

\* Mutant: the error is handed to the first caller that asks.
kept_error_taken == "none"

\* The latched error is duplicated, not taken.
kept_error == write_error

pending_latched(h) ==
  /\ write_error # "none"
  /\ Finish(h, write_error)
  /\ write_error' = kept_error
  /\ UNCHANGED <<pending_write, shutdown, waiters, sslVars, sockVars, tokioVars, history>>

pending_empty(h) ==
  /\ write_error = "none" /\ pending_write = <<>>
  /\ pending_ready(h)
  /\ woken' = {g \in woken : pc'[g] # "idle"}
  /\ UNCHANGED <<pending_write, waiters, sslVars, sockVars, wire>>

pending_sent(h) ==
  /\ write_error = "none" /\ pending_write # <<>>
  /\ SSL_write_done(pending_write)
  /\ pending_write' = <<>>
  /\ pending_ready(h)
  /\ Notify

pending_blocked(h) ==
  /\ write_error = "none" /\ pending_write # <<>>
  /\ \E d \in Dir : SSL_write_want(pending_write, d) /\ Wait(h, d, "pending")
  /\ UNCHANGED <<streamVars, task, op, buf, woken, result, tokioVars, accepted>>

pending_failed(h) ==
  /\ write_error = "none" /\ pending_write # <<>>
  /\ SSL_write_failed(pending_write)
  /\ write_failure(h, ssl_io_error(Cause))
  /\ UNCHANGED <<pending_write, shutdown, tokioVars, accepted>>

poll_pending_write(h) ==
  /\ pc[h] = "pending"
  /\ \/ pending_latched(h)
     \/ pending_empty(h)
     \/ pending_sent(h)
     \/ pending_blocked(h)
     \/ pending_failed(h)

-----------------------------------------------------------------------------
(* The loop of poll_read.                                                  *)

poll_read_data ==
  /\ ~Broken /\ ctl = "none" /\ Next_in("data")
  /\ inq' = Tail(inq)
  /\ Finish("reader", "Ok")
  /\ UNCHANGED <<dead, nospace>>

\* ZERO_RETURN: the peer's close_notify, reported as end of file.
poll_read_eof ==
  /\ ~Broken /\ ctl = "none" /\ Next_in("close_notify")
  /\ Finish("reader", "Eof")
  /\ UNCHANGED <<inq, dead, nospace>>

poll_read_want ==
  /\ ~Broken
  /\ \E d \in Dir :
       /\ CtlBlocked(d) \/ (ctl = "none" /\ inq = <<>> /\ d = "read")
       /\ Wait("reader", d, "ssl")
       /\ nospace' = (nospace \/ d = "write")
  /\ UNCHANGED <<inq, dead, task, op, buf, woken, result>>

\* A read error is returned, not latched.
poll_read_failed ==
  /\ \/ Broken /\ Finish("reader", ssl_io_error(Cause)) /\ dead' = dead
     \/ /\ ~Broken /\ ctl = "none" /\ Next_in("fin")
        /\ \E f \in BareFin : Finish("reader", ssl_io_error(f))
        /\ dead' = dead
     \/ /\ ~Broken /\ ctl = "none" /\ Next_in("bad")
        /\ Finish("reader", ssl_io_error(Protocol))
        /\ dead' = TRUE
  /\ UNCHANGED <<inq, nospace>>

poll_read ==
  /\ op["reader"] = "read" /\ pc["reader"] = "ssl"
  /\ poll_read_data \/ poll_read_eof \/ poll_read_want \/ poll_read_failed
  /\ UNCHANGED <<streamVars, wbuf, alert, ctl, room, inbound, net,
                 tokioVars, history>>

-----------------------------------------------------------------------------
(* The rest of poll_write: one chunk, accepted as soon as libssl is        *)
(* committed to it, whether or not it could be sent.                       *)

\* Mutant: the caller's whole buffer goes to one SSL_write.
Chunk_uncapped == [i \in 1..buf["writer"] |-> accepted + i]

Chunk ==
  LET len == IF buf["writer"] < MAX_PLAINTEXT THEN buf["writer"] ELSE MAX_PLAINTEXT
  IN [i \in 1..len |-> accepted + i]

\* Mutant: the whole buffer is copied, the chunk is acknowledged.
Retained_all == [i \in 1..buf["writer"] |-> accepted + i]

\* The copy of the chunk that is kept for the retry.
Retained == Chunk

poll_write_sent ==
  /\ SSL_write_done(Chunk)
  /\ accepted' = accepted + Len(Chunk)
  /\ Finish("writer", "Ok")
  /\ UNCHANGED streamVars

poll_write_buffered ==
  /\ \E d \in Dir : SSL_write_want(Chunk, d)
  /\ pending_write' = pending_write \o Retained
  /\ accepted' = accepted + Len(Chunk)
  /\ Finish("writer", "Ok")
  /\ UNCHANGED <<write_error, shutdown, waiters>>

poll_write_failed ==
  /\ SSL_write_failed(Chunk)
  /\ write_failure("writer", ssl_io_error(Cause))
  /\ UNCHANGED <<pending_write, shutdown, accepted>>

poll_write ==
  /\ op["writer"] = "write" /\ pc["writer"] = "ssl"
  /\ poll_write_sent \/ poll_write_buffered \/ poll_write_failed
  /\ UNCHANGED tokioVars

-----------------------------------------------------------------------------
(* The loop of poll_shutdown.                                              *)

poll_shutdown_done ==
  /\ SSL_shutdown_done
  /\ shutdown' = "Closed"
  /\ Finish("writer", "Ok")
  /\ UNCHANGED <<pending_write, write_error, waiters>>

poll_shutdown_want ==
  /\ \E d \in Dir : SSL_shutdown_want(d) /\ Wait("writer", d, "ssl")
  /\ UNCHANGED <<streamVars, task, op, buf, woken, result>>

poll_shutdown_failed ==
  /\ Broken
  /\ write_failure("writer", ssl_io_error(Cause))
  /\ UNCHANGED <<pending_write, shutdown, sslVars, sockVars, wire>>

poll_shutdown ==
  /\ op["writer"] = "shutdown" /\ pc["writer"] = "ssl"
  /\ poll_shutdown_done \/ poll_shutdown_want \/ poll_shutdown_failed
  /\ UNCHANGED <<tokioVars, accepted>>

-----------------------------------------------------------------------------
(* tokio's I/O driver: cache the readiness an epoll edge reports, then     *)
(* wake the waker kept for that direction.  The shared one is IoWaiters.   *)

DriverSet(d) ==
  /\ driver = "up" /\ edge[d] /\ ~waking[d]
  /\ edge' = [edge EXCEPT ![d] = FALSE]
  /\ ready' = [ready EXCEPT ![d] = TRUE]
  /\ waking' = [waking EXCEPT ![d] = TRUE]
  /\ UNCHANGED <<streamVars, taskVars, sslVars, sockVars, armed, driver, history>>

WakeArmed(D) ==
  LET shared == \E d \in D : armed[d] = "shared"
      woke   == {h \in Half : \E d \in D : armed[d] = h}
                  \cup (IF shared THEN Registered ELSE {})
  IN /\ woken' = woken \cup {h \in woke : pc[h] # "idle"}
     /\ waiters' = IF shared THEN [h \in Half |-> 0] ELSE waiters
     /\ armed' = [d \in Dir |-> IF d \in D THEN "none" ELSE armed[d]]

DriverWake(d) ==
  /\ waking[d]
  /\ waking' = [waking EXCEPT ![d] = FALSE]
  /\ WakeArmed({d})
  /\ UNCHANGED <<pending_write, write_error, shutdown, callVars, pc, sslVars, sockVars, ready, edge, driver, history>>

\* The runtime shuts its driver down: waits fail from now on.
DriverDown ==
  /\ "driver" \in Failures /\ driver = "up"
  /\ driver' = "down"
  /\ WakeArmed(Dir)
  /\ UNCHANGED <<pending_write, write_error, shutdown, callVars, pc, sslVars, sockVars, ready, edge, waking, history>>

-----------------------------------------------------------------------------
(* The kernel and the peer.                                                *)

\* The peer takes a record; a sender that met EAGAIN gets a write edge.
Drain ==
  /\ net = "up" /\ room < SndRecords
  /\ room' = room + 1
  /\ nospace' = FALSE
  /\ edge' = IF nospace THEN [edge EXCEPT !["write"] = TRUE] ELSE edge
  /\ UNCHANGED <<streamVars, taskVars, sslVars, inq, inbound, net, ready, armed, waking,
                 driver, history>>

Arrive(k) ==
  /\ net = "up"
  /\ inq' = Append(inq, k)
  /\ edge' = [edge EXCEPT !["read"] = TRUE]
  /\ UNCHANGED <<streamVars, taskVars, sslVars, room, nospace, net, ready, armed, waking,
                 driver, history>>

\* Nothing but FIN follows a close_notify; an exchange is not interleaved.
PeerSend(k) ==
  /\ inbound < MaxInbound /\ ctl = "none"
  /\ \A i \in 1..Len(inq) : inq[i] = "data" \/ (inq[i] = "close_notify" /\ k = "fin")
  /\ Arrive(k)
  /\ inbound' = inbound + 1

PeerAnswer ==
  /\ ctl = "await" /\ inq = <<>>
  /\ Arrive("ctlFin")
  /\ inbound' = inbound

ConnectionReset ==
  /\ "reset" \in Failures /\ net = "up"
  /\ net' = "reset"
  /\ edge' = [d \in Dir |-> TRUE]
  /\ UNCHANGED <<streamVars, taskVars, sslVars, room, nospace, inq, inbound, ready, armed,
                 waking, driver, history>>

-----------------------------------------------------------------------------
\* One step of the poll that half h is in.
Step(h) ==
  \/ poll_pending_write(h)
  \/ poll_ssl_ready(h)
  \/ SSL_drive(h)
  \/ h = "reader" /\ poll_read
  \/ h = "writer" /\ (poll_write \/ poll_shutdown)

Next ==
  \/ \E h \in Half :
       \/ \E o \in {"read", "write", "flush", "shutdown"}, n \in 0..MaxBuf, t \in 1..NTasks :
            Call(h, o, n, t)
       \/ Cancel(h)
       \/ Poll(h)
       \/ Step(h)
  \/ \E d \in Dir : DriverSet(d) \/ DriverWake(d)
  \/ DriverDown
  \/ Drain
  \/ \E k \in PeerSends : PeerSend(k)
  \/ PeerAnswer
  \/ ConnectionReset

Spec == Init /\ [][Next]_vars

(* A poll runs to its end; the executor polls a woken task, and the split  *)
(* lock, free infinitely often, is eventually granted to it; the driver    *)
(* handles every edge.  The executor owes nothing to a task not woken.     *)
CodeFairness ==
  /\ \A h \in Half : WF_vars(Step(h)) /\ SF_vars(h \in woken /\ Poll(h))
  /\ \A d \in Dir : WF_vars(DriverSet(d)) /\ WF_vars(DriverWake(d))

\* Nothing obliges the peer to take a record.
FairSpec == Spec /\ CodeFairness

\* The peer reads what it is sent and finishes an exchange it began.
PeerFairness == WF_vars(Drain) /\ WF_vars(PeerAnswer)

-----------------------------------------------------------------------------
(* Properties.                                                             *)

TypeOK ==
  /\ pending_write \in Seq(Nat) /\ Len(pending_write) <= MAX_PLAINTEXT
  /\ write_error \in {"none"} \cup IoError
  /\ shutdown \in Shutdown /\ waiters \in [Half -> 0..NTasks] /\ task \in [Half -> 1..NTasks]
  /\ op \in [Half -> {"none", "read", "write", "flush", "shutdown"}]
  /\ pc \in [Half -> {"idle", "waiting"} \cup Running]
  /\ stage \in [Half -> {"pending", "ssl"}] /\ want \in [Half -> Dir]
  /\ buf \in [Half -> 0..MaxBuf] /\ woken \subseteq Half
  /\ result \in [Half -> {"none", "Ok", "Eof", "BrokenPipe"} \cup IoError]
  /\ wbuf \in Seq(Nat) /\ alert \in {"none", "queued", "sent"}
  /\ ctl \in {"none", "reply", "await"} /\ dead \in BOOLEAN
  /\ room \in 0..SndRecords /\ nospace \in BOOLEAN
  /\ inq \in Seq(PeerSends \cup {"ctlFin"}) /\ inbound \in 0..MaxInbound
  /\ net \in {"up", "reset"}
  /\ ready \in [Dir -> BOOLEAN] /\ armed \in [Dir -> {"none", "shared"} \cup Half]
  /\ edge \in [Dir -> BOOLEAN] /\ waking \in [Dir -> BOOLEAN]
  /\ driver \in {"up", "down"}
  /\ accepted \in Nat /\ wire \in Seq(Nat)

\* close_notify is the last thing on the wire.
CloseSent == wire # <<>> /\ wire[Len(wire)] = CloseNotify

\* Application bytes handed to the transport.
Sent == IF CloseSent THEN Len(wire) - 1 ELSE Len(wire)

(* Every byte acknowledged by poll_write is either on the wire or in       *)
(* pending_write, once and in order, whichever half flushed it and however *)
(* many futures were dropped on the way (poll_write, poll_pending_write).  *)
ExactlyOnce ==
  /\ \A i \in 1..Sent : wire[i] = i
  /\ \A i \in 1..Len(pending_write) : pending_write[i] = Sent + i
  /\ accepted = Sent + Len(pending_write)

(* libssl is never asked to retry a write with other bytes than the ones   *)
(* it is committed to, which it would refuse (poll_write's copy, kept      *)
(* until SSL_write takes it).                                              *)
SameBytesRetried == wbuf # <<>> => pending_write = wbuf

(* The write half implements the abstract outbound stream.                 *)
Outbound == INSTANCE OutboundStream WITH MaxChunk <- MAX_PLAINTEXT
RefinesOutbound == Outbound!Spec

(* When poll_flush or poll_shutdown returns Ok, every byte accepted so far *)
(* is on the wire, and after a shutdown so is close_notify.                *)
FlushMeansSent ==
  [][op["writer"] \in {"flush", "shutdown"} /\ op'["writer"] = "none"
       /\ result'["writer"] = "Ok"
     => /\ Sent' = accepted
        /\ op["writer"] = "shutdown" => CloseSent']_vars

(* poll_shutdown drains pending_write before SSL_shutdown and poll_write   *)
(* refuses from then on: nothing is buffered or accepted once close_notify *)
(* has begun.                                                              *)
CloseAfterData == alert # "none" => pending_write = <<>> /\ Sent = accepted

(* A half whose poll returned Pending will be polled again: its task has   *)
(* been woken, or IoWaiters holds that task's waker (not one left by an    *)
(* earlier task) and tokio holds the shared waker for the direction it     *)
(* waits for (register, poll_ssl_ready).                                   *)
ParkedIsRegistered ==
  \A h \in Half :
    pc[h] = "waiting" /\ h \notin woken =>
      h \in Registered /\ armed[want[h]] = "shared"

(* A failed write leaves nobody behind: once write_error is latched, by    *)
(* whichever half met it, no half sleeps (write_failure).                  *)
NobodySleepsOnError ==
  write_error # "none" => \A h \in Half : pc[h] = "waiting" => h \in woken

(* The writer never sleeps for a pending write that the reader has already *)
(* completed (poll_pending_write's notify).                                *)
NobodySleepsOnDrained ==
  pc["writer"] = "waiting" /\ stage["writer"] = "pending" /\ pending_write = <<>>
    => "writer" \in woken

(* write_error is latched for good, and every operation of either half     *)
(* that ends after it, unless it is dropped, returns that error: a read    *)
(* too, and a shutdown however far it had come.  Only a read or a write    *)
(* with an empty buffer returns Ok (poll_read and poll_write look at the   *)
(* buffer first, at everything else through poll_pending_write).           *)
ErrorIsSticky ==
  [][write_error # "none" =>
       /\ write_error' = write_error
       /\ \A h \in Half : op[h] # "none" /\ op'[h] = "none"
            => result'[h] \in {IF Empty(h) THEN "Ok" ELSE write_error, "none"}]_vars

(* A flush or a shutdown ends as long as the peer keeps reading, whichever *)
(* half gets to send the pending bytes.                                    *)
FlushEnds ==
  PeerFairness => (op["writer"] \in {"flush", "shutdown"} ~> op["writer"] = "none")

(* A read ends once there is something to read, even if the peer never     *)
(* takes another record from us (poll_read's comment on split peers).      *)
ReadEnds ==
  op["reader"] = "read" /\ ctl = "none" /\ inq # <<>> /\ Head(inq) \notin {"ctl", "ctlFin"}
    ~> op["reader"] = "none"

=============================================================================
