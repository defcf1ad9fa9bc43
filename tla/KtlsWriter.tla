----------------------------- MODULE KtlsWriter -----------------------------
(***************************************************************************)
(* The write half of a stream on kTLS (TlsStream::poll_write, poll_flush   *)
(* and poll_shutdown with ktls_active, poll_close_notify of ktls/io.rs):   *)
(* plaintext goes straight to a socket whose records the kernel encrypts.  *)
(* A byte is its position in the application's stream, 0 is close_notify.  *)
(***************************************************************************)
EXTENDS Integers, Sequences, Readiness

CONSTANTS
  IO_BUDGET,      \* rounds one poll_close_notify may make
  MaxBuf,         \* bound: length of a caller's buffer
  MaxBytes,       \* bound: bytes ever written
  SndRecords,     \* writes the send buffer takes
  Faults          \* "intr", "reset", "zero", "torn" and "driver"

ASSUME ConstantsAssumption ==
  /\ Dir = {"write"}
  /\ IO_BUDGET \in Nat \ {0} /\ MaxBuf \in Nat /\ MaxBytes \in Nat /\ SndRecords \in Nat \ {0}
  /\ Faults \subseteq {"intr", "reset", "zero", "torn", "driver"}

VARIABLES
  shutdown, write_error,  \* fields of TlsStream
  op, pc,                 \* the operation under way; "idle", "waiting" or its step
  buf,                    \* length of the caller's buffer
  budget,                 \* rounds poll_close_notify has left
  woken, result,          \* the task is woken; how the last operation ended
  queued, nospace, net,   \* the socket: records in it, SOCK_NOSPACE, "up" or "reset"
  torn, fin,              \* part of an alert is in the socket; SHUT_WR is done
  accepted, wire          \* history: bytes acknowledged, what the kernel has taken

streamVars == <<shutdown, write_error>>
taskVars == <<op, pc, buf, budget, woken, result>>
sockVars == <<queued, nospace, net, torn, fin>>
outVars  == <<accepted, wire>>
vars == <<streamVars, taskVars, sockVars, tokioVars, outVars>>

Failed == {"BrokenPipe", "Os", "Other", "WriteZero", "InvalidData"}
Step == {"write", "try", "alert", "clear", "ready", "fin"}
Full == queued = SndRecords

\* The handshake may have left the buffer full; a clear bit then has its cause.
Init ==
  /\ shutdown = "Open" /\ write_error = "none"
  /\ op = "none" /\ pc = "idle" /\ buf = 0 /\ budget = 0 /\ woken = FALSE /\ result = "none"
  /\ queued \in 0..SndRecords /\ nospace \in {FALSE, Full}
  /\ net = "up" /\ torn = FALSE /\ fin = FALSE
  /\ TokioInit /\ (ready["write"] \/ edge["write"] \/ nospace)
  /\ accepted = 0 /\ wire = <<>>

-----------------------------------------------------------------------------
Goto(step) == pc' = step /\ UNCHANGED <<op, buf, woken, result>>

Return(r) ==
  /\ pc' = "idle" /\ result' = r
  /\ op' = "none" /\ buf' = 0 /\ budget' = 0 /\ woken' = FALSE

Call(o, n) ==
  /\ pc = "idle"
  /\ pc' = "waiting" /\ op' = o /\ buf' = n /\ woken' = TRUE /\ result' = "none"
  /\ UNCHANGED <<streamVars, budget, sockVars, tokioVars, outVars>>

Cancel ==
  /\ pc = "waiting"
  /\ Return("none")
  /\ UNCHANGED <<streamVars, sockVars, tokioVars, outVars>>

\* Mutant: a failed close_notify is reported and not kept.
write_failure_forgets(e) == write_error

write_failure(e) == e

\* Mutant: only the userspace path looks at shutdown.
write_refused_never == FALSE

write_refused == shutdown # "Open"

\* The checks poll_write, poll_flush and poll_shutdown begin with; nothing is
\* pending on kTLS, so poll_pending_write only looks at write_error.
Poll ==
  /\ pc = "waiting"
  /\ \/ op = "write" /\ buf = 0 /\ Return("Ok") /\ UNCHANGED shutdown
     \/ ~(op = "write" /\ buf = 0) /\ write_error # "none" /\ Return(write_error)
        /\ UNCHANGED shutdown
     \/ /\ op = "write" /\ buf > 0 /\ write_error = "none" /\ UNCHANGED shutdown
        /\ IF write_refused THEN Return("BrokenPipe")
           ELSE pc' = "write" /\ woken' = FALSE /\ UNCHANGED <<op, buf, budget, result>>
     \/ op = "flush" /\ write_error = "none" /\ Return("Ok") /\ UNCHANGED shutdown
     \/ /\ op = "shutdown" /\ write_error = "none" /\ shutdown = "Closed"
        /\ Return("Ok") /\ UNCHANGED shutdown
     \/ /\ op = "shutdown" /\ write_error = "none" /\ shutdown # "Closed"
        /\ shutdown' = "Sending"
        /\ pc' = "try" /\ budget' = IO_BUDGET /\ woken' = FALSE /\ UNCHANGED <<op, buf, result>>
  /\ UNCHANGED <<write_error, sockVars, tokioVars, outVars>>

-----------------------------------------------------------------------------
(* ktls_poll_write: an error of write(2) or of the wait is not kept.       *)

write_completes ==
  /\ pc = "write"
  /\ \/ ~ready["write"] /\ Goto("ready") /\ UNCHANGED <<budget, sockVars, outVars>>
     \/ /\ ready["write"] /\ net = "up" /\ ~Full
        /\ \E n \in 1..buf :
             /\ accepted' = accepted + n
             /\ wire' = wire \o [i \in 1..n |-> accepted + i]
        /\ queued' = queued + 1 /\ Return("Ok") /\ UNCHANGED <<nospace, net, torn, fin>>
     \/ /\ ready["write"] /\ net = "up" /\ Full
        /\ nospace' = TRUE /\ Goto("clear") /\ UNCHANGED <<budget, queued, net, torn, fin, outVars>>
     \/ /\ ready["write"] /\ net = "reset"
        /\ Return("Os") /\ UNCHANGED <<sockVars, outVars>>
  /\ Look("write") /\ UNCHANGED streamVars

\* EINTR: the loop goes round.
write_interrupted ==
  /\ pc = "write" /\ ready["write"] /\ "intr" \in Faults
  /\ Goto("write") /\ Look("write")
  /\ UNCHANGED <<budget, streamVars, sockVars, outVars>>

try_write == write_completes \/ write_interrupted

-----------------------------------------------------------------------------
(* poll_close_notify and the end of poll_shutdown.                         *)

\* Mutant: one round too many.
out_of_budget_late == budget < 0

out_of_budget == budget <= 0

\* Mutant: the task does not wake itself.
woken_at_budget_end_no == woken

woken_at_budget_end == TRUE

budget_end ==
  /\ pc = "try" /\ out_of_budget
  /\ pc' = "waiting" /\ woken' = woken_at_budget_end
  /\ UNCHANGED <<op, buf, budget, result, streamVars, sockVars, tokioVars, outVars>>

try_io ==
  /\ pc = "try" /\ ~out_of_budget
  /\ budget' = budget - 1
  /\ Goto(IF ready["write"] THEN "alert" ELSE "ready")
  /\ Look("write")
  /\ UNCHANGED <<streamVars, sockVars, outVars>>

alert_failed(e) == write_error' = write_failure(e) /\ Return(e)

\* check_close_notify_write: all of the alert, none of it, or a part.
alert_sent ==
  /\ net = "up" /\ ~Full
  /\ \/ /\ wire' = Append(wire, 0) /\ queued' = queued + 1
        /\ shutdown' = "Closed" /\ Goto("fin") /\ UNCHANGED <<budget, torn, write_error>>
     \/ /\ "zero" \in Faults
        /\ alert_failed("WriteZero") /\ UNCHANGED <<wire, queued, torn, shutdown>>
     \/ /\ "torn" \in Faults /\ torn' = TRUE /\ queued' = queued + 1
        /\ alert_failed("InvalidData") /\ UNCHANGED <<wire, shutdown>>
  /\ UNCHANGED <<nospace, net, fin>>

send_completes ==
  /\ pc = "alert"
  /\ \/ alert_sent
     \/ /\ net = "up" /\ Full /\ nospace' = TRUE
        /\ Goto("clear") /\ UNCHANGED <<budget, streamVars, queued, net, torn, fin, wire>>
     \/ /\ net = "reset"
        /\ alert_failed("Os") /\ UNCHANGED <<shutdown, sockVars, wire>>
  /\ UNCHANGED <<tokioVars, accepted>>

send_interrupted ==
  /\ pc = "alert" /\ "intr" \in Faults
  /\ Goto("try") /\ UNCHANGED <<budget, streamVars, sockVars, tokioVars, outVars>>

send_close_notify == send_completes \/ send_interrupted

\* TCP shutdown(SHUT_WR), in the same poll.
tcp_shutdown ==
  /\ pc = "fin"
  /\ \/ net = "up" /\ fin' = TRUE /\ Return("Ok") /\ UNCHANGED write_error
     \/ net = "reset" /\ alert_failed("Os") /\ UNCHANGED fin
  /\ UNCHANGED <<shutdown, queued, nospace, net, torn, tokioVars, outVars>>

-----------------------------------------------------------------------------
clear_ready ==
  /\ pc = "clear"
  /\ Clear("write") /\ Goto("ready")
  /\ UNCHANGED <<budget, streamVars, sockVars, outVars>>

\* poll_write_ready: only poll_shutdown keeps its error.
poll_write_ready ==
  /\ pc = "ready"
  /\ \/ /\ driver = "down" /\ Return("Other")
        /\ write_error' = IF op = "shutdown" THEN write_failure("Other") ELSE write_error
        /\ UNCHANGED tokioVars
     \/ /\ driver = "up" /\ ready["write"]
        /\ Goto(IF op = "write" THEN "write" ELSE "try")
        /\ UNCHANGED <<budget, write_error, tokioVars>>
     \/ /\ driver = "up" /\ ~ready["write"]
        /\ Goto("waiting") /\ Arm("write")
        /\ UNCHANGED <<budget, write_error>>
  /\ UNCHANGED <<shutdown, sockVars, outVars>>

-----------------------------------------------------------------------------
(* The network and tokio's driver.                                         *)

\* The peer acknowledges a record; EPOLLOUT only follows a full buffer.
Drain ==
  /\ net = "up" /\ queued > 0
  /\ queued' = queued - 1 /\ nospace' = FALSE
  /\ Edge(IF nospace THEN {"write"} ELSE {})
  /\ UNCHANGED <<streamVars, taskVars, net, torn, fin, outVars>>

ConnectionReset ==
  /\ "reset" \in Faults /\ net = "up"
  /\ net' = "reset" /\ Edge({"write"})
  /\ UNCHANGED <<streamVars, taskVars, queued, nospace, torn, fin, outVars>>

DriverSet ==
  /\ Set("write")
  /\ UNCHANGED <<streamVars, taskVars, sockVars, outVars>>

WakeTask ==
  /\ woken' = (woken \/ (armed["write"] /\ pc # "idle"))
  /\ UNCHANGED <<op, pc, buf, budget, result>>

DriverWake == Wake("write") /\ WakeTask /\ UNCHANGED <<streamVars, sockVars, outVars>>

DriverDown ==
  /\ "driver" \in Faults
  /\ Down /\ WakeTask
  /\ UNCHANGED <<streamVars, sockVars, outVars>>

-----------------------------------------------------------------------------
Running ==
  try_write \/ budget_end \/ try_io \/ send_close_notify \/ tcp_shutdown \/ clear_ready
    \/ poll_write_ready

Next ==
  \/ \E n \in 0..MaxBuf : accepted + n <= MaxBytes /\ Call("write", n)
  \/ Call("flush", 0) \/ Call("shutdown", 0)
  \/ Cancel \/ Poll \/ Running
  \/ Drain \/ ConnectionReset \/ DriverSet \/ DriverWake \/ DriverDown

Spec == Init /\ [][Next]_vars

(* A woken task is polled, a poll runs to its end, the driver handles      *)
(* every edge, the peer keeps reading and signals do not interrupt every   *)
(* system call.                                                            *)
FairSpec ==
  /\ Spec
  /\ WF_vars(Running) /\ SF_vars(write_completes) /\ SF_vars(send_completes) /\ WF_vars(woken /\ Poll)
  /\ WF_vars(DriverSet) /\ WF_vars(DriverWake) /\ WF_vars(Drain)

-----------------------------------------------------------------------------
(* Properties.                                                             *)

TypeOK ==
  /\ shutdown \in {"Open", "Sending", "Closed"} /\ write_error \in {"none"} \cup Failed
  /\ op \in {"none", "write", "flush", "shutdown"} /\ pc \in {"idle", "waiting"} \cup Step
  /\ buf \in 0..MaxBuf /\ budget \in 0..IO_BUDGET /\ woken \in BOOLEAN
  /\ result \in {"none", "Ok"} \cup Failed
  /\ queued \in 0..SndRecords /\ nospace \in BOOLEAN /\ net \in {"up", "reset"}
  /\ torn \in BOOLEAN /\ fin \in BOOLEAN /\ TokioOK
  /\ accepted \in Nat /\ wire \in Seq(Nat)

Outbound == INSTANCE OutboundStream WITH MaxChunk <- 0

(* On kTLS the stream keeps the contract of the write half and holds       *)
(* nothing back: what poll_write acknowledges is with the kernel, in order *)
(* and once, and close_notify is the last thing the kernel gets.           *)
RefinesOutbound == Outbound!Spec

(* Once any byte of close_notify is in the socket nothing else follows it: *)
(* no data, no second alert and no retry of one cut short, whatever the    *)
(* application calls next (poll_close_notify's rule for its caller).       *)
NothingAfterAlert ==
  [][torn \/ Outbound!Closed => torn' = torn /\ wire' = wire /\ accepted' = accepted]_vars

(* A shutdown that reports success has sent close_notify whole and has     *)
(* half-closed TCP; so has any later one (the early return on Closed).     *)
ShutdownMeansClosed ==
  [][op = "shutdown" /\ result' = "Ok" => Outbound!Closed' /\ fin']_vars

(* While the peer reads, every write, flush and shutdown ends: the bit     *)
(* cleared after EAGAIN never hides room that appeared meanwhile, and an   *)
(* operation that runs out of budget is woken again (poll_close_notify).   *)
WriteEnds == pc # "idle" ~> pc = "idle"

=============================================================================
