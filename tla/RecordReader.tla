---------------------------- MODULE RecordReader ----------------------------
(***************************************************************************)
(* The receive path of a kTLS stream (RecordReader of src/ktls/io.rs):     *)
(* recvmsg on a socket whose records the kernel decrypts, one task reading,*)
(* and tokio's cached readiness.                                           *)
(*                                                                         *)
(* A byte is a number: byte n of the peer's application stream is          *)
(* Data + n, the bytes of an alert are their values, below Data.           *)
(***************************************************************************)
EXTENDS Integers, Sequences, Readiness

CONSTANTS
  IO_BUDGET,      \* rounds one poll may make
  MaxCap,         \* bound: capacity of a caller's buffer
  MaxRecords,     \* bound: records the peer sends
  MaxData,        \* bound: application bytes of one record
  Alerts,         \* the bodies of the alerts the peer sends
  Controls,       \* the other control records it sends: "handshake", "other"
  Faults          \* of recvmsg: "intr", "reset", "trunc", "cmsg"; and "driver"

ASSUME ConstantsAssumption ==
  /\ Dir = {"read"}
  /\ IO_BUDGET \in Nat \ {0} /\ MaxCap \in Nat /\ MaxRecords \in Nat /\ MaxData \in Nat
  /\ Alerts \subseteq Seq(0..99) \ {<<>>}
  /\ Controls \subseteq {"handshake", "other"}
  /\ Faults \subseteq {"intr", "reset", "trunc", "cmsg", "driver"}

VARIABLES
  alert, terminal,   \* fields of RecordReader; alert has alert_len bytes
  pc,                \* where the read stands: "idle", "waiting" or a step of its poll
  cap,               \* unfilled capacity of the caller's buffer
  budget,            \* rounds the poll has left
  woken,             \* the task has been woken since its last poll
  result,            \* how the last read ended
  kq,                \* decrypted records the kernel holds; Head may be partly read
  records, fin,      \* what the peer has sent: how many records, and FIN
  delivered,         \* history: bytes given to the application
  sent, closeAt      \* history: bytes the peer sent; sent at its close_notify, or -1

readerVars == <<alert, terminal>>
taskVars   == <<pc, cap, budget, woken, result>>
peerVars   == <<kq, records, fin, sent, closeAt>>
vars == <<readerVars, taskVars, peerVars, tokioVars, delivered>>

Data == 100
Failed == {"InvalidData", "UnexpectedEof", "Unsupported", "Os", "Other"}
Step == {"try", "recv", "clear", "ready"}
IsClose(body) == Len(body) = 2 /\ body[1] \in {1, 2} /\ body[2] = 0

Init ==
  /\ alert = <<>> /\ terminal = "none"
  /\ pc = "idle" /\ cap = 0 /\ budget = 0 /\ woken = FALSE /\ result = "none"
  /\ kq = <<>> /\ records = 0 /\ fin = FALSE
  /\ TokioInit /\ delivered = <<>> /\ sent = 0 /\ closeAt = -1

-----------------------------------------------------------------------------
(* What one recvmsg returned.                                              *)

\* Mutant: ancillary data that is not understood is taken for none.
record_type_lax(cmsgs, trunc) ==
  IF trunc THEN "Err"
  ELSE IF cmsgs = <<>> \/ \E i \in 1..Len(cmsgs) : cmsgs[i] = "bad" THEN "none"
  ELSE cmsgs[1]

\* RecvControl::record_type: none, one, or application data told twice.
record_type(cmsgs, trunc) ==
  IF trunc \/ \E i \in 1..Len(cmsgs) : cmsgs[i] = "bad" THEN "Err"
  ELSE IF cmsgs = <<>> THEN "none"
  ELSE IF Len(cmsgs) = 1 \/ cmsgs = <<"data", "data">> THEN cmsgs[1]
  ELSE "Err"

\* An outcome: what the reader's fields become and what poll_read is told.
Fail(a, e) == [alert |-> a, terminal |-> e, out |-> e]
More(a)    == [alert |-> a, terminal |-> "none", out |-> "More"]

\* Mutant: end-of-record is not awaited.
consume_alert_eager(eor, payload) ==
  LET a == alert \o payload
  IN IF Len(a) < 2 THEN More(a)
     ELSE IF IsClose(SubSeq(a, 1, 2)) THEN [alert |-> a, terminal |-> "Closed", out |-> "Eof"]
     ELSE Fail(a, "InvalidData")

consume_alert(eor, payload) ==
  LET a == alert \o payload
  IN IF Len(a) > 2 THEN Fail(alert, "InvalidData")
     ELSE IF ~eor THEN IF Len(a) = 2 THEN Fail(a, "InvalidData") ELSE More(a)
     ELSE IF IsClose(a) THEN [alert |-> a, terminal |-> "Closed", out |-> "Eof"]
     ELSE Fail(a, "InvalidData")

\* Mutant: a bare FIN is end of file.
consume_empty_eof(type, eor) ==
  IF type = "none" /\ ~eor THEN [alert |-> alert, terminal |-> "Closed", out |-> "Eof"]
  ELSE Fail(alert, "InvalidData")

\* An empty payload: an empty application record, or else the peer's bare FIN.
consume_empty(type, eor) ==
  IF type = "data" /\ alert = <<>> THEN More(alert)
  ELSE IF type # "none" \/ eor THEN Fail(alert, "InvalidData")
  ELSE Fail(alert, "UnexpectedEof")

consume(type, eor, payload) ==
  LET t == IF type = "none" THEN "data" ELSE type
  IN IF payload = <<>> THEN consume_empty(type, eor)
     ELSE IF alert # <<>> /\ t # "alert" THEN Fail(alert, "InvalidData")
     ELSE CASE t = "data"      -> [More(alert) EXCEPT !.out = "Data"]
            [] t = "alert"     -> consume_alert(eor, payload)
            [] t = "handshake" -> Fail(alert, "Unsupported")
            [] t = "other"     -> Fail(alert, "InvalidData")

-----------------------------------------------------------------------------
(* poll_read.                                                              *)

Return(r) == pc' = "idle" /\ result' = r /\ cap' = 0 /\ budget' = 0 /\ woken' = FALSE

Call(c) ==
  /\ pc = "idle"
  /\ pc' = "waiting" /\ cap' = c /\ woken' = TRUE /\ result' = "none"
  /\ UNCHANGED <<readerVars, budget, peerVars, tokioVars, delivered>>

\* The future of a pending read is dropped; the reader keeps its state.
Cancel ==
  /\ pc = "waiting"
  /\ Return("none")
  /\ UNCHANGED <<readerVars, peerVars, tokioVars, delivered>>

\* finished: what a closed or failed reader answers from then on.
finished == IF terminal = "Closed" THEN "Eof" ELSE terminal

\* Mutant: only a closed reader is done.
is_finished_closed == terminal = "Closed"

is_finished == terminal # "none"

Poll ==
  /\ pc = "waiting"
  /\ \/ cap = 0 /\ Return("Empty")
     \/ cap > 0 /\ is_finished /\ Return(finished)
     \/ /\ cap > 0 /\ ~is_finished
        /\ pc' = "try" /\ budget' = IO_BUDGET /\ woken' = FALSE
        /\ UNCHANGED <<cap, result>>
  /\ UNCHANGED <<readerVars, peerVars, tokioVars, delivered>>

\* Mutant: the task does not wake itself.
woken_at_budget_end_no == woken

\* Out of budget: wake_by_ref, then Pending.
woken_at_budget_end == TRUE

budget_end ==
  /\ pc = "try" /\ budget = 0
  /\ pc' = "waiting" /\ woken' = woken_at_budget_end
  /\ UNCHANGED <<readerVars, cap, budget, result, peerVars, tokioVars, delivered>>

\* try_io runs the closure only if the cached bit is set.
try_io ==
  /\ pc = "try" /\ budget > 0
  /\ budget' = budget - 1
  /\ pc' = IF ready["read"] THEN "recv" ELSE "ready"
  /\ Look("read")
  /\ UNCHANGED <<readerVars, cap, woken, result, peerVars, delivered>>

\* EINTR: the next round.
recv_interrupted ==
  /\ pc = "recv" /\ "intr" \in Faults
  /\ pc' = "try"
  /\ UNCHANGED <<readerVars, cap, budget, woken, result, peerVars, tokioVars, delivered>>

recv_would_block ==
  /\ pc = "recv" /\ kq = <<>> /\ ~fin
  /\ pc' = "clear"
  /\ UNCHANGED <<readerVars, cap, budget, woken, result, peerVars, tokioVars, delivered>>

\* An errno or malformed ancillary data: fail, whatever was received.
recv_failed(e) ==
  /\ pc = "recv"
  /\ terminal' = e /\ Return(e)
  /\ UNCHANGED <<alert, peerVars, tokioVars, delivered>>

\* One record or the part of it that fits; alerts and handshakes end with MSG_EOR.
recv_record(cmsgs, trunc) ==
  LET r    == Head(kq)
      n    == IF Len(r.body) < cap THEN Len(r.body) ELSE cap
      got  == SubSeq(r.body, 1, n)
      rest == SubSeq(r.body, n + 1, Len(r.body))
      eor  == rest = <<>> /\ r.type # "data"
      type == record_type(cmsgs, trunc)
      o    == IF type = "Err" THEN Fail(alert, "InvalidData") ELSE consume(type, eor, got)
  IN /\ pc = "recv" /\ kq # <<>>
     /\ kq' = IF rest = <<>> THEN Tail(kq) ELSE <<[r EXCEPT !.body = rest]>> \o Tail(kq)
     /\ alert' = o.alert /\ terminal' = o.terminal
     /\ delivered' = IF o.out = "Data" THEN delivered \o got ELSE delivered
     /\ IF o.out = "More" THEN pc' = "try" /\ UNCHANGED <<cap, budget, woken, result>>
                          ELSE Return(o.out)
     /\ UNCHANGED <<records, fin, sent, closeAt, tokioVars>>

\* A bare FIN: no payload, no type.
recv_fin ==
  /\ pc = "recv" /\ kq = <<>> /\ fin
  /\ LET o == consume("none", FALSE, <<>>)
     IN /\ alert' = o.alert /\ terminal' = o.terminal
        /\ IF o.out = "More" THEN pc' = "try" /\ UNCHANGED <<cap, budget, woken, result>>
                             ELSE Return(o.out)
  /\ UNCHANGED <<peerVars, tokioVars, delivered>>

\* After EAGAIN try_io clears the bit.
clear_ready ==
  /\ pc = "clear"
  /\ Clear("read")
  /\ pc' = "ready"
  /\ UNCHANGED <<readerVars, cap, budget, woken, result, peerVars, delivered>>

poll_read_ready ==
  /\ pc = "ready"
  /\ \/ driver = "down" /\ terminal' = "Other" /\ Return("Other") /\ UNCHANGED tokioVars
     \/ /\ driver = "up" /\ ready["read"]
        /\ pc' = "try" /\ UNCHANGED <<terminal, cap, budget, woken, result, tokioVars>>
     \/ /\ driver = "up" /\ ~ready["read"]
        /\ pc' = "waiting" /\ Arm("read")
        /\ UNCHANGED <<terminal, cap, budget, woken, result>>
  /\ UNCHANGED <<alert, peerVars, delivered>>

-----------------------------------------------------------------------------
(* The kernel, the peer and tokio's driver.                                *)

\* How the kernel tells the type of the record it returns.
Told(type) == IF type = "data" THEN {<<>>, <<"data">>, <<"data", "data">>} ELSE {<<type>>}
Malformed(type) == {<<"bad">>, <<type, "bad">>, <<type, "alert">>} \ {<<"data", "data">>}

recv_completes ==
  \/ recv_would_block \/ recv_fin
  \/ "reset" \in Faults /\ recv_failed("Os")
  \/ kq # <<>> /\ \/ \E c \in Told(Head(kq).type) : recv_record(c, FALSE)
                  \/ "trunc" \in Faults /\ recv_record(<<Head(kq).type>>, TRUE)
                  \/ "cmsg" \in Faults /\ \E c \in Malformed(Head(kq).type) : recv_record(c, FALSE)

recvmsg == recv_interrupted \/ recv_completes

Arrive(type, body) ==
  /\ ~fin /\ closeAt = -1 /\ records < MaxRecords
  /\ kq' = Append(kq, [type |-> type, body |-> body])
  /\ records' = records + 1
  /\ Edge({"read"})
  /\ UNCHANGED <<readerVars, taskVars, fin, delivered>>

PeerData(n) ==
  /\ Arrive("data", [i \in 1..n |-> Data + sent + i])
  /\ sent' = sent + n /\ UNCHANGED closeAt

PeerAlert(body) ==
  /\ Arrive("alert", body)
  /\ closeAt' = IF IsClose(body) THEN sent ELSE closeAt
  /\ UNCHANGED sent

PeerControl(type) == Arrive(type, <<1>>) /\ UNCHANGED <<sent, closeAt>>

\* recvmsg goes on into the next record while both are application data: to
\* the reader they are one.
kernel_merges ==
  /\ Len(kq) >= 2 /\ kq[1].type = "data" /\ kq[2].type = "data"
  /\ kq' = <<[type |-> "data", body |-> kq[1].body \o kq[2].body]>> \o SubSeq(kq, 3, Len(kq))
  /\ UNCHANGED <<readerVars, taskVars, records, fin, sent, closeAt, tokioVars, delivered>>

PeerFin ==
  /\ ~fin
  /\ fin' = TRUE /\ Edge({"read"})
  /\ UNCHANGED <<readerVars, taskVars, kq, records, sent, closeAt, delivered>>

DriverSet ==
  /\ Set("read")
  /\ UNCHANGED <<readerVars, taskVars, peerVars, delivered>>

\* A waker kept from a dropped read wakes nobody.
WakeTask == woken' = (woken \/ (armed["read"] /\ pc # "idle"))

DriverWake ==
  /\ Wake("read") /\ WakeTask
  /\ UNCHANGED <<readerVars, pc, cap, budget, result, peerVars, delivered>>

DriverDown ==
  /\ "driver" \in Faults
  /\ Down /\ WakeTask
  /\ UNCHANGED <<readerVars, pc, cap, budget, result, peerVars, delivered>>

-----------------------------------------------------------------------------
Running == budget_end \/ try_io \/ recvmsg \/ clear_ready \/ poll_read_ready

Next ==
  \/ \E c \in 0..MaxCap : Call(c)
  \/ Cancel \/ Poll
  \/ Running
  \/ \E n \in 0..MaxData : PeerData(n)
  \/ \E body \in Alerts : PeerAlert(body)
  \/ \E type \in Controls : PeerControl(type)
  \/ PeerFin \/ kernel_merges \/ DriverSet \/ DriverWake \/ DriverDown

Spec == Init /\ [][Next]_vars

(* The executor polls a woken task and lets a poll run to its end; the     *)
(* driver handles every edge; signals do not interrupt every recvmsg.      *)
FairSpec ==
  /\ Spec
  /\ WF_vars(Running) /\ SF_vars(recv_completes) /\ WF_vars(woken /\ Poll)
  /\ WF_vars(DriverSet) /\ WF_vars(DriverWake)

-----------------------------------------------------------------------------
(* Properties.                                                             *)

TypeOK ==
  /\ alert \in Seq(0..99) /\ Len(alert) <= 2
  /\ terminal \in {"none", "Closed"} \cup Failed
  /\ pc \in {"idle", "waiting"} \cup Step /\ cap \in 0..MaxCap /\ budget \in 0..IO_BUDGET
  /\ woken \in BOOLEAN
  /\ result \in {"none", "Empty", "Data", "Eof"} \cup Failed
  /\ kq \in Seq([type : {"data", "alert", "handshake", "other"}, body : Seq(Nat)])
  /\ records \in 0..MaxRecords /\ fin \in BOOLEAN
  /\ TokioOK
  /\ delivered \in Seq(Nat) /\ sent \in Nat /\ closeAt \in Nat \cup {-1}

Inbound ==
  INSTANCE InboundStream WITH
    wire <- [i \in 1..sent |-> i] \o (IF closeAt = -1 THEN <<>> ELSE <<0>>),
    delivered <- [i \in 1..Len(delivered) |-> delivered[i] - Data],
    eof <- terminal = "Closed"

(* The reader keeps the contract of a read half towards any peer: every    *)
(* step of it, of the kernel or of the peer hands over the next bytes of   *)
(* the peer's stream, or ends it behind all of them, or changes nothing.   *)
RefinesInbound == Inbound!Spec

(* The application gets the peer's application bytes, in order and without *)
(* a gap, and never a byte of an alert or a handshake, whatever buffers it *)
(* reads into and however often a read is dropped (consume).               *)
InOrder == \A i \in 1..Len(delivered) : delivered[i] = Data + i

(* End of file is only ever reported for a complete close_notify of the    *)
(* peer, after every byte it sent before it: never for a bare FIN, an      *)
(* empty record or the first byte of an alert (consume, consume_alert).    *)
EofIsAuthentic ==
  terminal = "Closed" \/ result = "Eof" => closeAt >= 0 /\ Len(delivered) = closeAt

(* A held first alert byte stays with the alert the kernel has yet to      *)
(* finish: the two bytes of an alert are never of different records.       *)
PartialAlertMatches ==
  alert # <<>> /\ terminal = "none" =>
    Len(alert) = 1 /\ kq # <<>> /\ Head(kq).type = "alert"

(* A parked read will be polled again: tokio holds its waker, or the task  *)
(* has been woken, as when the budget ran out (poll_read).                 *)
ParkedIsArmed == pc = "waiting" => woken \/ armed["read"]

(* A closed or failed reader stays so: every later read into a nonempty    *)
(* buffer gives the same answer, and nothing more is delivered (finished). *)
TerminalIsSticky ==
  [][terminal # "none" =>
       /\ terminal' = terminal /\ delivered' = delivered
       /\ result' # result => result' \in {"none", "Empty", finished}]_vars

(* A read ends once the kernel holds application data or FIN: the bit that *)
(* try_io clears never hides what arrived meanwhile.                       *)
ReadEnds ==
  pc # "idle" /\ (fin \/ \E i \in 1..Len(kq) : kq[i].type = "data" /\ kq[i].body # <<>>)
    ~> pc = "idle"

=============================================================================
