-------------------------- MODULE KtlsWriterProofs --------------------------
(***************************************************************************)
(* Theorems about KtlsWriter: it implements OutboundStream with nothing    *)
(* held back, nothing follows a part of an alert, and a shutdown that      *)
(* reports success has closed, for any budget, buffer and room; and what   *)
(* a stream that keeps the contract and a reader at the other end of the   *)
(* connection promise together.                                            *)
(*                                                                         *)
(* The invariant ties the step of a poll to the fields it was entered      *)
(* under (Control), and the fields to what the kernel has taken (Data).    *)
(***************************************************************************)
EXTENDS KtlsWriter, SequenceTheorems, TLAPS

\* A poll that waits for room does so for a write or for close_notify.
Writing == pc = "write" \/ (pc \in {"clear", "ready"} /\ op = "write")
Closing == pc \in {"try", "alert"} \/ (pc \in {"clear", "ready"} /\ op = "shutdown")

Types ==
  /\ shutdown \in {"Open", "Sending", "Closed"}
  /\ op \in {"none", "write", "flush", "shutdown"} /\ pc \in {"idle", "waiting"} \cup Step
  /\ accepted \in Nat /\ wire \in Seq(Nat) /\ buf \in Nat
  /\ torn \in BOOLEAN /\ fin \in BOOLEAN /\ write_error \in {"none"} \cup Failed

Control ==
  /\ (pc = "idle") <=> (op = "none")
  /\ op # "none" => result = "none"
  /\ pc \in {"clear", "ready"} => op \in {"write", "shutdown"}
  /\ Writing => op = "write" /\ shutdown = "Open" /\ write_error = "none"
  /\ Closing => op = "shutdown" /\ shutdown = "Sending" /\ write_error = "none"
  /\ pc = "fin" => op = "shutdown" /\ shutdown = "Closed" /\ write_error = "none"

Data ==
  /\ torn = TRUE => write_error # "none"
  /\ shutdown = "Closed" /\ write_error = "none" /\ pc # "fin" => fin = TRUE
  /\ IF shutdown = "Closed" THEN Outbound!Closed ELSE ~Outbound!Closed /\ Len(wire) = accepted

IInv == Types /\ Control /\ Data

-----------------------------------------------------------------------------
(* The steps that leave the kernel alone.                                  *)

\* The fields of a poll's steps, apart from the kernel's.
Still == UNCHANGED <<shutdown, torn, fin, outVars>>

LEMMA StillData ==
  ASSUME IInv, Still, write_error' = write_error \/ write_error' \in Failed,
         pc # "fin" \/ write_error' # "none"
  PROVE  Data'
<1> USE DEF Still, outVars
<1>1. Outbound!Closed' <=> Outbound!Closed
  BY DEF Outbound!Closed
<1>2. torn' = TRUE => write_error' # "none"
  BY DEF IInv, Data, Failed
<1>3. shutdown' = "Closed" /\ write_error' = "none" /\ pc' # "fin" => fin' = TRUE
  BY DEF IInv, Data, Failed
<1> QED
  BY <1>1, <1>2, <1>3 DEF IInv, Data

\* A poll returns without touching the kernel.
LEMMA ReturnStep ==
  ASSUME IInv, NEW r, Return(r), Still, write_error' = write_error \/ write_error' \in Failed,
         pc # "fin" \/ write_error' # "none"
  PROVE  IInv'
<1>1. Data'
  BY StillData
<1>2. Types'
  BY DEF IInv, Types, Return, Still, outVars
<1>3. Control'
  BY DEF Control, Return, Writing, Closing
<1> QED
  BY <1>1, <1>2, <1>3 DEF IInv

\* A poll moves on.
Moves(step) ==
  \/ Writing /\ (step \in {"clear", "ready", "waiting", "write"})
  \/ Closing /\ (step \in {"clear", "ready", "waiting", "try", "alert"})

LEMMA MoveStep ==
  ASSUME IInv, NEW step, Moves(step), step = "try" \/ step = "alert" => op = "shutdown",
         pc' = step, UNCHANGED <<op, buf, result, write_error>>, Still
  PROVE  IInv'
<1>1. Data'
  BY StillData DEF Moves, Writing, Closing
<1>2. Types'
  BY DEF IInv, Types, Still, outVars, Moves, Step
<1>3. Control'
  BY DEF IInv, Types, Control, Still, Moves, Writing, Closing
<1> QED
  BY <1>1, <1>2, <1>3 DEF IInv

-----------------------------------------------------------------------------
(* One lemma per step.                                                     *)

LEMMA CallStep ==
  ASSUME IInv, NEW o \in {"write", "flush", "shutdown"}, NEW n \in Nat, Call(o, n)
  PROVE  IInv'
<1> USE DEF Call, streamVars, sockVars
<1>1. Data'
  BY StillData DEF Still
<1>2. Types'
  BY DEF IInv, Types, outVars
<1>3. Control'
  BY DEF Control, Writing, Closing
<1> QED
  BY <1>1, <1>2, <1>3 DEF IInv

LEMMA PollStep == IInv /\ Poll => IInv'
<1> SUFFICES ASSUME IInv, Poll
    PROVE  IInv'
  OBVIOUS
<1>1. pc = "waiting" /\ write_error' = write_error /\ UNCHANGED <<torn, fin, outVars>>
  BY DEF Poll, sockVars
<1>2. ASSUME NEW r, Return(r), UNCHANGED shutdown
      PROVE  IInv'
  BY <1>1, <1>2, ReturnStep DEF Still
<1>3. CASE /\ op = "write" /\ write_error = "none" /\ shutdown = "Open" /\ UNCHANGED shutdown
           /\ pc' = "write" /\ UNCHANGED <<op, buf, result>>
  <2>1. Data'
    BY <1>1, <1>3, StillData DEF Still
  <2>2. Types'
    BY <1>1, <1>3 DEF IInv, Types, outVars, Step
  <2>3. Control'
    BY <1>1, <1>3 DEF IInv, Control, Writing, Closing
  <2> QED
    BY <2>1, <2>2, <2>3 DEF IInv
<1>4. CASE /\ op = "shutdown" /\ write_error = "none" /\ shutdown # "Closed" /\ shutdown' = "Sending"
           /\ pc' = "try" /\ UNCHANGED <<op, buf, result>>
  <2>1. Outbound!Closed' <=> Outbound!Closed
    BY <1>1 DEF Outbound!Closed, outVars
  <2>2. Data'
    BY <1>1, <1>4, <2>1 DEF IInv, Data, outVars
  <2>3. Types'
    BY <1>1, <1>4 DEF IInv, Types, outVars, Step
  <2>4. Control'
    BY <1>1, <1>4 DEF IInv, Control, Writing, Closing
  <2> QED
    BY <2>2, <2>3, <2>4 DEF IInv
<1>5. \/ \E r : Return(r) /\ UNCHANGED shutdown
      \/ /\ op = "write" /\ write_error = "none" /\ ~write_refused /\ UNCHANGED shutdown
         /\ pc' = "write" /\ UNCHANGED <<op, buf, result>>
      \/ /\ op = "shutdown" /\ write_error = "none" /\ shutdown # "Closed" /\ shutdown' = "Sending"
         /\ pc' = "try" /\ UNCHANGED <<op, buf, result>>
  BY DEF Poll
<1> QED
  BY <1>2, <1>3, <1>4, <1>5 DEF write_refused

\* What write(2) takes is behind what it took before.
LEMMA Taken ==
  ASSUME Types, NEW n \in Nat \ {0}, accepted' = accepted + n,
         wire' = wire \o [i \in 1..n |-> accepted + i], Len(wire) = accepted
  PROVE  /\ accepted' \in Nat /\ wire' \in Seq(Nat) /\ Len(wire') = accepted'
         /\ wire'[Len(wire')] # 0 /\ wire' = wire \o Outbound!Positions(accepted, accepted')
<1> DEFINE new == [i \in 1..n |-> accepted + i]
<1>1. accepted \in Nat /\ wire \in Seq(Nat)
  BY DEF Types
<1>2. new \in Seq(Nat) /\ Len(new) = n
  BY <1>1
<1>3. wire' \in Seq(Nat) /\ Len(wire') = accepted + n
  BY <1>1, <1>2, ConcatProperties
<1>4. wire'[Len(wire')] = new[n]
  BY <1>1, <1>2, <1>3, ConcatProperties
<1>5. new[n] = accepted + n /\ accepted + n # 0
  BY <1>1
<1>6. accepted' - accepted = n
  BY <1>1
<1> QED
  BY <1>1, <1>3, <1>4, <1>5, <1>6 DEF Outbound!Positions

LEMMA WriteStep == IInv /\ try_write => IInv'
<1> SUFFICES ASSUME IInv, try_write
    PROVE  IInv'
  OBVIOUS
<1>1. pc = "write" /\ write_error' = write_error /\ shutdown' = shutdown
  BY DEF try_write, write_completes, write_interrupted, streamVars
<1>2. Writing /\ shutdown = "Open" /\ write_error = "none"
  BY <1>1 DEF IInv, Control, Writing
<1>3. ASSUME NEW step \in {"write", "ready", "clear"}, Goto(step), UNCHANGED <<torn, fin, outVars>>
      PROVE  IInv'
  BY <1>1, <1>2, <1>3, MoveStep DEF Goto, Still, Moves
<1>4. ASSUME NEW n \in 1..buf, accepted' = accepted + n, wire' = wire \o [i \in 1..n |-> accepted + i],
             Return("Ok"), UNCHANGED <<torn, fin>>
      PROVE  IInv'
  <2>1. Len(wire) = accepted /\ Types
    BY <1>2 DEF IInv, Data
  <2>2. n \in Nat \ {0}
    BY <2>1 DEF Types
  <2>3. /\ accepted' \in Nat /\ wire' \in Seq(Nat) /\ Len(wire') = accepted'
        /\ wire'[Len(wire')] # 0
    BY <1>4, <2>1, <2>2, Taken
  <2>4. Types'
    BY <1>1, <1>4, <2>1, <2>3 DEF Types, Return
  <2>5. Control'
    BY <1>4 DEF Control, Return, Writing, Closing
  <2>6. ~Outbound!Closed'
    BY <2>3 DEF Outbound!Closed
  <2>7. Data'
    BY <1>1, <1>2, <1>4, <2>3, <2>6 DEF IInv, Data
  <2> QED
    BY <2>4, <2>5, <2>7 DEF IInv
<1>5. CASE Return("Os") /\ UNCHANGED <<torn, fin, outVars>>
  BY <1>1, <1>5, ReturnStep DEF Still
<1>6. \/ \E step \in {"write", "ready", "clear"} : Goto(step) /\ UNCHANGED <<torn, fin, outVars>>
      \/ /\ \E n \in 1..buf : /\ accepted' = accepted + n
                              /\ wire' = wire \o [i \in 1..n |-> accepted + i]
         /\ Return("Ok") /\ UNCHANGED <<torn, fin>>
      \/ Return("Os") /\ UNCHANGED <<torn, fin, outVars>>
  BY DEF try_write, write_completes, write_interrupted, sockVars
<1> QED
  BY <1>3, <1>4, <1>5, <1>6

\* The steps of poll_close_notify that send nothing.
LEMMA CloseStep == IInv /\ (budget_end \/ try_io \/ send_interrupted) => IInv'
<1> SUFFICES ASSUME IInv, budget_end \/ try_io \/ send_interrupted
    PROVE  IInv'
  OBVIOUS
<1>1. /\ pc \in {"try", "alert"} /\ pc' \in {"waiting", "alert", "ready", "try"}
      /\ UNCHANGED <<op, buf, result, write_error>> /\ Still
  BY DEF budget_end, try_io, send_interrupted, Goto, streamVars, sockVars, Still
<1>2. Closing /\ op = "shutdown"
  BY <1>1 DEF IInv, Control, Closing
<1> QED
  BY <1>1, <1>2, MoveStep DEF Moves

\* The alert: taken whole it is the last of the wire.
LEMMA AlertStep == IInv /\ send_completes => IInv'
<1> SUFFICES ASSUME IInv, send_completes
    PROVE  IInv'
  OBVIOUS
<1>1. pc = "alert" /\ accepted' = accepted
  BY DEF send_completes
<1>2. Closing /\ op = "shutdown" /\ shutdown = "Sending" /\ write_error = "none"
  BY <1>1 DEF IInv, Control, Closing
<1>3. ASSUME NEW e \in Failed, alert_failed(e), UNCHANGED <<shutdown, fin, wire>>, torn' \in BOOLEAN
      PROVE  IInv'
  <2>1. write_error' \in Failed /\ write_error' # "none" /\ Return(e)
    BY <1>3 DEF alert_failed, write_failure, Failed
  <2>2. Types'
    BY <1>1, <1>3, <2>1 DEF IInv, Types, Return
  <2>3. Control'
    BY <2>1 DEF Control, Return, Writing, Closing
  <2>4. Outbound!Closed' <=> Outbound!Closed
    BY <1>3 DEF Outbound!Closed
  <2>5. Data'
    BY <1>1, <1>2, <1>3, <2>1, <2>4 DEF IInv, Data
  <2> QED
    BY <2>2, <2>3, <2>5 DEF IInv
<1>4. CASE /\ wire' = Append(wire, 0) /\ shutdown' = "Closed" /\ Goto("fin")
           /\ UNCHANGED <<torn, write_error, fin>>
  <2>1. wire \in Seq(Nat)
    BY DEF IInv, Types
  <2>2. wire' \in Seq(Nat) /\ Len(wire') = Len(wire) + 1 /\ wire'[Len(wire')] = 0
    BY <1>4, <2>1
  <2>3. Outbound!Closed'
    BY <2>1, <2>2 DEF Outbound!Closed
  <2>4. Types'
    BY <1>1, <1>4, <2>2 DEF IInv, Types, Goto, Step
  <2>5. Control'
    BY <1>2, <1>4 DEF IInv, Control, Goto, Writing, Closing
  <2>6. Data'
    BY <1>1, <1>2, <1>4, <2>3 DEF IInv, Data, Goto
  <2> QED
    BY <2>4, <2>5, <2>6 DEF IInv
<1>5. CASE Goto("clear") /\ UNCHANGED <<shutdown, write_error, torn, fin, wire>>
  BY <1>1, <1>2, <1>5, MoveStep DEF Goto, Still, Moves, outVars
<1>6. \/ \E e \in Failed : alert_failed(e) /\ UNCHANGED <<shutdown, fin, wire>> /\ torn' \in BOOLEAN
      \/ /\ wire' = Append(wire, 0) /\ shutdown' = "Closed" /\ Goto("fin")
         /\ UNCHANGED <<torn, write_error, fin>>
      \/ Goto("clear") /\ UNCHANGED <<shutdown, write_error, torn, fin, wire>>
  BY DEF send_completes, alert_sent, streamVars, sockVars, Failed, IInv, Types
<1> QED
  BY <1>3, <1>4, <1>5, <1>6

LEMMA FinStep == IInv /\ tcp_shutdown => IInv'
<1> SUFFICES ASSUME IInv, tcp_shutdown
    PROVE  IInv'
  OBVIOUS
<1>1. /\ pc = "fin" /\ shutdown = "Closed" /\ write_error = "none"
      /\ UNCHANGED <<shutdown, torn, outVars>>
  BY DEF IInv, Control, tcp_shutdown
<1>2. /\ \/ fin' = TRUE /\ write_error' = write_error
         \/ fin' = fin /\ write_error' = "Os"
      /\ Return("Ok") \/ Return("Os")
  BY DEF tcp_shutdown, alert_failed, write_failure
<1>3. Outbound!Closed' <=> Outbound!Closed
  BY <1>1 DEF Outbound!Closed, outVars
<1>4. Types'
  <2>1. fin' \in BOOLEAN /\ write_error' \in {"none"} \cup Failed
    BY <1>1, <1>2 DEF IInv, Types, Failed
  <2>2. pc' = "idle" /\ op' = "none" /\ buf' = 0
    BY <1>2 DEF Return
  <2> QED
    BY <1>1, <2>1, <2>2 DEF IInv, Types, outVars
<1>5. Control'
  BY <1>2 DEF Control, Return, Writing, Closing
<1>6. Data'
  BY <1>1, <1>2, <1>3 DEF IInv, Data
<1> QED
  BY <1>4, <1>5, <1>6 DEF IInv

LEMMA ReadyStep == IInv /\ (clear_ready \/ poll_write_ready) => IInv'
<1> SUFFICES ASSUME IInv, clear_ready \/ poll_write_ready
    PROVE  IInv'
  OBVIOUS
<1>1. pc \in {"clear", "ready"} /\ Still
  BY DEF clear_ready, poll_write_ready, Still, streamVars, sockVars
<1>2. \/ op = "write" /\ Writing
      \/ op = "shutdown" /\ Closing
  <2>1. op = "write" \/ op = "shutdown"
    BY <1>1 DEF IInv, Control
  <2> QED
    BY <1>1, <2>1 DEF Writing, Closing
<1>3. CASE Return("Other") /\ (write_error' = write_error \/ write_error' = "Other")
  BY <1>1, <1>3, ReturnStep DEF Failed
<1>4. CASE /\ pc' \in {"ready", "waiting", IF op = "write" THEN "write" ELSE "try"}
           /\ UNCHANGED <<op, buf, result, write_error>>
  <2>1. Moves(pc') /\ (pc' = "try" \/ pc' = "alert" => op = "shutdown")
    BY <1>2, <1>4 DEF Moves
  <2> QED
    BY <1>1, <1>4, <2>1, MoveStep
<1>5. \/ Return("Other") /\ (write_error' = write_error \/ write_error' = "Other")
      \/ /\ pc' \in {"ready", "waiting", IF op = "write" THEN "write" ELSE "try"}
         /\ UNCHANGED <<op, buf, result, write_error>>
  BY DEF clear_ready, poll_write_ready, Goto, write_failure, streamVars
<1> QED
  BY <1>3, <1>4, <1>5

\* The network and the driver touch nothing the invariant reads.
LEMMA SameInv ==
  ASSUME IInv, UNCHANGED <<streamVars, op, pc, buf, result, torn, fin, outVars>>
  PROVE  IInv'
<1> USE DEF streamVars, outVars
<1>1. Types'
  BY DEF IInv, Types
<1>2. Control'
  BY DEF IInv, Control, Writing, Closing
<1>3. Outbound!Closed' <=> Outbound!Closed
  BY DEF Outbound!Closed
<1>4. Data'
  BY <1>3 DEF IInv, Data
<1> QED
  BY <1>1, <1>2, <1>4 DEF IInv

LEMMA OutsideStep ==
  IInv /\ (Drain \/ ConnectionReset \/ DriverSet \/ DriverWake \/ DriverDown) => IInv'
<1> SUFFICES ASSUME IInv, Drain \/ ConnectionReset \/ DriverSet \/ DriverWake \/ DriverDown
    PROVE  IInv'
  OBVIOUS
<1>1. UNCHANGED <<streamVars, op, pc, buf, result, torn, fin, outVars>>
  BY DEF Drain, ConnectionReset, DriverSet, DriverWake, DriverDown, WakeTask, taskVars, sockVars
<1> QED
  BY <1>1, SameInv

LEMMA InitInv == Init => IInv
<1> SUFFICES ASSUME Init
    PROVE  IInv
  OBVIOUS
<1>1. Types
  <2>1. wire \in Seq(Nat) /\ accepted \in Nat /\ buf \in Nat
    BY DEF Init
  <2> QED
    BY <2>1 DEF Init, Types
<1>2. Control
  BY DEF Init, Control, Writing, Closing
<1>3. Data
  BY DEF Init, Data, Outbound!Closed
<1> QED
  BY <1>1, <1>2, <1>3 DEF IInv

LEMMA StepInv == IInv /\ [Next]_vars => IInv'
<1> SUFFICES ASSUME IInv, [Next]_vars
    PROVE  IInv'
  OBVIOUS
<1>1. ASSUME NEW n \in 0..MaxBuf, Call("write", n)
      PROVE  IInv'
  BY <1>1, CallStep, ConstantsAssumption
<1>2. CASE Call("flush", 0) \/ Call("shutdown", 0)
  BY <1>2, CallStep
<1>3. CASE Cancel
  <2>1. Return("none") /\ Still /\ write_error' = write_error /\ pc # "fin"
    BY <1>3 DEF Cancel, Still, streamVars, sockVars
  <2> QED
    BY <2>1, ReturnStep
<1>4. CASE Poll
  BY <1>4, PollStep
<1>5. CASE Running
  BY <1>5, WriteStep, CloseStep, AlertStep, FinStep, ReadyStep DEF Running, send_close_notify
<1>6. CASE Drain \/ ConnectionReset \/ DriverSet \/ DriverWake \/ DriverDown
  BY <1>6, OutsideStep
<1>7. CASE UNCHANGED vars
  BY <1>7, SameInv DEF vars, taskVars, sockVars
<1> QED
  BY <1>1, <1>2, <1>3, <1>4, <1>5, <1>6, <1>7 DEF Next

-----------------------------------------------------------------------------
(* Theorems.                                                               *)

THEOREM Invariant == Spec => []IInv
BY InitInv, StepInv, PTL DEF Spec

\* A step that moves the contract's variables is a step of the contract.
LEMMA Contract == IInv /\ [Next]_vars => [Outbound!Next]_(Outbound!vars)
<1> SUFFICES ASSUME IInv, [Next]_vars
    PROVE  Outbound!Next \/ UNCHANGED outVars
  BY DEF Outbound!vars, outVars
<1>1. CASE try_write
  <2>1. CASE UNCHANGED outVars
    BY <2>1
  <2>2. ASSUME NEW n \in 1..buf, accepted' = accepted + n, wire' = wire \o [i \in 1..n |-> accepted + i],
               pc = "write"
        PROVE  Outbound!Next
    <3>1. Types /\ shutdown = "Open"
      BY <2>2 DEF IInv, Control, Writing
    <3>2. ~Outbound!Closed /\ Len(wire) = accepted /\ n \in Nat \ {0}
      BY <3>1 DEF IInv, Data, Types
    <3>3. accepted' \in Nat /\ wire' = wire \o Outbound!Positions(accepted, accepted')
      BY <2>2, <3>1, <3>2, Taken
    <3>4. accepted' > accepted
      BY <2>2, <3>1, <3>2 DEF Types
    <3> QED
      BY <3>2, <3>3, <3>4 DEF Outbound!Next, Outbound!AcceptAndSend
  <2> QED
    BY <1>1, <2>1, <2>2 DEF try_write, write_completes, write_interrupted
<1>2. CASE send_completes
  <2>1. accepted' = accepted /\ (wire' = wire \/ wire' = Append(wire, 0)) /\ pc = "alert"
    BY <1>2 DEF send_completes, alert_sent
  <2>2. shutdown = "Sending"
    BY <2>1 DEF IInv, Control, Closing
  <2>3. ~Outbound!Closed /\ Len(wire) = accepted
    BY <2>2 DEF IInv, Data
  <2> QED
    BY <2>1, <2>3 DEF outVars, Outbound!Next, Outbound!Close
<1>3. CASE ~(try_write \/ send_completes)
  BY <1>3 DEF Next, Running, Call, Cancel, Poll, budget_end, try_io, send_close_notify, send_interrupted,
     tcp_shutdown, clear_ready, poll_write_ready, Drain, ConnectionReset, DriverSet, DriverWake,
     DriverDown, vars
<1> QED
  BY <1>1, <1>2, <1>3

(* On kTLS the write half keeps the contract of OutboundStream and holds   *)
(* nothing back, for any budget, buffer, room and faults (poll_write,      *)
(* poll_shutdown and poll_close_notify with ktls_active).                  *)
THEOREM ImplementsOutbound == Spec => RefinesOutbound
<1>1. Init => Outbound!Init
  BY DEF Init, Outbound!Init
<1> QED
  BY <1>1, Invariant, Contract, PTL DEF Spec, RefinesOutbound, Outbound!Spec

\* What the wire has after a part of an alert, or after a whole one.
LEMMA AlertLast ==
  IInv /\ [Next]_vars =>
    [torn \/ Outbound!Closed => torn' = torn /\ wire' = wire /\ accepted' = accepted]_vars
<1> SUFFICES ASSUME IInv, Next, torn \/ Outbound!Closed
    PROVE  torn' = torn /\ wire' = wire /\ accepted' = accepted
  OBVIOUS
<1>1. ~Writing /\ ~Closing
  BY DEF IInv, Types, Control, Data
<1>2. ~try_write /\ ~send_completes
  BY <1>1 DEF try_write, write_completes, write_interrupted, send_completes, Writing, Closing
<1> QED
  BY <1>2 DEF Next, Running, Call, Cancel, Poll, budget_end, try_io, send_close_notify, send_interrupted,
     tcp_shutdown, clear_ready, poll_write_ready, Drain, ConnectionReset, DriverSet, DriverWake,
     DriverDown, outVars, sockVars

(* Whatever is called after close_notify was sent or cut short, nothing    *)
(* follows it into the socket (the latch of poll_shutdown and the guard    *)
(* on shutdown in poll_write).                                             *)
THEOREM AlertIsLast == Spec => NothingAfterAlert
BY Invariant, AlertLast, PTL DEF Spec, NothingAfterAlert

\* A shutdown says Ok from tcp_shutdown, or from Poll when all is done.
LEMMA OkMeansClosed ==
  IInv /\ [Next]_vars => [op = "shutdown" /\ result' = "Ok" => Outbound!Closed' /\ fin']_vars
<1> SUFFICES ASSUME IInv, Next, op = "shutdown", result' = "Ok"
    PROVE  Outbound!Closed' /\ fin'
  OBVIOUS
<1>1. result = "none" /\ pc # "idle" /\ ~Writing
  BY DEF IInv, Control
<1>2. \/ Poll /\ shutdown = "Closed" /\ write_error = "none"
      \/ tcp_shutdown /\ fin' = TRUE
  <2>1. CASE Poll
    <3>1. write_error # "Ok"
      BY DEF IInv, Types, Failed
    <3>2. \/ write_error # "none" /\ Return(write_error)
          \/ write_error = "none" /\ shutdown = "Closed"
          \/ UNCHANGED result
      BY <2>1 DEF Poll
    <3>3. write_error = "none" /\ shutdown = "Closed"
      BY <1>1, <3>1, <3>2 DEF Return
    <3> QED
      BY <2>1, <3>3
  <2>2. CASE tcp_shutdown
    BY <2>2 DEF tcp_shutdown, alert_failed, Return
  <2>3. CASE ~Poll /\ ~tcp_shutdown
    BY <1>1, <2>3 DEF Next, Running, Call, Cancel, try_write, write_completes, write_interrupted,
       budget_end, try_io, send_close_notify, send_completes, alert_sent, alert_failed,
       send_interrupted, clear_ready, poll_write_ready, Drain, ConnectionReset, DriverSet, DriverWake,
       DriverDown, WakeTask, taskVars, Goto, Return, Writing
  <2> QED
    BY <2>1, <2>2, <2>3
<1>3. shutdown = "Closed" /\ fin' = TRUE /\ UNCHANGED outVars
  <2>1. CASE Poll /\ shutdown = "Closed" /\ write_error = "none"
    BY <2>1 DEF Poll, IInv, Data, sockVars
  <2>2. CASE tcp_shutdown /\ fin' = TRUE
    BY <2>2 DEF tcp_shutdown, IInv, Control
  <2> QED
    BY <1>2, <2>1, <2>2
<1> QED
  BY <1>3 DEF IInv, Data, Outbound!Closed, outVars

(* Success of a shutdown, the first or a later one, means that             *)
(* close_notify is with the kernel whole and TCP is half-closed            *)
(* (poll_shutdown's early return and its call of TCP shutdown).            *)
THEOREM ShutdownIsWhole == Spec => ShutdownMeansClosed
BY Invariant, OkMeansClosed, PTL DEF Spec, ShutdownMeansClosed

-----------------------------------------------------------------------------
(* Types: what IInv does not say of the task, the socket and tokio.        *)

Task ==
  /\ buf \in 0..MaxBuf /\ budget \in 0..IO_BUDGET /\ woken \in BOOLEAN
  /\ result \in {"none", "Ok"} \cup Failed

Socket == queued \in 0..SndRecords /\ nospace \in BOOLEAN /\ net \in {"up", "reset"}

LEMMA TokioStep ==
  ASSUME TokioOK, Next
  PROVE  TokioOK'
<1>1. \/ UNCHANGED tokioVars
      \/ Look("write") \/ Clear("write") \/ Arm("write") \/ Set("write") \/ Wake("write") \/ Down
      \/ \E D : Edge(D)
  BY Zenon DEF Next, Call, Cancel, Poll, Running, try_write, write_completes, write_interrupted, budget_end,
     try_io, send_close_notify, send_completes, send_interrupted, tcp_shutdown, clear_ready,
     poll_write_ready, Drain, ConnectionReset, DriverSet, DriverWake, DriverDown
<1> QED
  BY <1>1 DEF TokioOK, tokioVars, Look, Clear, bit_after_clear, Arm, Edge, Set, Wake, Down

LEMMA SocketStep ==
  ASSUME Socket, Next
  PROVE  Socket'
<1>1. \/ UNCHANGED <<queued, nospace, net>>
      \/ ~Full /\ queued' = queued + 1 /\ UNCHANGED <<nospace, net>>
      \/ nospace' = TRUE /\ UNCHANGED <<queued, net>>
      \/ queued > 0 /\ queued' = queued - 1 /\ nospace' = FALSE /\ UNCHANGED net
      \/ net' = "reset" /\ UNCHANGED <<queued, nospace>>
  BY Zenon DEF Next, Call, Cancel, Poll, Running, try_write, write_completes, write_interrupted, budget_end,
     try_io, send_close_notify, send_completes, alert_sent, send_interrupted, tcp_shutdown, clear_ready,
     poll_write_ready, Drain, ConnectionReset, DriverSet, DriverWake, DriverDown, sockVars
<1>2. nospace' \in BOOLEAN /\ net' \in {"up", "reset"}
  BY <1>1, Zenon DEF Socket
<1>3. queued' \in 0..SndRecords
  BY <1>1, ConstantsAssumption DEF Socket, Full
<1> QED
  BY <1>2, <1>3 DEF Socket

LEMMA TaskStep ==
  ASSUME IInv, Task, Next
  PROVE  Task'
<1>1. ASSUME NEW r \in {"none", "Ok"} \cup Failed, Return(r)
      PROVE  Task'
  <2>1. 0 \in 0..MaxBuf /\ 0 \in 0..IO_BUDGET
    BY ConstantsAssumption
  <2> QED
    BY <1>1, <2>1, Zenon DEF Task, Return
<1>2. ASSUME buf' = buf, budget' = budget, result' = result, woken' \in BOOLEAN
      PROVE  Task'
  BY <1>2 DEF Task
<1>3. ASSUME NEW step, Goto(step), budget' = budget
      PROVE  Task'
  BY <1>3 DEF Task, Goto
<1>4. ASSUME NEW n \in 0..MaxBuf, NEW o, Call(o, n)
      PROVE  Task'
  BY <1>4 DEF Task, Call
<1>5. CASE Poll
  <2>1. \/ Return("Ok") \/ Return("BrokenPipe")
        \/ write_error # "none" /\ Return(write_error)
        \/ woken' = FALSE /\ UNCHANGED <<buf, budget, result>>
        \/ budget' = IO_BUDGET /\ woken' = FALSE /\ UNCHANGED <<buf, result>>
    BY <1>5, Zenon DEF Poll
  <2>2. write_error \in {"none"} \cup Failed
    BY DEF IInv, Types
  <2> QED
    <3>1. "BrokenPipe" \in Failed
      BY DEF Failed
    <3>2. IO_BUDGET \in 0..IO_BUDGET
      BY ConstantsAssumption
    <3>3. ASSUME budget' = IO_BUDGET, woken' = FALSE, UNCHANGED <<buf, result>>
          PROVE  Task'
      BY <3>2, <3>3, Zenon DEF Task
    <3> QED
      BY <1>1, <1>2, <2>1, <2>2, <3>1, <3>3, Zenon
<1>6. CASE Running
  <2>1. \/ \E r \in {"Ok"} \cup Failed : Return(r)
        \/ \E step : Goto(step) /\ budget' = budget
        \/ budget_end
        \/ try_io
    BY <1>6, Zenon DEF Running, try_write, write_completes, write_interrupted, send_close_notify, send_completes,
       alert_sent, alert_failed, send_interrupted, tcp_shutdown, clear_ready, poll_write_ready, Failed
  <2>2. CASE budget_end
    BY <1>2, <2>2 DEF budget_end, woken_at_budget_end
  <2>3. CASE try_io
    BY <2>3, ConstantsAssumption DEF try_io, out_of_budget, Goto, Task
  <2> QED
    BY <1>1, <1>3, <2>1, <2>2, <2>3, Zenon
<1>7. CASE Drain \/ ConnectionReset \/ DriverSet \/ DriverWake \/ DriverDown
  <2>1. UNCHANGED <<buf, budget, result>> /\ woken' \in BOOLEAN
    BY <1>7 DEF Drain, ConnectionReset, DriverSet, DriverWake, DriverDown, WakeTask, taskVars, Task
  <2> QED
    BY <1>2, <2>1
<1>8. CASE Cancel
  BY <1>1, <1>8 DEF Cancel
<1>9. 0 \in 0..MaxBuf
  BY ConstantsAssumption
<1> QED
  BY <1>4, <1>5, <1>6, <1>7, <1>8, <1>9, Zenon DEF Next

LEMMA TypeParts == Types /\ Task /\ Socket /\ TokioOK => TypeOK
BY DEF Types, Task, Socket, TypeOK

(* Every field, the task, the socket's counters and tokio's bits keep      *)
(* within their ranges: the send buffer is never overrun, the budget of    *)
(* poll_close_notify never goes below zero, and a poll ends with a result  *)
(* the code has an error for.                                              *)
THEOREM TypesHold == Spec => []TypeOK
<1> DEFINE Inv == IInv /\ Task /\ Socket /\ TokioOK
<1>1. Init => Inv
  <2> SUFFICES ASSUME Init PROVE Inv
    OBVIOUS
  <2>1. 0 \in 0..MaxBuf /\ 0 \in 0..IO_BUDGET
    BY ConstantsAssumption
  <2>2. Task
    BY <2>1, Zenon DEF Init, Task
  <2>3. Full \in BOOLEAN
    BY DEF Full
  <2>4. Socket
    BY <2>3, Zenon DEF Init, Socket
  <2>5. TokioOK
    BY DEF Init, TokioInit, TokioOK
  <2> QED
    BY <2>2, <2>4, <2>5, InitInv
<1>2. Inv /\ [Next]_vars => Inv'
  <2>1. CASE Next
    BY <2>1, StepInv, TaskStep, SocketStep, TokioStep
  <2>2. CASE UNCHANGED vars
    BY <2>2, StepInv DEF vars, taskVars, sockVars, tokioVars, Task, Socket, TokioOK
  <2> QED
    BY <2>1, <2>2
<1>3. Inv => TypeOK
  BY TypeParts DEF IInv
<1> QED
  BY <1>1, <1>2, <1>3, PTL DEF Spec

-----------------------------------------------------------------------------
(* Two ends of a connection: one application writes through a stream that  *)
(* keeps the contract of OutboundStream, the other reads through one that  *)
(* keeps the contract of InboundStream, and the wire of the one is the     *)
(* wire of the other.  KtlsWriter and TlsStream implement the first,       *)
(* RecordReader implements the second; what the two contracts promise      *)
(* together is therefore true of each of their pairs.                      *)

CONSTANT MaxChunk

VARIABLES delivered, eof        \* at the end that reads

Writer == INSTANCE OutboundStream
Inbound == INSTANCE InboundStream

\* Every step is one the writer's contract allows and one the reader's does.
BothEnds == Writer!Spec /\ Inbound!Spec

(* What the reading application has is what the writing one was            *)
(* acknowledged, from its first byte on and without a gap, and it is told  *)
(* that the stream is over only when it has all of it.                     *)
ArrivesWhole ==
  /\ Len(delivered) <= accepted /\ \A i \in 1..Len(delivered) : delivered[i] = i
  /\ eof => Len(delivered) = accepted

(* Once the reader has been told the end, nothing further is acknowledged  *)
(* to the writer: no byte is accepted and then lost behind the end.        *)
EndIsFinal == [][eof => UNCHANGED <<accepted, delivered, eof>>]_<<accepted, wire, delivered, eof>>

-----------------------------------------------------------------------------
Whole(n) == \A i \in 1..n : wire[i] = i

Joint ==
  /\ accepted \in Nat /\ wire \in Seq(Nat) /\ delivered \in Seq(Nat) /\ eof \in BOOLEAN
  /\ IF Writer!Closed THEN Len(wire) = accepted + 1 /\ Whole(accepted)
                        ELSE Len(wire) <= accepted /\ Whole(Len(wire))
  /\ Len(delivered) <= Inbound!Bytes /\ \A i \in 1..Len(delivered) : delivered[i] = i
  /\ eof => Writer!Closed /\ Len(delivered) = accepted

BothStep ==
  /\ [Writer!Next]_(Writer!vars)
  /\ [Inbound!Next]_(Inbound!vars)

LEMMA SameClosed == Inbound!Closed = Writer!Closed
BY DEF Inbound!Closed, Writer!Closed

\* The writer's half of a step.
LEMMA WriterStep ==
  ASSUME Joint, [Writer!Next]_(Writer!vars)
  PROVE  /\ accepted' \in Nat /\ wire' \in Seq(Nat) /\ accepted' >= accepted
         /\ IF Writer!Closed' THEN Len(wire') = accepted' + 1 /\ Whole(accepted)'
                                ELSE Len(wire') <= accepted' /\ Whole(Len(wire))'
         /\ Writer!Closed => accepted' = accepted /\ wire' = wire
         /\ Len(wire) <= Len(wire') /\ \A i \in 1..Len(wire) : wire'[i] = wire[i]
<1>1. /\ accepted \in Nat /\ wire \in Seq(Nat) /\ Len(wire) \in Nat
      /\ ~Writer!Closed => Len(wire) <= accepted /\ \A i \in 1..Len(wire) : wire[i] = i
      /\ Writer!Closed => Len(wire) = accepted + 1 /\ \A i \in 1..accepted : wire[i] = i
  BY DEF Joint, Whole
<1>0. ASSUME wire' = wire, accepted' \in Nat, accepted' >= accepted, Writer!Closed => accepted' = accepted
      PROVE  /\ IF Writer!Closed' THEN Len(wire') = accepted' + 1 /\ Whole(accepted)'
                                    ELSE Len(wire') <= accepted' /\ Whole(Len(wire))'
  <2>1. Writer!Closed' <=> Writer!Closed
    BY <1>0 DEF Writer!Closed
  <2>2. CASE Writer!Closed
    BY <1>0, <1>1, <2>1, <2>2 DEF Whole
  <2>3. CASE ~Writer!Closed
    <3>1. Len(wire') <= accepted'
      BY <1>0, <1>1, <2>3
    <3>2. \A i \in 1..Len(wire') : wire'[i] = i
      BY <1>0, <1>1, <2>3
    <3> QED
      BY <2>1, <2>3, <3>1, <3>2 DEF Whole
  <2> QED
    BY <2>2, <2>3
<1>2. CASE UNCHANGED Writer!vars
  <2>1. wire' = wire /\ accepted' = accepted
    BY <1>2 DEF Writer!vars
  <2> QED
    BY <1>0, <1>1, <2>1
<1>3. CASE Writer!Accept
  <2>1. /\ wire' = wire /\ ~Writer!Closed
        /\ accepted' \in (accepted + 1)..(accepted + MaxChunk)
    BY <1>3 DEF Writer!Accept
  <2>2. accepted' \in Nat /\ accepted' >= accepted
    BY <1>1, <2>1
  <2>3. /\ IF Writer!Closed' THEN Len(wire') = accepted' + 1 /\ Whole(accepted)'
                                ELSE Len(wire') <= accepted' /\ Whole(Len(wire))'
    BY <1>0, <2>1, <2>2
  <2>4. wire' \in Seq(Nat) /\ Len(wire) <= Len(wire') /\ \A i \in 1..Len(wire) : wire'[i] = wire[i]
    BY <1>1, <2>1
  <2> QED
    BY <2>1, <2>2, <2>3, <2>4, Zenon
<1>4. ASSUME NEW n \in Nat, Len(wire) <= n, ~Writer!Closed, accepted' = n, wire' = wire \o Writer!Positions(Len(wire), n)
      PROVE  /\ wire' \in Seq(Nat) /\ Len(wire') = n /\ (\A i \in 1..n : wire'[i] = i) /\ ~Writer!Closed'
             /\ \A i \in 1..Len(wire) : wire'[i] = wire[i]
  <2> DEFINE p == [i \in 1..(n - Len(wire)) |-> Len(wire) + i]
  <2>1. p \in Seq(Nat) /\ Len(p) = n - Len(wire)
    BY <1>1, <1>4
  <2>2. wire' = wire \o p
    BY <1>4 DEF Writer!Positions
  <2>3. /\ wire \o p \in Seq(Nat) /\ Len(wire \o p) = Len(wire) + Len(p)
        /\ \A i \in 1..(Len(wire) + Len(p)) : (wire \o p)[i] = IF i <= Len(wire) THEN wire[i] ELSE p[i - Len(wire)]
    BY <1>1, <2>1, ConcatProperties
  <2>4. Len(wire \o p) = n
    BY <1>1, <1>4, <2>1, <2>3
  <2>5. \A i \in 1..n : (wire \o p)[i] = i
    <3>1. SUFFICES ASSUME NEW i \in 1..n PROVE (wire \o p)[i] = i
      OBVIOUS
    <3>2. CASE i <= Len(wire)
      BY <1>1, <1>4, <2>1, <2>3, <3>2
    <3>3. CASE i > Len(wire)
      <4>1. i - Len(wire) \in 1..(n - Len(wire))
        BY <1>1, <1>4, <3>3
      <4>2. p[i - Len(wire)] = Len(wire) + (i - Len(wire))
        BY <4>1
      <4> QED
        BY <1>1, <1>4, <2>1, <2>3, <3>3, <4>2
    <3> QED
      BY <1>1, <3>2, <3>3
  <2>6. \A i \in 1..Len(wire) : (wire \o p)[i] = wire[i]
    BY <1>1, <1>4, <2>1, <2>3
  <2> HIDE DEF p
  <2>7. wire' \in Seq(Nat) /\ Len(wire') = n /\ \A i \in 1..n : wire'[i] = i
    BY <2>2, <2>3, <2>4, <2>5
  <2>8. ~Writer!Closed'
    <3>1. CASE n = 0
      BY <2>7, <3>1, EmptySeq DEF Writer!Closed
    <3>2. CASE n > 0
      BY <2>7, <3>2 DEF Writer!Closed
    <3> QED
      BY <3>1, <3>2
  <2> QED
    BY <2>2, <2>6, <2>7, <2>8
<1>5. CASE Writer!Send
  <2>1. accepted' = accepted /\ Len(wire) <= accepted /\ ~Writer!Closed /\ wire' = wire \o Writer!Positions(Len(wire), accepted)
    BY <1>1, <1>5 DEF Writer!Send
  <2>2. /\ wire' \in Seq(Nat) /\ Len(wire') = accepted /\ (\A i \in 1..accepted : wire'[i] = i) /\ ~Writer!Closed'
        /\ \A i \in 1..Len(wire) : wire'[i] = wire[i]
    BY <1>1, <1>4, <2>1
  <2> QED
    BY <1>1, <2>1, <2>2 DEF Whole
<1>6. CASE Writer!AcceptAndSend
  <2>1. /\ accepted' \in Nat /\ accepted' > accepted /\ Len(wire) = accepted /\ ~Writer!Closed
        /\ wire' = wire \o Writer!Positions(Len(wire), accepted')
    BY <1>1, <1>6 DEF Writer!AcceptAndSend
  <2>2. PICK n \in Nat : n = accepted'
    BY <2>1
  <2>3. Len(wire) <= n /\ accepted' = n /\ wire' = wire \o Writer!Positions(Len(wire), n)
    BY <1>1, <2>1, <2>2
  <2>4. /\ wire' \in Seq(Nat) /\ Len(wire') = n /\ (\A i \in 1..n : wire'[i] = i) /\ ~Writer!Closed'
        /\ \A i \in 1..Len(wire) : wire'[i] = wire[i]
    BY <1>4, <2>1, <2>3
  <2> QED
    BY <1>1, <2>1, <2>2, <2>4 DEF Whole
<1>7. CASE Writer!Close
  <2>1. accepted' = accepted /\ Len(wire) = accepted /\ ~Writer!Closed /\ wire' = Append(wire, 0)
    BY <1>7 DEF Writer!Close
  <2>2. /\ wire' \in Seq(Nat) /\ Len(wire') = Len(wire) + 1 /\ wire'[Len(wire) + 1] = 0
        /\ \A i \in 1..Len(wire) : wire'[i] = wire[i]
    BY <1>1, <2>1, AppendProperties
  <2>3. Writer!Closed'
    BY <1>1, <2>2, EmptySeq DEF Writer!Closed
  <2>4. \A i \in 1..accepted : wire'[i] = i
    BY <1>1, <2>1, <2>2
  <2> QED
    BY <1>1, <2>1, <2>2, <2>3, <2>4 DEF Whole
<1> QED
  BY <1>2, <1>3, <1>5, <1>6, <1>7 DEF Writer!Next

\* The reader's half.
LEMMA JointStep ==
  ASSUME Joint, BothStep
  PROVE  Joint'
<1>1. /\ accepted' \in Nat /\ wire' \in Seq(Nat) /\ accepted' >= accepted
      /\ IF Writer!Closed' THEN Len(wire') = accepted' + 1 /\ Whole(accepted)'
                             ELSE Len(wire') <= accepted' /\ Whole(Len(wire))'
      /\ Writer!Closed => accepted' = accepted /\ wire' = wire
      /\ Len(wire) <= Len(wire')
  BY WriterStep DEF BothStep
<1>2. /\ accepted \in Nat /\ wire \in Seq(Nat) /\ Len(wire) \in Nat /\ delivered \in Seq(Nat)
      /\ Len(delivered) \in Nat /\ Len(delivered) <= Inbound!Bytes
      /\ \A i \in 1..Len(delivered) : delivered[i] = i
      /\ eof => Writer!Closed /\ Len(delivered) = accepted
  BY DEF Joint
<1>3. Writer!Closed => Inbound!Bytes = accepted /\ \A i \in 1..accepted : wire[i] = i
  BY <1>2, SameClosed DEF Joint, Inbound!Bytes, Whole
<1>4. ~Writer!Closed => Inbound!Bytes = Len(wire) /\ \A i \in 1..Len(wire) : wire[i] = i
  BY <1>2, SameClosed DEF Joint, Inbound!Bytes, Whole
<1>5. /\ Writer!Closed' => Inbound!Bytes' = accepted'
      /\ ~Writer!Closed' => Inbound!Bytes' = Len(wire')
  <2>1. Inbound!Closed' <=> Writer!Closed'
    BY DEF Inbound!Closed, Writer!Closed
  <2>2. Len(wire') \in Nat
    BY <1>1
  <2>3. CASE Writer!Closed'
    <3>1. Inbound!Bytes' = Len(wire') - 1
      BY <2>1, <2>3 DEF Inbound!Bytes
    <3> QED
      BY <1>1, <2>3, <3>1
  <2>4. CASE ~Writer!Closed'
    BY <2>1, <2>4 DEF Inbound!Bytes
  <2> QED
    BY <2>3, <2>4
<1>6. Inbound!Bytes' >= Inbound!Bytes /\ Inbound!Bytes \in Nat /\ Inbound!Bytes' \in Nat
  <2>1. CASE Writer!Closed
    <3>1. Writer!Closed'
      BY <1>1, <2>1 DEF Writer!Closed
    <3> QED
      BY <1>1, <1>2, <1>3, <1>5, <2>1, <3>1
  <2>2. CASE ~Writer!Closed /\ Writer!Closed'
    <3>1. Len(wire) <= accepted
      BY <2>2 DEF Joint
    <3> QED
      BY <1>1, <1>2, <1>4, <1>5, <2>2, <3>1
  <2>3. CASE ~Writer!Closed /\ ~Writer!Closed'
    BY <1>1, <1>2, <1>4, <1>5, <2>3
  <2> QED
    BY <2>1, <2>2, <2>3
<1>7. eof' \in BOOLEAN
  BY Zenon DEF Joint, BothStep, Inbound!Next, Inbound!PeerSends, Inbound!Deliver, Inbound!End, Inbound!vars
<1>8. CASE UNCHANGED <<delivered, eof>>
  <2>1. delivered' \in Seq(Nat) /\ Len(delivered') <= Inbound!Bytes' /\ \A i \in 1..Len(delivered') : delivered'[i] = i
    BY <1>2, <1>6, <1>8
  <2>2. eof' => Writer!Closed' /\ Len(delivered') = accepted'
    BY <1>1, <1>2, <1>8 DEF Writer!Closed
  <2> QED
    BY <1>1, <1>7, <2>1, <2>2, Zenon DEF Joint
<1>9. CASE Inbound!Deliver
  <2>1. PICK n \in Len(delivered)..Inbound!Bytes : delivered' = SubSeq(wire, 1, n)
    BY <1>9 DEF Inbound!Deliver
  <2>2. n \in Nat /\ n <= Len(wire) /\ \A i \in 1..n : wire[i] = i
    <3>1. CASE Writer!Closed
      BY <1>2, <1>3, <1>6, <2>1, <3>1 DEF Joint
    <3>2. CASE ~Writer!Closed
      BY <1>2, <1>4, <1>6, <2>1, <3>2
    <3> QED
      BY <3>1, <3>2
  <2>3. delivered' \in Seq(Nat) /\ Len(delivered') = n /\ \A i \in 1..n : delivered'[i] = wire[i]
    BY <1>2, <2>1, <2>2
  <2>4. delivered' \in Seq(Nat) /\ Len(delivered') <= Inbound!Bytes' /\ \A i \in 1..Len(delivered') : delivered'[i] = i
    BY <1>6, <2>1, <2>2, <2>3
  <2>5. ~eof'
    BY <1>9 DEF Inbound!Deliver
  <2> QED
    BY <1>1, <1>7, <2>4, <2>5, Zenon DEF Joint
<1>10. CASE Inbound!End
  <2>1. Writer!Closed /\ Len(delivered) = accepted /\ delivered' = delivered
    BY <1>3, <1>10, SameClosed DEF Inbound!End
  <2>2. Writer!Closed' /\ Len(delivered') = accepted'
    BY <1>1, <2>1 DEF Writer!Closed
  <2>3. delivered' \in Seq(Nat) /\ Len(delivered') <= Inbound!Bytes' /\ \A i \in 1..Len(delivered') : delivered'[i] = i
    BY <1>2, <1>6, <2>1
  <2> QED
    BY <1>1, <1>7, <2>2, <2>3, Zenon DEF Joint
<1>11. UNCHANGED <<delivered, eof>> \/ Inbound!Deliver \/ Inbound!End
  BY DEF BothStep, Inbound!Next, Inbound!PeerSends, Inbound!vars
<1> QED
  BY <1>8, <1>9, <1>10, <1>11

LEMMA JointInit ==
  ASSUME Writer!Init, Inbound!Init
  PROVE  Joint
<1>1. accepted = 0 /\ wire = <<>> /\ delivered = <<>> /\ eof = FALSE
  BY DEF Writer!Init, Inbound!Init
<1>2. ~Writer!Closed /\ ~Inbound!Closed
  BY <1>1 DEF Writer!Closed, Inbound!Closed
<1>3. Inbound!Bytes = 0
  BY <1>1, <1>2 DEF Inbound!Bytes
<1>4. eof \in BOOLEAN
  BY <1>1, Zenon
<1> QED
  BY <1>1, <1>2, <1>3, <1>4 DEF Joint, Whole

(* What the composition keeps: the writer's contract, the reader's, and    *)
(* that the reader is never ahead of the writer.                           *)
THEOREM JointInvariant == BothEnds => []Joint
<1>1. Writer!Init /\ Inbound!Init => Joint
  BY JointInit
<1>2. Joint /\ BothStep => Joint'
  BY JointStep
<1> QED
  BY <1>1, <1>2, PTL DEF BothEnds, Writer!Spec, Inbound!Spec, BothStep

(* Bytes acknowledged by poll_write at one end reach the application at    *)
(* the other in order and without a gap, and end of file only after all.   *)
THEOREM EndToEndOrder == BothEnds => []ArrivesWhole
<1>1. Joint => ArrivesWhole
  <2>1. SUFFICES ASSUME Joint PROVE ArrivesWhole
    OBVIOUS
  <2>2. CASE Writer!Closed
    BY <2>1, <2>2, SameClosed DEF Joint, ArrivesWhole, Inbound!Bytes
  <2>3. CASE ~Writer!Closed
    BY <2>1, <2>3, SameClosed DEF Joint, ArrivesWhole, Inbound!Bytes
  <2> QED
    BY <2>2, <2>3
<1> QED
  BY <1>1, JointInvariant, PTL

(* Nothing is acknowledged to the writer once the reader has been told     *)
(* that the stream is over.                                                *)
THEOREM NothingBehindEof == BothEnds => EndIsFinal
<1>1. Joint /\ BothStep => [eof => UNCHANGED <<accepted, delivered, eof>>]_<<accepted, wire, delivered, eof>>
  <2>1. SUFFICES ASSUME Joint, BothStep, eof PROVE UNCHANGED <<accepted, delivered, eof>>
    OBVIOUS
  <2>2. Writer!Closed /\ Inbound!Closed
    BY <2>1, SameClosed DEF Joint
  <2>3. accepted' = accepted
    BY <2>1, <2>2, WriterStep DEF BothStep
  <2>4. delivered' = delivered
    BY <2>1, <2>2 DEF BothStep, Inbound!Next, Inbound!PeerSends, Inbound!Deliver, Inbound!End, Inbound!vars
  <2>5. eof' = eof
    <3>1. eof' = TRUE \/ eof' = eof
      BY <2>1, <2>2, Zenon DEF BothStep, Inbound!Next, Inbound!PeerSends, Inbound!Deliver, Inbound!End, Inbound!vars
    <3> QED
      BY <2>1, <3>1, Zenon DEF Joint
  <2> QED
    BY <2>3, <2>4, <2>5
<1> QED
  BY <1>1, JointInvariant, PTL DEF BothEnds, Writer!Spec, Inbound!Spec, BothStep, EndIsFinal

\* A writer that holds nothing back keeps the contract for any MaxChunk.
LEMMA HoldsNothingBack == IInv /\ [Outbound!Next]_(Outbound!vars) => [Writer!Next]_(Writer!vars)
<1> SUFFICES ASSUME IInv, Outbound!Next PROVE Writer!Next
  BY Zenon DEF Outbound!vars, Writer!vars
<1>1. CASE Outbound!Accept
  <2>1. accepted \in Nat /\ accepted' \in (accepted + 1)..(accepted + 0)
    BY <1>1 DEF Outbound!Accept, IInv, Types
  <2> QED
    BY <2>1
<1>2. CASE Outbound!Send
  BY <1>2, Zenon DEF Writer!Next, Outbound!Send, Writer!Send, Outbound!Closed, Writer!Closed, Outbound!Positions,
     Writer!Positions
<1>3. CASE Outbound!AcceptAndSend
  BY <1>3, Zenon DEF Writer!Next, Outbound!AcceptAndSend, Writer!AcceptAndSend, Outbound!Closed, Writer!Closed,
     Outbound!Positions, Writer!Positions
<1>4. CASE Outbound!Close
  BY <1>4, Zenon DEF Writer!Next, Outbound!Close, Writer!Close, Outbound!Closed, Writer!Closed
<1> QED
  BY <1>1, <1>2, <1>3, <1>4 DEF Outbound!Next

(* With a stream on kTLS at the end that writes, and any reader that keeps *)
(* its contract at the other, every byte poll_write acknowledged arrives   *)
(* in order, and end of file only behind all of them, whatever is          *)
(* cancelled, cut short or reset.                                          *)
THEOREM KtlsEndToEnd == Spec /\ Inbound!Spec => []ArrivesWhole
<1>1. Outbound!Init => Writer!Init
  BY Zenon DEF Outbound!Init, Writer!Init
<1>2. Spec => Writer!Spec
  BY <1>1, Invariant, ImplementsOutbound, HoldsNothingBack, PTL DEF RefinesOutbound, Outbound!Spec, Writer!Spec
<1> QED
  BY <1>2, EndToEndOrder, PTL DEF BothEnds

=============================================================================
