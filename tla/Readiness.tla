----------------------------- MODULE Readiness -----------------------------
(***************************************************************************)
(* tokio's view of one socket, as the code uses it through try_io and      *)
(* poll_*_ready from a single task: per direction a cached readiness bit,  *)
(* the waker kept by the last poll, and the epoll edge that the I/O driver *)
(* turns into a set bit and a wakeup, in two steps.                        *)
(***************************************************************************)
CONSTANT Dir    \* the directions in use, of {"read", "write"}

VARIABLES
  ready,        \* the cached bit
  fresh,        \* the bit has been set since try_io last looked at it
  armed,        \* tokio holds the task's waker
  edge,         \* an epoll edge the driver has not yet seen
  waking,       \* the driver has set the bit and has yet to wake
  driver        \* "up" or "down"

tokioVars == <<ready, fresh, armed, edge, waking, driver>>

\* The bits, and the edges not yet seen, are what was there before.
TokioInit ==
  /\ ready \in [Dir -> BOOLEAN] /\ fresh = [d \in Dir |-> FALSE]
  /\ armed = [d \in Dir |-> FALSE] /\ edge \in [Dir -> BOOLEAN]
  /\ waking = [d \in Dir |-> FALSE] /\ driver = "up"

TokioOK ==
  /\ ready \in [Dir -> BOOLEAN] /\ fresh \in [Dir -> BOOLEAN] /\ armed \in [Dir -> BOOLEAN]
  /\ edge \in [Dir -> BOOLEAN] /\ waking \in [Dir -> BOOLEAN] /\ driver \in {"up", "down"}

\* try_io reads the bit before it runs its closure.
Look(d) ==
  /\ fresh' = [fresh EXCEPT ![d] = FALSE]
  /\ UNCHANGED <<ready, armed, edge, waking, driver>>

\* Mutant: the bit is cleared whatever happened since.
bit_after_clear_off(d) == FALSE

\* A bit set since Look is not cleared.
bit_after_clear(d) == fresh[d]

Clear(d) ==
  /\ ready' = [ready EXCEPT ![d] = bit_after_clear(d)]
  /\ UNCHANGED <<fresh, armed, edge, waking, driver>>

Arm(d) ==
  /\ armed' = [armed EXCEPT ![d] = TRUE]
  /\ UNCHANGED <<ready, fresh, edge, waking, driver>>

Edge(D) ==
  /\ edge' = [d \in Dir |-> edge[d] \/ d \in D]
  /\ UNCHANGED <<ready, fresh, armed, waking, driver>>

Set(d) ==
  /\ driver = "up" /\ edge[d] /\ ~waking[d]
  /\ edge' = [edge EXCEPT ![d] = FALSE] /\ ready' = [ready EXCEPT ![d] = TRUE]
  /\ fresh' = [fresh EXCEPT ![d] = TRUE] /\ waking' = [waking EXCEPT ![d] = TRUE]
  /\ UNCHANGED <<armed, driver>>

\* The waker kept for d is used up.
Wake(d) ==
  /\ waking[d]
  /\ waking' = [waking EXCEPT ![d] = FALSE] /\ armed' = [armed EXCEPT ![d] = FALSE]
  /\ UNCHANGED <<ready, fresh, edge, driver>>

\* The runtime shuts its driver down: every waiter is woken, waits fail.
Down ==
  /\ driver = "up" /\ driver' = "down"
  /\ armed' = [d \in Dir |-> FALSE]
  /\ UNCHANGED <<ready, fresh, edge, waking>>

=============================================================================
