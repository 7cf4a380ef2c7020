--------------------------- MODULE RequestService ---------------------------
(***************************************************************************)
(* What the Go web backend promises the goroutines that use it: every      *)
(* operation is applied to the backend state in one atomic step that lies  *)
(* between its call and its reply, it is applied at most once, and once a  *)
(* Close has returned nothing is applied any more.                         *)
(*                                                                         *)
(* SameSingleThread implements this module.                                *)
(***************************************************************************)
EXTENDS Sequences

CONSTANTS Tickets,  \* the calls of an operation of the backend
          Closers   \* the calls of Close

VARIABLES phase,    \* phase[t]: where call t is
          log,      \* the calls applied so far, in order
          stopped,  \* no call is applied any more
          closing   \* closing[k]: where Close call k is

vars == <<phase, log, stopped, closing>>

Init ==
  /\ phase = [t \in Tickets |-> "new"]
  /\ log = << >>
  /\ stopped = FALSE
  /\ closing = [k \in Closers |-> "new"]

Invoke(t) ==
  /\ phase[t] = "new"
  /\ phase' = [phase EXCEPT ![t] = "pending"]
  /\ UNCHANGED <<log, stopped, closing>>

Apply(t) ==
  /\ ~stopped
  /\ phase[t] = "pending"
  /\ phase' = [phase EXCEPT ![t] = "applied"]
  /\ log' = Append(log, t)
  /\ UNCHANGED <<stopped, closing>>

Reply(t) ==
  /\ phase[t] = "applied"
  /\ phase' = [phase EXCEPT ![t] = "replied"]
  /\ UNCHANGED <<log, stopped, closing>>

RequestClose(k) ==
  /\ closing[k] = "new"
  /\ closing' = [closing EXCEPT ![k] = "pending"]
  /\ UNCHANGED <<phase, log, stopped>>

Stop ==
  /\ ~stopped
  /\ stopped' = TRUE
  /\ UNCHANGED <<phase, log, closing>>

FinishClose(k) ==
  /\ stopped
  /\ closing[k] = "pending"
  /\ closing' = [closing EXCEPT ![k] = "closed"]
  /\ UNCHANGED <<phase, log, stopped>>

Next ==
  \/ \E t \in Tickets : Invoke(t) \/ Apply(t) \/ Reply(t)
  \/ \E k \in Closers : RequestClose(k) \/ FinishClose(k)
  \/ Stop

Spec == Init /\ [][Next]_vars
=============================================================================
