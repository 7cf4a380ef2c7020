----------------------- MODULE SameSingleThreadProofs -----------------------
(***************************************************************************)
(* Proofs about SameSingleThread for any set of calls, of calls of Close   *)
(* and of closure results: its invariants, the two action properties and   *)
(* that it implements RequestService.                                      *)
(***************************************************************************)
EXTENDS SameSingleThread, TLAPS

(* The goroutine holds a ticket exactly while it runs a closure, and then   *)
(* the ticket's caller is blocked on the open done channel.                 *)
HandInv ==
  /\ sst \in {"calling", "called"} <=> hand # NoTicket
  /\ sst \in {"calling", "called"} => call[hand] = "waiting" /\ hand \notin done
  /\ sst = "calling" => view = gbe /\ hand \notin Applied
  /\ sst = "called" => hand \in Applied

(* The tickets that were applied, answered and returned follow the order of *)
(* the steps of a call.                                                     *)
TicketInv ==
  /\ Applied \subseteq done \cup {hand}
  /\ \A t \in Tickets : call[t] \in {"idle", "sending"} => t \notin done \cup Applied
  /\ \A t \in Tickets : call[t] = "returned" => t \in done

(* The halt protocol: Done is closed by the last step of the goroutine, and *)
(* an answered error has taken it out of its loop.                          *)
HaltInv ==
  /\ haltDone <=> sst = "exited"
  /\ \A k \in Closers : closer[k] = "returned" => haltDone
  /\ (\E t \in done : err[t] = "error") => sst \in {"returning", "stopping", "exited"}

IInv == /\ TypeOK /\ HandInv /\ TicketInv /\ HaltInv
        /\ TakenIsServed /\ ReplyIsOwn /\ NoLostUpdate

-----------------------------------------------------------------------------
(* What Append adds to the elements of a sequence, and when it keeps them    *)
(* distinct.                                                                 *)
LEMMA AppendElements ==
  ASSUME NEW S, NEW s \in Seq(S), NEW e \in S
  PROVE  {Append(s, e)[i] : i \in 1..Len(Append(s, e))} = {s[i] : i \in 1..Len(s)} \cup {e}
<1>1. /\ Len(Append(s, e)) = Len(s) + 1
      /\ \A i \in 1..Len(s) : Append(s, e)[i] = s[i]
      /\ Append(s, e)[Len(s) + 1] = e
  OBVIOUS
<1>2. 1..(Len(s) + 1) = 1..Len(s) \cup {Len(s) + 1}
  <2>1. Len(s) \in Nat
    OBVIOUS
  <2>2. QED
    BY <2>1
<1>3. QED
  BY <1>1, <1>2

LEMMA AppendDistinct ==
  ASSUME NEW S, NEW s \in Seq(S), NEW e \in S,
         \A i, j \in 1..Len(s) : s[i] = s[j] => i = j,
         e \notin {s[i] : i \in 1..Len(s)}
  PROVE  \A i, j \in 1..Len(Append(s, e)) : Append(s, e)[i] = Append(s, e)[j] => i = j
<1>1. /\ Len(Append(s, e)) = Len(s) + 1
      /\ \A i \in 1..Len(s) : Append(s, e)[i] = s[i]
      /\ Append(s, e)[Len(s) + 1] = e
  OBVIOUS
<1>2. SUFFICES ASSUME NEW i \in 1..(Len(s) + 1), NEW j \in 1..(Len(s) + 1),
                      Append(s, e)[i] = Append(s, e)[j]
               PROVE  i = j
  BY <1>1
<1>3. CASE i \in 1..Len(s) /\ j \in 1..Len(s)
  BY <1>1, <1>2, <1>3
<1>4. CASE i = Len(s) + 1 /\ j \in 1..Len(s)
  BY <1>1, <1>2, <1>4
<1>5. CASE i \in 1..Len(s) /\ j = Len(s) + 1
  BY <1>1, <1>2, <1>5
<1>6. CASE i = Len(s) + 1 /\ j = Len(s) + 1
  BY <1>6
<1>7. QED
  <2>1. Len(s) \in Nat
    OBVIOUS
  <2>2. QED
    BY <2>1, <1>3, <1>4, <1>5, <1>6

-----------------------------------------------------------------------------
LEMMA InitInv == Init => IInv
<1> SUFFICES ASSUME Init PROVE IInv
  OBVIOUS
<1>1. Applied = {}
  BY DEF Init, Applied
<1>2. TypeOK
  <2>1. << >> \in Seq(Tickets)
    OBVIOUS
  <2>2. QED
    BY <2>1 DEF Init, TypeOK, CallStates, SstStates, CloserStates
<1>3. HandInv /\ TicketInv /\ HaltInv
  BY <1>1 DEF Init, HandInv, TicketInv, HaltInv
<1>4. TakenIsServed /\ ReplyIsOwn /\ NoLostUpdate
  BY <1>1 DEF Init, TakenIsServed, ReplyIsOwn, NoLostUpdate
<1>5. QED
  BY <1>2, <1>3, <1>4 DEF IInv

(* The step that changes the backend state: it adds the ticket in hand. *)
LEMMA FinishClosureApplies ==
  ASSUME IInv, FinishClosure
  PROVE  /\ hand \in Tickets
         /\ gbe' = Append(gbe, hand)
         /\ gbe' \in Seq(Tickets)
         /\ Applied' = Applied \cup {hand}
         /\ \A i, j \in 1..Len(gbe') : gbe'[i] = gbe'[j] => i = j
<1>1. hand \in Tickets
  BY DEF IInv, TypeOK, HandInv, FinishClosure
<1>2. gbe' = Append(gbe, hand) /\ gbe \in Seq(Tickets) /\ hand \notin Applied
  BY DEF IInv, TypeOK, HandInv, FinishClosure
<1>3. Applied' = Applied \cup {hand}
  BY <1>1, <1>2, AppendElements DEF Applied
<1>4. \A i, j \in 1..Len(gbe) : gbe[i] = gbe[j] => i = j
  BY DEF IInv, NoLostUpdate
<1>5. \A i, j \in 1..Len(gbe') : gbe'[i] = gbe'[j] => i = j
  BY <1>1, <1>2, <1>4, AppendDistinct DEF Applied
<1>6. QED
  BY <1>1, <1>2, <1>3, <1>5

LEMMA NextInv == IInv /\ [Next]_vars => IInv'
<1> SUFFICES ASSUME IInv, [Next]_vars PROVE IInv'
  OBVIOUS
<1> USE TicketAssumption, ResultAssumption
<1>1. ASSUME NEW t \in Tickets, Do(t) PROVE IInv'
  <2>1. Applied' = Applied
    BY <1>1 DEF Do, sstVars, Applied
  <2>2. TypeOK'
    BY <1>1 DEF IInv, TypeOK, Do, CallStates, callVars, tktVars, sstVars, haltVars
  <2>3. HandInv' /\ TicketInv' /\ HaltInv'
    BY <1>1, <2>1 DEF IInv, TypeOK, HandInv, TicketInv, HaltInv, TakenIsServed, Do,
                      CallStates, tktVars, sstVars, haltVars
  <2>4. TakenIsServed' /\ ReplyIsOwn' /\ NoLostUpdate'
    BY <1>1, <2>1 DEF IInv, TypeOK, TakenIsServed, ReplyIsOwn, NoLostUpdate, Do,
                      tktVars, sstVars
  <2>5. QED
    BY <2>2, <2>3, <2>4 DEF IInv
<1>2. ASSUME NEW t \in Tickets, Return(t) PROVE IInv'
  <2>1. Applied' = Applied
    BY <1>2 DEF Return, sstVars, Applied
  <2>2. TypeOK'
    BY <1>2 DEF IInv, TypeOK, Return, CallStates, tktVars, sstVars, haltVars
  <2>3. HandInv' /\ TicketInv' /\ HaltInv'
    BY <1>2, <2>1 DEF IInv, TypeOK, HandInv, TicketInv, HaltInv, Return,
                      tktVars, sstVars, haltVars
  <2>4. TakenIsServed' /\ ReplyIsOwn' /\ NoLostUpdate'
    BY <1>2, <2>1 DEF IInv, TypeOK, TakenIsServed, ReplyIsOwn, NoLostUpdate, Return,
                      tktVars, sstVars
  <2>5. QED
    BY <2>2, <2>3, <2>4 DEF IInv
<1>3. ASSUME NEW t \in Tickets, TakeTicket(t) PROVE IInv'
  <2>1. Applied' = Applied
    BY <1>3 DEF TakeTicket, Applied
  <2>2. TypeOK'
    BY <1>3 DEF IInv, TypeOK, TakeTicket, CallStates, SstStates, tktVars, haltVars
  <2>3. t \notin done \cup Applied
    BY <1>3 DEF IInv, TicketInv, TakeTicket
  <2>4. Applied \subseteq done
    <3>1. NoTicket \notin Applied
      BY DEF IInv, TypeOK, Applied
    <3>2. QED
      BY <1>3, <3>1 DEF IInv, HandInv, TicketInv, TakeTicket
  <2>5. HandInv' /\ HaltInv'
    BY <1>3, <2>1, <2>3 DEF IInv, TypeOK, HandInv, HaltInv, TakeTicket, tktVars, haltVars
  <2>6. TicketInv'
    BY <1>3, <2>1, <2>3, <2>4 DEF IInv, TypeOK, TicketInv, TakeTicket, tktVars
  <2>7. TakenIsServed' /\ ReplyIsOwn' /\ NoLostUpdate'
    BY <1>3, <2>1 DEF IInv, TypeOK, HandInv, TakenIsServed, ReplyIsOwn, NoLostUpdate,
                      TakeTicket, tktVars
  <2>8. QED
    BY <2>2, <2>5, <2>6, <2>7 DEF IInv
<1>4. CASE FinishClosure
  <2>1. /\ hand \in Tickets
        /\ gbe' \in Seq(Tickets)
        /\ Applied' = Applied \cup {hand}
        /\ \A i, j \in 1..Len(gbe') : gbe'[i] = gbe'[j] => i = j
    BY <1>4, FinishClosureApplies
  <2>2. /\ call[hand] = "waiting" /\ hand \notin done
        /\ \A t \in Tickets \ {hand} : err'[t] = err[t]
    BY <1>4, <2>1 DEF IInv, TypeOK, HandInv, FinishClosure
  <2>3. TypeOK'
    BY <1>4, <2>1 DEF IInv, TypeOK, FinishClosure, SstStates, callVars, haltVars
  <2>4. HandInv' /\ TicketInv' /\ HaltInv'
    BY <1>4, <2>1, <2>2 DEF IInv, TypeOK, HandInv, TicketInv, HaltInv, FinishClosure,
                            callVars, haltVars
  <2>5. TakenIsServed' /\ ReplyIsOwn' /\ NoLostUpdate'
    BY <1>4, <2>1, <2>2 DEF IInv, TypeOK, TakenIsServed, ReplyIsOwn, NoLostUpdate,
                            FinishClosure, callVars
  <2>6. QED
    BY <2>3, <2>4, <2>5 DEF IInv
<1>5. CASE Answer
  <2>1. Applied' = Applied
    BY <1>5 DEF Answer, Applied
  <2>2. hand \in Tickets /\ hand \in Applied /\ call[hand] = "waiting"
    BY <1>5 DEF IInv, TypeOK, HandInv, Answer
  <2>3. TypeOK'
    BY <1>5, <2>2 DEF IInv, TypeOK, Answer, SstStates, callVars, haltVars
  <2>4. HandInv' /\ TicketInv'
    BY <1>5, <2>1, <2>2 DEF IInv, TypeOK, HandInv, TicketInv, Answer, callVars, haltVars
  <2>5. HaltInv'
    BY <1>5, <2>2 DEF IInv, TypeOK, HaltInv, Answer, callVars, haltVars
  <2>6. TakenIsServed' /\ ReplyIsOwn' /\ NoLostUpdate'
    BY <1>5, <2>1, <2>2 DEF IInv, TypeOK, TakenIsServed, ReplyIsOwn, NoLostUpdate,
                            Answer, callVars
  <2>7. QED
    BY <2>3, <2>4, <2>5, <2>6 DEF IInv
<1>6. CASE TakeStop \/ DeferReqStop \/ DeferDone
  <2>1. Applied' = Applied
    BY <1>6 DEF TakeStop, DeferReqStop, DeferDone, Applied
  <2>2. TypeOK'
    BY <1>6 DEF IInv, TypeOK, TakeStop, DeferReqStop, DeferDone, SstStates,
                callVars, tktVars, haltVars
  <2>3. HandInv' /\ TicketInv' /\ HaltInv'
    BY <1>6, <2>1 DEF IInv, TypeOK, HandInv, TicketInv, HaltInv, TakeStop, DeferReqStop,
                      DeferDone, callVars, tktVars, haltVars
  <2>4. TakenIsServed' /\ ReplyIsOwn' /\ NoLostUpdate'
    BY <1>6, <2>1 DEF IInv, TypeOK, TakenIsServed, ReplyIsOwn, NoLostUpdate, TakeStop,
                      DeferReqStop, DeferDone, callVars, tktVars
  <2>5. QED
    BY <2>2, <2>3, <2>4 DEF IInv
<1>7. ASSUME NEW k \in Closers, Close(k) \/ CloseReturn(k) PROVE IInv'
  <2>1. Applied' = Applied
    BY <1>7 DEF Close, CloseReturn, sstVars, Applied
  <2>2. TypeOK'
    BY <1>7 DEF IInv, TypeOK, Close, CloseReturn, CloserStates, callVars, tktVars,
                sstVars, haltVars
  <2>3. HandInv' /\ TicketInv' /\ HaltInv'
    BY <1>7, <2>1 DEF IInv, TypeOK, HandInv, TicketInv, HaltInv, Close, CloseReturn,
                      callVars, tktVars, sstVars, haltVars
  <2>4. TakenIsServed' /\ ReplyIsOwn' /\ NoLostUpdate'
    BY <1>7, <2>1 DEF IInv, TakenIsServed, ReplyIsOwn, NoLostUpdate, Close, CloseReturn,
                      callVars, tktVars, sstVars
  <2>5. QED
    BY <2>2, <2>3, <2>4 DEF IInv
<1>8. CASE UNCHANGED vars
  <2>1. Applied' = Applied
    BY <1>8 DEF vars, Applied
  <2>2. QED
    BY <1>8, <2>1 DEF vars, IInv, TypeOK, HandInv, TicketInv, HaltInv, TakenIsServed,
                      ReplyIsOwn, NoLostUpdate
<1>9. QED
  BY <1>1, <1>2, <1>3, <1>4, <1>5, <1>6, <1>7, <1>8 DEF Next, Worker

(* The goroutine keeps its inductive invariant, for any number of callers.   *)
THEOREM Invariant == Spec => []IInv
<1>1. QED
  BY InitInv, NextInv, PTL DEF Spec

(* Every variable of the goroutine and of its callers has its type.          *)
THEOREM TypeCorrect == Spec => []TypeOK
<1>1. IInv => TypeOK
  BY DEF IInv
<1>2. QED
  BY <1>1, Invariant, PTL

(* Tickets taken from doChan are served, and no closure's update is lost or  *)
(* repeated.                                                                 *)
THEOREM TicketsServed == Spec => [](TakenIsServed /\ NoLostUpdate)
<1>1. IInv => TakenIsServed /\ NoLostUpdate
  BY DEF IInv
<1>2. QED
  BY <1>1, Invariant, PTL

(* do returns the error of its own closure, after all of its effect.         *)
THEOREM RepliesAreOwn == Spec => []ReplyIsOwn
<1>1. IInv => ReplyIsOwn
  BY DEF IInv
<1>2. QED
  BY <1>1, Invariant, PTL

(* After a Close has returned, no step changes the backend state or takes a  *)
(* ticket.                                                                   *)
THEOREM QuietAfterCloseHolds == Spec => QuietAfterClose
<1>1. ASSUME IInv, [Next]_vars, \E k \in Closers : closer[k] = "returned"
      PROVE  gbe' = gbe /\ hand' = NoTicket
  <2>1. sst = "exited" /\ hand = NoTicket
    BY <1>1 DEF IInv, HaltInv, HandInv
  <2>2. QED
    BY <1>1, <2>1 DEF Next, Worker, vars, Do, Return, TakeTicket, FinishClosure, Answer,
                      TakeStop, DeferReqStop, DeferDone, Close, CloseReturn, sstVars
<1>2. QED
  BY <1>1, Invariant, PTL DEF Spec, QuietAfterClose

(* A closure that returns an error is the last one the goroutine runs.       *)
THEOREM ErrorIsLastHolds == Spec => ErrorIsLast
<1>1. ASSUME IInv, [Next]_vars, \E t \in done : err[t] = "error"
      PROVE  gbe' = gbe
  <2>1. sst \in {"returning", "stopping", "exited"}
    BY <1>1 DEF IInv, HaltInv
  <2>2. QED
    BY <1>1, <2>1 DEF Next, Worker, vars, Do, Return, TakeTicket, FinishClosure, Answer,
                      TakeStop, DeferReqStop, DeferDone, Close, CloseReturn, sstVars
<1>2. QED
  BY <1>1, Invariant, PTL DEF Spec, ErrorIsLast

-----------------------------------------------------------------------------
(* Refinement.  The abstract phases as functions, so that a step's effect on *)
(* them is a function update.                                                *)
PhaseMap == [t \in Tickets |-> Phase(t)]
CloseMap == [k \in Closers |-> ClosePhase(k)]

LEMMA PhasesStay ==
  ASSUME UNCHANGED <<call, gbe>>
  PROVE  PhaseMap' = PhaseMap
BY DEF PhaseMap, Phase, Applied

LEMMA ClosesStay ==
  ASSUME UNCHANGED closer
  PROVE  CloseMap' = CloseMap
BY DEF CloseMap, ClosePhase

(* One call changes its phase, the others keep theirs. *)
LEMMA OnePhaseMoves ==
  ASSUME NEW t \in Tickets, NEW p, Phase(t)' = p,
         \A u \in Tickets \ {t} : Phase(u)' = Phase(u)
  PROVE  PhaseMap' = [PhaseMap EXCEPT ![t] = p]
BY DEF PhaseMap

LEMMA OneCloseMoves ==
  ASSUME NEW k \in Closers, NEW p, ClosePhase(k)' = p,
         \A j \in Closers \ {k} : ClosePhase(j)' = ClosePhase(j)
  PROVE  CloseMap' = [CloseMap EXCEPT ![k] = p]
BY DEF CloseMap

LEMMA ServiceInit == Init => Service!Init
<1> SUFFICES ASSUME Init PROVE Service!Init
  OBVIOUS
<1>1. \A t \in Tickets : Phase(t) = "new"
  BY DEF Init, Phase
<1>2. \A k \in Closers : ClosePhase(k) = "new"
  BY DEF Init, ClosePhase
<1>3. QED
  BY <1>1, <1>2 DEF Init, Service!Init

LEMMA ServiceNext == IInv /\ [Next]_vars => [Service!Next]_(Service!vars)
<1> SUFFICES ASSUME IInv, [Next]_vars PROVE [Service!Next]_(Service!vars)
  OBVIOUS
<1> USE TicketAssumption
<1>1. ASSUME NEW t \in Tickets, Do(t) PROVE Service!Invoke(t)
  <2>1. Applied' = Applied /\ UNCHANGED <<gbe, haltDone, closer>>
    BY <1>1 DEF Do, sstVars, haltVars, Applied
  <2>2. Phase(t) = "new" /\ Phase(t)' = "pending"
    BY <1>1, <2>1 DEF Do, Phase, IInv, TypeOK, TicketInv
  <2>3. \A u \in Tickets \ {t} : Phase(u)' = Phase(u)
    BY <1>1, <2>1 DEF Do, Phase, IInv, TypeOK
  <2>4. PhaseMap' = [PhaseMap EXCEPT ![t] = "pending"]
    BY <2>2, <2>3, OnePhaseMoves
  <2>5. QED
    BY <2>1, <2>2, <2>4, ClosesStay DEF Service!Invoke, PhaseMap, CloseMap
<1>2. ASSUME NEW t \in Tickets, Return(t) PROVE Service!Reply(t)
  <2>1. Applied' = Applied /\ UNCHANGED <<gbe, haltDone, closer>>
    BY <1>2 DEF Return, sstVars, haltVars, Applied
  <2>2. Phase(t) = "applied" /\ Phase(t)' = "replied"
    BY <1>2, <2>1 DEF Return, Phase, IInv, TypeOK, NoLostUpdate
  <2>3. \A u \in Tickets \ {t} : Phase(u)' = Phase(u)
    BY <1>2, <2>1 DEF Return, Phase, IInv, TypeOK
  <2>4. PhaseMap' = [PhaseMap EXCEPT ![t] = "replied"]
    BY <2>2, <2>3, OnePhaseMoves
  <2>5. QED
    BY <2>1, <2>2, <2>4, ClosesStay DEF Service!Reply, PhaseMap, CloseMap
<1>3. ASSUME NEW t \in Tickets, TakeTicket(t) PROVE UNCHANGED Service!vars
  <2>1. Applied' = Applied /\ UNCHANGED <<gbe, haltDone, closer>>
    BY <1>3 DEF TakeTicket, haltVars, Applied
  <2>2. \A u \in Tickets : Phase(u)' = Phase(u)
    BY <1>3, <2>1 DEF TakeTicket, Phase, IInv, TypeOK
  <2>3. PhaseMap' = PhaseMap
    BY <2>2 DEF PhaseMap
  <2>4. QED
    BY <2>1, <2>3, ClosesStay DEF Service!vars, PhaseMap, CloseMap
<1>4. ASSUME NEW t \in Tickets, FinishClosure, t = hand PROVE Service!Apply(t)
  <2>1. gbe' = Append(gbe, t) /\ Applied' = Applied \cup {t}
    BY <1>4, FinishClosureApplies
  <2>2. UNCHANGED <<call, haltDone, closer>> /\ ~haltDone
    BY <1>4 DEF FinishClosure, callVars, haltVars, IInv, HaltInv
  <2>3. call[t] = "waiting" /\ t \notin Applied
    BY <1>4 DEF FinishClosure, IInv, HandInv
  <2>4. Phase(t) = "pending" /\ Phase(t)' = "applied"
    BY <2>1, <2>2, <2>3 DEF Phase
  <2>5. \A u \in Tickets \ {t} : Phase(u)' = Phase(u)
    BY <2>1, <2>2 DEF Phase
  <2>6. PhaseMap' = [PhaseMap EXCEPT ![t] = "applied"]
    BY <2>4, <2>5, OnePhaseMoves
  <2>7. QED
    BY <2>1, <2>2, <2>4, <2>6, ClosesStay DEF Service!Apply, PhaseMap, CloseMap
<1>5. ASSUME Answer \/ TakeStop \/ DeferReqStop PROVE UNCHANGED Service!vars
  <2>1. UNCHANGED <<call, gbe, haltDone, closer>>
    BY <1>5 DEF Answer, TakeStop, DeferReqStop, callVars, haltVars
  <2>2. QED
    BY <2>1, PhasesStay, ClosesStay DEF Service!vars, PhaseMap, CloseMap
<1>6. ASSUME DeferDone PROVE Service!Stop
  <2>1. UNCHANGED <<call, gbe, closer>> /\ ~haltDone /\ haltDone' = TRUE
    BY <1>6 DEF DeferDone, callVars, IInv, HaltInv
  <2>2. QED
    BY <2>1, PhasesStay, ClosesStay DEF Service!Stop, PhaseMap, CloseMap
<1>7. ASSUME NEW k \in Closers, Close(k) PROVE Service!RequestClose(k)
  <2>1. UNCHANGED <<call, gbe, haltDone>>
    BY <1>7 DEF Close, callVars, sstVars
  <2>2. ClosePhase(k) = "new" /\ ClosePhase(k)' = "pending"
    BY <1>7 DEF Close, ClosePhase, IInv, TypeOK
  <2>3. \A j \in Closers \ {k} : ClosePhase(j)' = ClosePhase(j)
    BY <1>7 DEF Close, ClosePhase, IInv, TypeOK
  <2>4. CloseMap' = [CloseMap EXCEPT ![k] = "pending"]
    BY <2>2, <2>3, OneCloseMoves
  <2>5. QED
    BY <2>1, <2>2, <2>4, PhasesStay DEF Service!RequestClose, PhaseMap, CloseMap
<1>8. ASSUME NEW k \in Closers, CloseReturn(k) PROVE Service!FinishClose(k)
  <2>1. UNCHANGED <<call, gbe, haltDone>> /\ haltDone
    BY <1>8 DEF CloseReturn, callVars, sstVars, haltVars
  <2>2. ClosePhase(k) = "pending" /\ ClosePhase(k)' = "closed"
    BY <1>8 DEF CloseReturn, ClosePhase, IInv, TypeOK
  <2>3. \A j \in Closers \ {k} : ClosePhase(j)' = ClosePhase(j)
    BY <1>8 DEF CloseReturn, ClosePhase, IInv, TypeOK
  <2>4. CloseMap' = [CloseMap EXCEPT ![k] = "closed"]
    BY <2>2, <2>3, OneCloseMoves
  <2>5. QED
    BY <2>1, <2>2, <2>4, PhasesStay DEF Service!FinishClose, PhaseMap, CloseMap
<1>9. ASSUME UNCHANGED vars PROVE UNCHANGED Service!vars
  <2>1. UNCHANGED <<call, gbe, haltDone, closer>>
    BY <1>9 DEF vars
  <2>2. QED
    BY <2>1, PhasesStay, ClosesStay DEF Service!vars, PhaseMap, CloseMap
<1>10. ASSUME FinishClosure PROVE hand \in Tickets
  BY <1>10, FinishClosureApplies
<1>11. QED
  BY <1>1, <1>2, <1>3, <1>4, <1>5, <1>6, <1>7, <1>8, <1>9, <1>10
     DEF Next, Worker, Service!Next

(* The goroutine and its callers implement the atomic service: every         *)
(* operation looks as if it were applied in one step between its call and    *)
(* its return, and none is applied after a Close has returned.               *)
THEOREM Implementation == Spec => ImplementsService
<1>1. QED
  BY ServiceInit, ServiceNext, Invariant, PTL DEF Spec, Service!Spec, ImplementsService
=============================================================================
