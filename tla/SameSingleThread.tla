-------------------------- MODULE SameSingleThread --------------------------
(***************************************************************************)
(* The one goroutine, locked to one OS thread, on which the Go web backend *)
(* runs every operation (webui_backend_go.go).  A call of `do' creates a   *)
(* ticket, hands it over on the unbuffered channel doChan and blocks on    *)
(* the ticket's done channel.  Close requests a stop and blocks until the  *)
(* goroutine's deferred function has closed halt.Done.                     *)
(*                                                                         *)
(* A ticket stands for one call of `do', so the goroutines that call and   *)
(* their tickets are the same set.  What a closure does to the backend is  *)
(* the sequence gbe of the closures applied so far; the closure reads it   *)
(* when it starts and writes it when it ends, so two overlapping closures  *)
(* would lose an update.                                                   *)
(***************************************************************************)
EXTENDS Naturals, Sequences, FiniteSets

CONSTANTS Tickets,    \* the calls of do
          Closers,    \* the calls of Close
          FnResults,  \* what a closure may return
          NoTicket

ASSUME TicketAssumption == NoTicket \notin Tickets
ASSUME ResultAssumption == FnResults \subseteq {"nil", "error"} /\ FnResults # {}

VARIABLES call,      \* call[t]: where the goroutine that called do is
          err,       \* err[t]: the ticket's err field
          done,      \* the tickets whose done channel is closed
          got,       \* got[t]: what do returned to its caller
          sst,       \* where the goroutine is in its loop
          hand,      \* the ticket it took from doChan
          view,      \* the backend state its closure read
          gbe,       \* the backend state
          reqStop,   \* halt.ReqStop is closed
          haltDone,  \* halt.Done is closed
          closer     \* closer[k]: where the goroutine that called Close is

callVars == <<call, got>>
tktVars  == <<err, done>>
sstVars  == <<sst, hand, view, gbe>>
haltVars == <<reqStop, haltDone>>
vars == <<call, err, done, got, sst, hand, view, gbe, reqStop, haltDone, closer>>

CallStates   == {"idle", "sending", "waiting", "returned"}
SstStates    == {"select", "calling", "called", "returning", "stopping", "exited"}
CloserStates == {"idle", "waiting", "returned"}

Init ==
  /\ call = [t \in Tickets |-> "idle"]
  /\ err = [t \in Tickets |-> "nil"]
  /\ done = {}
  /\ got = [t \in Tickets |-> "none"]
  /\ sst = "select"
  /\ hand = NoTicket
  /\ view = << >>
  /\ gbe = << >>
  /\ reqStop = FALSE
  /\ haltDone = FALSE
  /\ closer = [k \in Closers |-> "idle"]

-----------------------------------------------------------------------------
(* The callers of do *)

(* tkt := newTkt(f), then blocked on b.sst.doChan <- tkt *)
Do(t) ==
  /\ call[t] = "idle"
  /\ call' = [call EXCEPT ![t] = "sending"]
  /\ UNCHANGED <<got, tktVars, sstVars, haltVars, closer>>

\* Faulty variant of Return: does not wait for the done channel.
ReturnAtOnce(t) ==
  /\ call[t] = "waiting"
  /\ call' = [call EXCEPT ![t] = "returned"]
  /\ got' = [got EXCEPT ![t] = err[t]]
  /\ UNCHANGED <<tktVars, sstVars, haltVars, closer>>

(* <-tkt.done succeeds only once the channel is closed; return tkt.err *)
Return(t) ==
  /\ call[t] = "waiting"
  /\ t \in done
  /\ call' = [call EXCEPT ![t] = "returned"]
  /\ got' = [got EXCEPT ![t] = err[t]]
  /\ UNCHANGED <<tktVars, sstVars, haltVars, closer>>

-----------------------------------------------------------------------------
(* The goroutine started by start *)

\* Faulty variants of TakeTicket: the done channel is closed before the
\* closure has run, and the ticket is not kept.
TakeTicketDoneFirst(t) ==
  /\ sst = "select"
  /\ call[t] = "sending"
  /\ call' = [call EXCEPT ![t] = "waiting"]
  /\ sst' = "calling"
  /\ hand' = t
  /\ view' = gbe
  /\ done' = done \cup {t}
  /\ UNCHANGED <<got, err, gbe, haltVars, closer>>

TakeTicketForgets(t) ==
  /\ sst = "select"
  /\ call[t] = "sending"
  /\ call' = [call EXCEPT ![t] = "waiting"]
  /\ sst' = "calling"
  /\ view' = gbe
  /\ UNCHANGED <<got, tktVars, hand, gbe, haltVars, closer>>

(* case tkt := <-sst.doChan: the rendezvous on the unbuffered channel, and  *)
(* the start of the closure *)
TakeTicket(t) ==
  /\ sst = "select"
  /\ call[t] = "sending"
  /\ call' = [call EXCEPT ![t] = "waiting"]
  /\ sst' = "calling"
  /\ hand' = t
  /\ view' = gbe
  /\ UNCHANGED <<got, tktVars, gbe, haltVars, closer>>

(* tkt.err = tkt.f(sst.gbe): the closure ends and its result is stored *)
FinishClosure ==
  /\ sst = "calling"
  /\ \E r \in FnResults : err' = [err EXCEPT ![hand] = r]
  /\ gbe' = Append(view, hand)
  /\ sst' = "called"
  /\ UNCHANGED <<callVars, done, hand, view, haltVars, closer>>

\* Faulty variants of Answer: an error does not leave the loop, or leaves it
\* before the done channel is closed.
AnswerStaysUp ==
  /\ sst = "called"
  /\ done' = done \cup {hand}
  /\ sst' = "select"
  /\ hand' = NoTicket
  /\ UNCHANGED <<callVars, err, view, gbe, haltVars, closer>>

AnswerOnlySuccess ==
  /\ sst = "called"
  /\ done' = IF err[hand] = "nil" THEN done \cup {hand} ELSE done
  /\ sst' = IF err[hand] = "nil" THEN "select" ELSE "returning"
  /\ hand' = NoTicket
  /\ UNCHANGED <<callVars, err, view, gbe, haltVars, closer>>

(* close(tkt.done), then back to the select, or out of the loop on an error *)
Answer ==
  /\ sst = "called"
  /\ done' = done \cup {hand}
  /\ sst' = IF err[hand] = "nil" THEN "select" ELSE "returning"
  /\ hand' = NoTicket
  /\ UNCHANGED <<callVars, err, view, gbe, haltVars, closer>>

\* Faulty variant of TakeStop: the stop is taken between the closure and its
\* answer.
TakeStopMidTicket ==
  /\ sst \in {"select", "called"}
  /\ reqStop
  /\ sst' = "returning"
  /\ hand' = NoTicket
  /\ UNCHANGED <<callVars, tktVars, view, gbe, haltVars, closer>>

(* case <-sst.halt.ReqStop.Chan: return *)
TakeStop ==
  /\ sst = "select"
  /\ reqStop
  /\ sst' = "returning"
  /\ UNCHANGED <<callVars, tktVars, hand, view, gbe, haltVars, closer>>

(* the deferred sst.halt.ReqStop.Close() ... *)
DeferReqStop ==
  /\ sst = "returning"
  /\ sst' = "stopping"
  /\ reqStop' = TRUE
  /\ UNCHANGED <<callVars, tktVars, hand, view, gbe, haltDone, closer>>

\* Faulty variant of DeferDone: Done is never closed.
DeferDoneMissing ==
  /\ sst = "stopping"
  /\ sst' = "exited"
  /\ UNCHANGED <<callVars, tktVars, hand, view, gbe, haltVars, closer>>

(* ... and sst.halt.Done.Close() *)
DeferDone ==
  /\ sst = "stopping"
  /\ sst' = "exited"
  /\ haltDone' = TRUE
  /\ UNCHANGED <<callVars, tktVars, hand, view, gbe, reqStop, closer>>

-----------------------------------------------------------------------------
(* The callers of Close *)

(* b.halt.ReqStop.Close(), idempotent, then blocked on <-b.halt.Done.Chan *)
Close(k) ==
  /\ closer[k] = "idle"
  /\ closer' = [closer EXCEPT ![k] = "waiting"]
  /\ reqStop' = TRUE
  /\ UNCHANGED <<callVars, tktVars, sstVars, haltDone>>

\* Faulty variant of CloseReturn: Close does not wait for Done.
CloseReturnAtOnce(k) ==
  /\ closer[k] = "waiting"
  /\ closer' = [closer EXCEPT ![k] = "returned"]
  /\ UNCHANGED <<callVars, tktVars, sstVars, haltVars>>

CloseReturn(k) ==
  /\ closer[k] = "waiting"
  /\ haltDone
  /\ closer' = [closer EXCEPT ![k] = "returned"]
  /\ UNCHANGED <<callVars, tktVars, sstVars, haltVars>>

-----------------------------------------------------------------------------
Worker == (\E t \in Tickets : TakeTicket(t)) \/ FinishClosure \/ Answer
          \/ TakeStop \/ DeferReqStop \/ DeferDone

Next ==
  \/ \E t \in Tickets : Do(t) \/ Return(t)
  \/ \E k \in Closers : Close(k) \/ CloseReturn(k)
  \/ Worker

(* Goroutines keep running: weak fairness of each step that is not blocked,  *)
(* but for the end of a closure.  A closure runs an operation of a session,  *)
(* whose queries to Z3 need not end, so nothing makes FinishClosure happen.  *)
(* A select with several ready cases picks one pseudo-randomly and the       *)
(* senders blocked on a channel are served in turn, so a case that is ready  *)
(* again and again is picked: strong fairness of the stop and of each send.  *)
Fairness ==
  /\ \A t \in Tickets : WF_vars(Return(t)) /\ SF_vars(TakeTicket(t))
  /\ \A k \in Closers : WF_vars(CloseReturn(k))
  /\ WF_vars(Answer)
  /\ SF_vars(TakeStop)
  /\ WF_vars(DeferReqStop) /\ WF_vars(DeferDone)

Spec == Init /\ [][Next]_vars
FairSpec == Spec /\ Fairness

-----------------------------------------------------------------------------
Applied == {gbe[i] : i \in 1..Len(gbe)}

(* Every variable has its type. *)
TypeOK ==
  /\ call \in [Tickets -> CallStates]
  /\ err \in [Tickets -> {"nil", "error"}]
  /\ done \subseteq Tickets
  /\ got \in [Tickets -> {"none", "nil", "error"}]
  /\ sst \in SstStates
  /\ hand \in Tickets \cup {NoTicket}
  /\ view \in Seq(Tickets)
  /\ gbe \in Seq(Tickets)
  /\ reqStop \in BOOLEAN
  /\ haltDone \in BOOLEAN
  /\ closer \in [Closers -> CloserStates]

(* A ticket that left doChan is in the hands of the goroutine until its done *)
(* channel is closed: the select has no path that drops a ticket, whatever   *)
(* Close does in the meantime.                                               *)
TakenIsServed ==
  \A t \in Tickets :
    call[t] = "waiting" /\ t \notin done => hand = t /\ sst \in {"calling", "called"}

(* do returns the result of its own closure, and only after the closure's    *)
(* whole effect: done is closed after f has run and err is assigned.         *)
ReplyIsOwn ==
  \A t \in Tickets : call[t] = "returned" => t \in Applied /\ got[t] = err[t]

(* No closure is applied twice and the update of none is lost to another     *)
(* that ran beside it: the backend state holds every answered ticket once.   *)
NoLostUpdate ==
  /\ \A i, j \in 1..Len(gbe) : gbe[i] = gbe[j] => i = j
  /\ done \subseteq Applied

(* Once a call of Close has returned no closure runs: the backend state does *)
(* not change and the goroutine holds no ticket.                             *)
QuietAfterClose ==
  [][(\E k \in Closers : closer[k] = "returned")
       => gbe' = gbe /\ hand' = NoTicket]_vars

(* A closure that returns an error shuts the goroutine down: it is the last  *)
(* one to be applied.                                                        *)
ErrorIsLast ==
  [][(\E t \in done : err[t] = "error") => gbe' = gbe]_vars

(* No closure runs for ever.  The code does not see to it: an operation with *)
(* a query that Z3 never answers keeps the goroutine, all callers behind it  *)
(* and Close waiting.  The properties below have it as their premise.        *)
ClosuresEnd == []<>(sst # "calling")

(* If every closure ends: a call that the goroutine has taken returns, also  *)
(* when Close is called while it runs.  One that is still blocked on doChan  *)
(* returns as well, whatever other calls come, unless the goroutine leaves   *)
(* its loop before it takes it.                                              *)
CallsReturn ==
  ClosuresEnd =>
    \A t \in Tickets :
      /\ (call[t] = "waiting") ~> (call[t] = "returned")
      /\ (call[t] = "sending") ~> (call[t] = "returned" \/ sst = "exited")

(* If every closure ends, every Close returns, the second one as well, and   *)
(* also while calls keep coming.                                             *)
CloseReturns ==
  ClosuresEnd =>
    \A k \in Closers : (closer[k] = "waiting") ~> (closer[k] = "returned")

-----------------------------------------------------------------------------
(* The abstract service: a call is applied at the moment its closure ends,   *)
(* and the service is stopped once the goroutine has left its loop for good. *)
Phase(t) ==
  CASE call[t] = "idle"     -> "new"
    [] call[t] = "returned" -> "replied"
    [] OTHER                -> IF t \in Applied THEN "applied" ELSE "pending"

ClosePhase(k) ==
  CASE closer[k] = "idle"     -> "new"
    [] closer[k] = "returned" -> "closed"
    [] OTHER                  -> "pending"

Service == INSTANCE RequestService WITH
  phase   <- [t \in Tickets |-> Phase(t)],
  log     <- gbe,
  stopped <- haltDone,
  closing <- [k \in Closers |-> ClosePhase(k)]

(* The goroutine implements the service: its operations look atomic.         *)
ImplementsService == Service!Spec
=============================================================================
