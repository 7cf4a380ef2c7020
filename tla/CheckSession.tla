---------------------------- MODULE CheckSession ----------------------------
(***************************************************************************)
(* The checks of a session of the web application (webui_session.go) and   *)
(* their cancellation.  The backend runs the checks one after another (see *)
(* RequestService).  Each comes with the context of its HTTP request, and  *)
(* starts a watcher: a goroutine that interrupts the session's Z3 contexts *)
(* when the request is cancelled, and leaves when the check is over.  The  *)
(* check polls the context as well, in some modes and at some points.      *)
(*                                                                         *)
(* Nobody waits for a watcher, so one that has woken up may interrupt a    *)
(* query of a later check.  Z3 forgets an interrupt that arrives while no  *)
(* query is running (reslimit::push), and answers "unknown" to the query   *)
(* that it cuts off.                                                       *)
(*                                                                         *)
(* A check is the list of its Z3 queries, in the order of its conjectures  *)
(* or of its depths; what Z3 makes of a query is part of the job.  Mode    *)
(* pdr, events, and the extra query that minimizes selected relations      *)
(* (which never changes the result) are left out.                          *)
(***************************************************************************)
EXTENDS Naturals, Sequences

CONSTANTS N,       \* how many checks are asked for, one after another
          Jobs     \* the checks that may be asked for

Modes == {"induction", "concrete", "abstract", "bounded"}

(* What becomes of a query: Z3 decides it; it is satisfiable, but the search *)
(* for a small model is inconclusive, or the replay of its trace panics, or  *)
(* its model does not convert to clauses; Z3 gives up; Z3 never answers; the *)
(* call panics; the step that leads to the query cannot be executed; there   *)
(* is nothing to ask Z3, for want of a translation or of a state.            *)
Decided == {"unsat", "sat", "hardsize", "badtrace", "badmodel"}
Queries == Decided \cup {"unknown", "endless", "panic", "noexec", "skipped"}

(* The preparation of a check may fail at one of these points.               *)
Failures == {"none", "nomodule", "concepts", "art", "checker", "feedback"}

Job == [mode : Modes, concepts : BOOLEAN, fails : Failures, queries : Seq(Queries)]

ASSUME CountAssumption == N \in Nat
ASSUME JobsAssumption ==
  /\ Jobs \subseteq Job
  /\ \A j \in Jobs : \A i \in 1..Len(j.queries) :
       j.queries[i] = "noexec" => j.mode = "bounded"

Checks == 1..N

VARIABLES n,        \* the current check, or the last one
          job,
          pc,
          k,        \* the next query of the list that is being gone through
          z3,       \* the Z3 context of the check: idle, running, interrupted
          result,   \* what the current check returns
          ctx,      \* ctx[r]: is the context of the r-th request live or done?
          watcher,  \* watcher[r]: its goroutine
          closed,   \* closed[r]: its channel done has been closed
          hits      \* history: who interrupted a query of the current check

vars == <<n, job, pc, k, z3, result, ctx, watcher, closed, hits>>
session == <<n, job, pc, k, result>>
watching == <<ctx, watcher, closed>>

Init ==
  /\ n = 0
  /\ job \in Jobs
  /\ pc = "idle"
  /\ k = 1
  /\ z3 = "idle"
  /\ result = "none"
  /\ ctx = [r \in Checks |-> "live"]
  /\ watcher = [r \in Checks |-> "none"]
  /\ closed = [r \in Checks |-> FALSE]
  /\ hits = {}

-----------------------------------------------------------------------------
(* The check *)

Induction == job.mode = "induction"
Cancelled == ctx[n] = "done"

Goto(l) == pc' = l /\ UNCHANGED result
Return(res) == pc' = "return" /\ result' = res

(* checkCancelled: the check ends if the request has been cancelled.         *)
Poll(cont) == IF Cancelled THEN Return("cancelled") ELSE cont

(* Only an induction check polls after it has started.                       *)
PollInduction(cont) == IF Induction THEN Poll(cont) ELSE cont

(* GoBackend.Check, RunCheckWithOptions, watchCheckCancellation              *)
Begin ==
  /\ pc = "idle" /\ n < N
  /\ n' = n + 1
  /\ job' \in Jobs
  /\ k' = 1
  /\ result' = "none"
  /\ hits' = {}
  /\ watcher' = [watcher EXCEPT ![n + 1] = "fresh"]
  /\ pc' = "start"
  /\ UNCHANGED <<z3, ctx, closed>>

Start ==
  /\ pc = "start"
  /\ Poll(IF job.fails = "nomodule" THEN Return("error")
          ELSE IF job.concepts /\ job.mode \in {"induction", "abstract"}
               THEN Goto("recompute") ELSE Goto("conjectures"))
  /\ UNCHANGED <<n, job, k, z3, watching, hits>>

(* ConceptSess.Recompute *)
Recompute ==
  /\ pc = "recompute"
  /\ IF job.fails = "concepts" THEN Return("error")
                               ELSE PollInduction(Goto("conjectures"))
  /\ UNCHANGED <<n, job, k, z3, watching, hits>>

Conjectures ==
  /\ pc = "conjectures"
  /\ IF job.queries = << >> THEN Return("pass")
     ELSE PollInduction(Goto(IF job.mode = "bounded" THEN "direct" ELSE "art"))
  /\ UNCHANGED <<n, job, k, z3, watching, hits>>

(* MakeCheckArt; then, in an induction check, newWebUIConjChecker            *)
BuildArt ==
  /\ pc = "art"
  /\ IF job.fails = "art" THEN Return("error")
     ELSE IF Induction
          THEN Poll(IF job.fails = "checker" THEN Return("error") ELSE Goto("list"))
          ELSE Goto("direct")
  /\ UNCHANGED <<n, job, k, z3, watching, hits>>

-----------------------------------------------------------------------------
(* Queries *)

Query == job.queries[k]
More == k <= Len(job.queries)

(* Go calls Z3.  The direct loop of an induction check polls first.          *)
Ask ==
  /\ pc \in {"list", "direct", "fallback", "reconstruct"} /\ z3 = "idle"
  /\ More /\ Query \notin {"noexec", "skipped"}
  /\ IF pc = "fallback" /\ Cancelled
     THEN Return("cancelled") /\ UNCHANGED z3
     ELSE z3' = "running" /\ UNCHANGED <<pc, result>>
  /\ UNCHANGED <<n, job, k, watching, hits>>

(* A small model is looked for, except in the first pass over the            *)
(* conjectures of an induction check and in its fallback.                    *)
Shrinks == pc \in {"direct", "reconstruct"}

(* The answer when Z3 is left alone *)
Outcome ==
  CASE Query = "hardsize" -> IF Shrinks THEN "unknown" ELSE "sat"
    [] Query = "badtrace" -> IF pc = "list" THEN "sat" ELSE "panic"
    [] Query = "badmodel" -> IF pc = "list" THEN "sat" ELSE "no trace"
    [] OTHER -> Query

(* A query that was interrupted may have been decided just before.           *)
Answers ==
  (IF Query = "endless" THEN {} ELSE {Outcome})
    \cup (IF z3 = "interrupted" THEN {"unknown"} ELSE {})

(* The list has been gone through, or its next condition is added.           *)
NextInList ==
  IF k < Len(job.queries) THEN k' = k + 1 /\ UNCHANGED <<pc, result>>
                          ELSE Poll(Return("pass")) /\ UNCHANGED k

\* Faulty variants of ListAnswer: the error of an inconclusive answer is
\* dropped, and the list is gone through again.
ListAnswerDropsError ==
  /\ pc = "list" /\ z3 # "idle"
  /\ \E a \in Answers :
       \/ a \in {"unsat", "unknown"} /\ NextInList
       \/ /\ a = "sat"
          /\ Poll(Goto("reconstruct")) /\ UNCHANGED k
       \/ /\ a = "panic"
          /\ Poll(Goto("fallback"))
          /\ k' = 1
  /\ z3' = "idle"
  /\ UNCHANGED <<n, job, watching, hits>>

ListAnswerRetries ==
  /\ pc = "list" /\ z3 # "idle"
  /\ \E a \in Answers :
       \/ a = "unsat" /\ NextInList
       \/ /\ a = "sat"
          /\ Poll(Goto("reconstruct")) /\ UNCHANGED k
       \/ /\ a \in {"unknown", "panic"}
          /\ Poll(Goto("list"))
          /\ k' = 1
  /\ z3' = "idle"
  /\ UNCHANGED <<n, job, watching, hits>>

(* CheckFcsInStateWithAG: all conditions on one solver, up to the first that *)
(* can be met.  An answer "unknown" is a panic (SmallModelClauses), and      *)
(* every panic sends the check to its fallback.                              *)
ListAnswer ==
  /\ pc = "list" /\ z3 # "idle"
  /\ \E a \in Answers :
       \/ a = "unsat" /\ NextInList
       \/ /\ a = "sat"
          /\ Poll(Goto("reconstruct")) /\ UNCHANGED k
       \/ /\ a \in {"unknown", "panic"}
          /\ Poll(Goto("fallback"))
          /\ k' = 1
  /\ z3' = "idle"
  /\ UNCHANGED <<n, job, watching, hits>>

(* The failed condition is checked again for its trace.  Without a trace the *)
(* conjecture is reported all the same.                                      *)
ReconstructAnswer ==
  /\ pc = "reconstruct" /\ z3 # "idle"
  /\ \E a \in Answers :
       Poll(Return(CASE a = "panic" -> "unsolved"
                     [] a = "sat" /\ job.fails = "feedback" -> "error"
                     [] OTHER -> "refuted"))
  /\ z3' = "idle"
  /\ UNCHANGED <<n, job, k, watching, hits>>

(* CheckFinalCond returns no trace when Z3 says unsat, and none either when  *)
(* it says unknown (CheckVC drops the error), or when the model it gives     *)
(* does not convert.                                                         *)
NoTrace == {"unsat", "unknown", "no trace"}
Advance == k' = k + 1
             /\ IF k = Len(job.queries) THEN Return("pass") ELSE UNCHANGED <<pc, result>>

\* Faulty variant of FallbackAnswer: the context is not polled after the query.
FallbackAnswerUnpolled ==
  /\ pc = "fallback" /\ z3 # "idle"
  /\ \E a \in Answers :
       \/ a \in NoTrace /\ Advance
       \/ /\ a = "sat"
          /\ Return(IF job.fails = "feedback" THEN "error" ELSE "refuted")
          /\ UNCHANGED k
       \/ a = "panic" /\ Return("unsolved") /\ UNCHANGED k
  /\ z3' = "idle"
  /\ UNCHANGED <<n, job, watching, hits>>

FallbackAnswer ==
  /\ pc = "fallback" /\ z3 # "idle"
  /\ \E a \in Answers :
       IF Cancelled THEN Return("cancelled") /\ UNCHANGED k
       ELSE \/ a \in NoTrace /\ Advance
            \/ /\ a = "sat"
               /\ Return(IF job.fails = "feedback" THEN "error" ELSE "refuted")
               /\ UNCHANGED k
            \/ a = "panic" /\ Return("unsolved") /\ UNCHANGED k
  /\ z3' = "idle"
  /\ UNCHANGED <<n, job, watching, hits>>

(* Modes concrete, abstract and bounded                                      *)
DirectAnswer ==
  /\ pc = "direct" /\ z3 # "idle"
  /\ \E a \in Answers :
       \/ a \in NoTrace /\ Advance
       \/ a = "sat" /\ Return("refuted") /\ UNCHANGED k
       \/ a = "panic" /\ Return("error") /\ UNCHANGED k
  /\ z3' = "idle"
  /\ UNCHANGED <<n, job, watching, hits>>

(* A condition that has no translation is left out of the list; a query that *)
(* has none, or no state to be asked of, gives no trace.                     *)
PassOver ==
  /\ pc \in {"list", "direct", "fallback"} /\ z3 = "idle"
  /\ More /\ Query = "skipped"
  /\ CASE pc = "list" -> NextInList
       [] pc = "direct" -> Advance
       [] pc = "fallback" -> IF Cancelled THEN Return("cancelled") /\ UNCHANGED k
                             ELSE Advance
  /\ UNCHANGED <<n, job, z3, watching, hits>>

(* BMCCheckIsolate: a step that cannot be executed ends the search, and what *)
(* is not Found is a pass.                                                   *)
NoStep ==
  /\ pc = "direct" /\ More /\ Query = "noexec"
  /\ Return("pass")
  /\ UNCHANGED <<n, job, k, z3, watching, hits>>

\* Faulty variant of StopWatcher: done is not closed.
StopWatcherMissing ==
  /\ pc = "return"
  /\ pc' = "idle"
  /\ UNCHANGED <<n, job, k, z3, result, watching, hits>>

(* The deferred call of RunCheckWithOptions closes done; then the answer     *)
(* goes out.  A watcher that waits leaves.                                   *)
StopWatcher ==
  /\ pc = "return"
  /\ closed' = [closed EXCEPT ![n] = TRUE]
  /\ watcher' = [watcher EXCEPT ![n] = IF @ = "parked" THEN "gone" ELSE @]
  /\ pc' = "idle"
  /\ UNCHANGED <<n, job, k, z3, result, ctx, hits>>

-----------------------------------------------------------------------------
(* Requests and watchers *)

(* The client leaves, or the handler has returned: net/http cancels the      *)
(* context of the request.  A waiting watcher wakes up.                      *)
Cancel(r) ==
  /\ ctx[r] = "live"
  /\ ctx' = [ctx EXCEPT ![r] = "done"]
  /\ watcher' = [watcher EXCEPT ![r] = IF @ = "parked" THEN "woken" ELSE @]
  /\ UNCHANGED <<session, z3, closed, hits>>

(* The goroutine reaches its select.  If both cases are ready, either is     *)
(* taken.                                                                    *)
Select(r) ==
  /\ watcher[r] = "fresh"
  /\ \/ ctx[r] = "done" /\ watcher' = [watcher EXCEPT ![r] = "woken"]
     \/ closed[r] /\ watcher' = [watcher EXCEPT ![r] = "gone"]
     \/ /\ ctx[r] = "live" /\ ~closed[r]
        /\ watcher' = [watcher EXCEPT ![r] = "parked"]
  /\ UNCHANGED <<session, z3, ctx, closed, hits>>

\* Faulty variant of Interrupt: an interrupt between two queries is kept.
InterruptKept(r) ==
  /\ watcher[r] = "woken"
  /\ watcher' = [watcher EXCEPT ![r] = "gone"]
  /\ z3' = "interrupted" /\ hits' = hits \cup {r}
  /\ UNCHANGED <<session, ctx, closed>>

(* z3ctx.Interrupt() for each context of the session: it takes no lock, and  *)
(* has an effect on a running query only.                                    *)
Interrupt(r) ==
  /\ watcher[r] = "woken"
  /\ watcher' = [watcher EXCEPT ![r] = "gone"]
  /\ IF z3 = "idle" THEN UNCHANGED <<z3, hits>>
                    ELSE z3' = "interrupted" /\ hits' = hits \cup {r}
  /\ UNCHANGED <<session, ctx, closed>>

-----------------------------------------------------------------------------
Check ==
  \/ Begin \/ Start \/ Recompute \/ Conjectures \/ BuildArt
  \/ Ask \/ ListAnswer \/ ReconstructAnswer \/ FallbackAnswer \/ DirectAnswer
  \/ PassOver \/ NoStep \/ StopWatcher

Watcher(r) == Select(r) \/ Interrupt(r)

Next == Check \/ \E r \in Checks : Cancel(r) \/ Watcher(r)

(* The goroutines run on; clients need not leave.                            *)
Spec == Init /\ [][Next]_vars
FairSpec ==
  /\ Spec
  /\ WF_vars(Check)
  /\ \A r \in Checks : WF_vars(Watcher(r))

-----------------------------------------------------------------------------
Asking == {"list", "direct", "fallback", "reconstruct"}
PCs == Asking \cup {"idle", "start", "recompute", "conjectures", "art", "return"}

(* Every variable has its type, and Z3 works for a check that asks.          *)
TypeOK ==
  /\ n \in 0..N
  /\ job \in Job
  /\ pc \in PCs
  /\ k \in 1..(Len(job.queries) + 1)
  /\ z3 \in {"idle", "running", "interrupted"}
  /\ z3 # "idle" => pc \in Asking
  /\ result \in {"none", "pass", "refuted", "unsolved", "error", "cancelled"}
  /\ ctx \in [Checks -> {"live", "done"}]
  /\ watcher \in [Checks -> {"none", "fresh", "parked", "woken", "gone"}]
  /\ closed \in [Checks -> BOOLEAN]
  /\ hits \subseteq Checks

AllIn(cs) == \A i \in 1..Len(job.queries) : job.queries[i] \in cs

Several == \E r, s \in hits : r # s

(* Decided, and the model becomes a trace if there is one.                   *)
Traced == Decided \ {"badmodel"}

(* When "pass" must mean that Z3 has refuted every query: Z3 is asked and    *)
(* decides them all, no answer is lost on the way to its trace, and no       *)
(* interrupt comes in between.  An induction check first goes through the    *)
(* list, which needs no trace; it also stands one interrupt, of a check      *)
(* before it, as its second pass over the conjectures makes up for the       *)
(* first, unless that loses an answer.                                       *)
Undisturbed ==
  IF Induction
  THEN \/ AllIn(Decided) /\ hits = {}
       \/ AllIn(Traced) /\ ~Several
  ELSE AllIn(Traced \ {"hardsize"}) /\ hits = {}

(* A conjecture that is reported as refuted has a counterexample, whoever    *)
(* interrupts the check; and an undisturbed check that passes has checked    *)
(* every conjecture, or every depth.                                         *)
VerdictRight ==
  /\ result = "refuted" => job.queries[k] \in Decided \ {"unsat"}
  /\ result = "pass" /\ Undisturbed => AllIn({"unsat"})

(* "cancelled" is the answer to a request that was cancelled, and to no      *)
(* other; and an induction check whose own watcher has cut off a query never *)
(* draws a conclusion from what is left of it.                               *)
CancelledIsOwn ==
  /\ result = "cancelled" => ctx[n] = "done"
  /\ Induction /\ n \in hits /\ result # "none" => result = "cancelled"

Over(r) == n > r \/ (n = r /\ pc = "idle")

(* No goroutine is left behind: a watcher leaves once its check is over or   *)
(* its request was cancelled.                                                *)
WatcherLeaves ==
  \A r \in Checks :
    (Over(r) \/ watcher[r] = "woken") ~> watcher[r] = "gone"

(* A check returns if Z3 answers all its queries.                            *)
CheckReturns ==
  (pc = "start" /\ AllIn(Queries \ {"endless"})) ~> pc = "idle"

(* "All conjectures hold concretely.", "Inductive invariant found": a check  *)
(* says so when Z3 has refuted every query.                                  *)
PassIsProved == result = "pass" => AllIn({"unsat"})

(* z3bridge_session_cache.go: "Web UI cancellation uses this to interrupt a  *)
(* long-running check from the request-cancellation goroutine."  A check     *)
(* whose request is cancelled comes to an end.                               *)
CancelEndsCheck ==
  \A r \in Checks : (n = r /\ ctx[r] = "done") ~> (pc = "idle" \/ n # r)
=============================================================================
