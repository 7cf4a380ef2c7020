------------------------- MODULE CheckSessionProofs -------------------------
(***************************************************************************)
(* Proofs about CheckSession, for any number of checks of any length: the  *)
(* variables have their types, verdicts are right and cancellation is the  *)
(* client's own.                                                           *)
(*                                                                         *)
(* The inductive invariant has three parts: where the check is in its list *)
(* (Typed), what a watcher that interrupted has behind it (WatchPart), and *)
(* what is known of the queries before the current one (SeenPart).  The    *)
(* second pass of an induction check begins only after an interrupt if Z3  *)
(* can decide every query, and a watcher interrupts once: so a query that  *)
(* the second pass loses takes a second watcher.                           *)
(***************************************************************************)
EXTENDS CheckSession, TLAPS

Preparing == {"start", "recompute", "conjectures", "art"}

Typed ==
  /\ TypeOK
  /\ job \in Jobs
  /\ pc # "idle" \/ result # "none" => n \in Checks
  /\ pc \notin {"idle", "return"} => result = "none"
  /\ pc \in Preparing => k = 1
  /\ pc \in Asking \cup {"art"} => k <= Len(job.queries)
  /\ z3 # "idle" => Query # "noexec"

(* The initial states are typed. *)
LEMMA TypedInit == Init => Typed
<1> SUFFICES ASSUME Init PROVE Typed
  OBVIOUS
<1>1. job \in Job /\ Len(job.queries) \in Nat
  BY JobsAssumption DEF Init, Job
<1>2. n \in 0..N
  BY CountAssumption DEF Init
<1> QED
  BY <1>1, <1>2 DEF Init, Typed, TypeOK, PCs, Asking, Preparing, Query

(* The length of the list of queries, and the query whose turn it is. *)
LEMMA Current ==
  ASSUME Typed
  PROVE  /\ Len(job.queries) \in Nat
         /\ \A i \in 1..Len(job.queries) : job.queries[i] \in Queries
         /\ k <= Len(job.queries) => Query \in Queries
<1>1. job.queries \in Seq(Queries)
  BY DEF Typed, TypeOK, Job
<1>2. k \in Nat /\ k >= 1
  BY <1>1 DEF Typed, TypeOK
<1> QED
  BY <1>1, <1>2 DEF Query

(* What the answer of a query says of it. *)
LEMMA AnswerFacts ==
  ASSUME Typed, pc \in Asking, NEW a \in Answers
  PROVE  /\ a = "unsat" => Query = "unsat"
         /\ a = "sat" => Query \in Decided \ {"unsat"}
         /\ a = "unknown" => \/ z3 = "interrupted" \/ Query = "unknown"
                             \/ (Query = "hardsize" /\ pc \in {"direct", "reconstruct"})
         /\ a = "panic" => Query = "panic" \/ (Query = "badtrace" /\ pc # "list")
         /\ a = "no trace" => Query = "badmodel" /\ pc # "list"
<1>1. Query \in Queries
  BY Current DEF Typed
<1>2. a = Outcome \/ (a = "unknown" /\ z3 = "interrupted")
  BY DEF Answers
<1>3. CASE a = "unknown" /\ z3 = "interrupted"
  BY <1>3
<1>4. CASE a = Outcome
  <2>1. CASE Query = "hardsize"
    <3>1. a = IF Shrinks THEN "unknown" ELSE "sat"
      BY <1>4, <2>1 DEF Outcome
    <3> QED
      BY <2>1, <3>1 DEF Shrinks, Decided
  <2>2. CASE Query = "badtrace"
    <3>1. a = IF pc = "list" THEN "sat" ELSE "panic"
      BY <1>4, <2>2 DEF Outcome
    <3> QED
      BY <2>2, <3>1 DEF Decided
  <2>3. CASE Query = "badmodel"
    <3>1. a = IF pc = "list" THEN "sat" ELSE "no trace"
      BY <1>4, <2>3 DEF Outcome
    <3> QED
      BY <2>3, <3>1 DEF Decided
  <2>4. CASE Query \notin {"hardsize", "badtrace", "badmodel"}
    <3>1. a = Query
      BY <1>4, <2>4 DEF Outcome
    <3> QED
      BY <2>4, <3>1, <1>1 DEF Queries, Decided
  <2> QED
    BY <2>1, <2>2, <2>3, <2>4
<1> QED
  BY <1>2, <1>3, <1>4

-----------------------------------------------------------------------------
(* Steps in which the list and the job stay as they are keep the check       *)
(* typed if the position does. *)
LEMMA TypedStep == Typed /\ [Next]_vars => Typed'
<1> SUFFICES ASSUME Typed, [Next]_vars PROVE Typed'
  OBVIOUS
<1> USE Current, CountAssumption
<1>1. CASE Begin
  <2>1. job' \in Job /\ Len(job'.queries) \in Nat
    BY <1>1, JobsAssumption DEF Begin, Job
  <2>2. n' \in 1..N
    BY <1>1 DEF Begin, Typed, TypeOK
  <2>3. z3 = "idle" /\ z3' = "idle"
    BY <1>1 DEF Begin, Typed, TypeOK, Asking
  <2>4. watcher' \in [Checks -> {"none", "fresh", "parked", "woken", "gone"}]
    BY <1>1 DEF Begin, Typed, TypeOK
  <2> QED
    BY <1>1, <2>1, <2>2, <2>3, <2>4 DEF Begin, Typed, TypeOK, PCs, Asking, Preparing, Query, Checks
<1>2. CASE Start
  BY <1>2 DEF Start, Poll, Return, Goto, watching, Typed, TypeOK, PCs, Asking, Preparing, Query
<1>3. CASE Recompute
  BY <1>3 DEF Recompute, PollInduction, Poll, Return, Goto, watching, Typed, TypeOK, PCs, Asking, Preparing, Query
<1>4. CASE Conjectures
  <2>1. job.queries # << >> => Len(job.queries) >= 1
    BY DEF Typed, TypeOK, Job
  <2> QED
    BY <1>4, <2>1 DEF Conjectures, PollInduction, Poll, Return, Goto, watching, Typed, TypeOK, PCs, Asking, Preparing, Query
<1>5. CASE BuildArt
  BY <1>5 DEF BuildArt, Poll, Return, Goto, watching, Typed, TypeOK, PCs, Asking, Preparing, Query
<1>6. CASE Ask
  BY <1>6 DEF Ask, Return, watching, Typed, TypeOK, PCs, Asking, Preparing, Query
<1>7. CASE ListAnswer
  BY <1>7 DEF ListAnswer, NextInList, Poll, Return, Goto, watching, Typed, TypeOK, PCs, Asking, Preparing, Query
<1>8. CASE ReconstructAnswer
  <2>1. pc' = "return" /\ result' \in {"cancelled", "unsolved", "error", "refuted"}
    BY <1>8 DEF ReconstructAnswer, Poll, Return
  <2> QED
    BY <1>8, <2>1 DEF ReconstructAnswer, watching, Typed, TypeOK, PCs, Asking, Preparing, Query
<1>9. CASE FallbackAnswer
  BY <1>9 DEF FallbackAnswer, Advance, Return, watching, Typed, TypeOK, PCs, Asking, Preparing, Query
<1>10. CASE DirectAnswer
  BY <1>10 DEF DirectAnswer, Advance, Return, watching, Typed, TypeOK, PCs, Asking, Preparing, Query
<1>11. CASE NoStep
  <2>1. z3 = "idle"
    BY <1>11 DEF NoStep, Typed
  <2> QED
    BY <1>11, <2>1 DEF NoStep, Return, watching, Typed, TypeOK, PCs, Asking, Preparing, Query
<1>12. CASE StopWatcher
  BY <1>12 DEF StopWatcher, Typed, TypeOK, PCs, Asking, Preparing, Query
<1>13. ASSUME NEW r \in Checks, Cancel(r) PROVE Typed'
  BY <1>13 DEF Cancel, session, Typed, TypeOK, PCs, Asking, Preparing, Query
<1>14. ASSUME NEW r \in Checks, Select(r) PROVE Typed'
  BY <1>14 DEF Select, session, Typed, TypeOK, PCs, Asking, Preparing, Query
<1>15. ASSUME NEW r \in Checks, Interrupt(r) PROVE Typed'
  BY <1>15 DEF Interrupt, session, Typed, TypeOK, PCs, Asking, Preparing, Query
<1>16. CASE UNCHANGED vars
  BY <1>16 DEF vars, Typed, TypeOK, PCs, Asking, Preparing, Query
<1>17. CASE PassOver
  <2>1. /\ pc \in Asking /\ z3 = "idle" /\ z3' = "idle" /\ k <= Len(job.queries)
        /\ UNCHANGED <<n, job, watching, hits>>
    BY <1>17 DEF PassOver, More, Asking
  <2>2. \/ pc' = "return" /\ result' \in {"cancelled", "pass"} /\ k' \in {k, k + 1}
        \/ k < Len(job.queries) /\ k' = k + 1 /\ UNCHANGED <<pc, result>>
    <3>1. CASE NextInList
      BY <3>1 DEF NextInList, Poll, Return
    <3>2. CASE Advance
      BY <2>1, <3>2 DEF Advance, Return, Typed, TypeOK
    <3>3. CASE Return("cancelled") /\ UNCHANGED k
      BY <3>3 DEF Return
    <3> QED
      BY <1>17, <3>1, <3>2, <3>3 DEF PassOver
  <2> QED
    BY <2>1, <2>2 DEF watching, Typed, TypeOK, PCs, Asking, Preparing, Query
<1> QED
  BY <1>1, <1>2, <1>3, <1>4, <1>5, <1>6, <1>7, <1>8, <1>9, <1>10, <1>11, <1>12,
     <1>13, <1>14, <1>15, <1>16, <1>17 DEF Next, Check, Watcher

(* Every variable has its type, and Z3 works for a check that asks. *)
THEOREM TypeCorrect == Spec => []TypeOK
<1>1. Typed => TypeOK
  BY DEF Typed
<1> QED
  BY TypedInit, TypedStep, <1>1, PTL DEF Spec

-----------------------------------------------------------------------------
(* A watcher that is about to interrupt, or has interrupted a query of this  *)
(* check, belongs to a request that was cancelled; once it has interrupted   *)
(* it is gone.  Queries are interrupted only while they run.                 *)
WatchPart ==
  /\ \A r \in Checks : watcher[r] = "woken" => ctx[r] = "done"
  /\ \A r \in hits : r \in Checks /\ watcher[r] = "gone" /\ ctx[r] = "done"
  /\ z3 = "interrupted" => hits # {}
  /\ pc \in Preparing => hits = {}
  /\ \A r \in Checks : r > n => watcher[r] = "none"

LEMMA WatchInit == Init => WatchPart
BY DEF Init, WatchPart, Preparing

(* Steps of the check after it has begun leave contexts, watchers and hits   *)
(* alone. *)
LEMMA WatchFrame ==
  ASSUME Typed, WatchPart, UNCHANGED <<n, watching, hits>>,
         z3' = "interrupted" => z3 = "interrupted",
         pc' \in Preparing => pc \in Preparing
  PROVE  WatchPart'
BY DEF WatchPart, watching

LEMMA WatchStep == Typed /\ WatchPart /\ [Next]_vars => WatchPart'
<1> SUFFICES ASSUME Typed, WatchPart, [Next]_vars PROVE WatchPart'
  OBVIOUS
<1>1. CASE Begin
  <2>1. n \in Nat /\ n' = n + 1
    BY <1>1, CountAssumption DEF Begin, Typed, TypeOK
  <2>2. \A r \in Checks : r # n + 1 => watcher'[r] = watcher[r]
    BY <1>1 DEF Begin, Typed, TypeOK
  <2>3. z3' = "idle"
    BY <1>1 DEF Begin, Typed, TypeOK, Asking
  <2>4. \A r \in Checks : watcher'[r] = "woken" => watcher[r] = "woken"
    BY <1>1, <2>2 DEF Begin, Typed, TypeOK
  <2>5. \A r \in Checks : r > n' => r > n /\ r # n + 1
    BY <2>1 DEF Checks
  <2> QED
    BY <1>1, <2>2, <2>3, <2>4, <2>5 DEF Begin, WatchPart
<1>2. CASE Start \/ Recompute \/ Conjectures \/ BuildArt
  BY <1>2, WatchFrame DEF Start, Recompute, Conjectures, BuildArt, PollInduction, Poll, Return, Goto, Preparing
<1>3. CASE Ask
  BY <1>3, WatchFrame DEF Ask, Return, Preparing
<1>4. CASE ListAnswer
  BY <1>4, WatchFrame DEF ListAnswer, NextInList, Poll, Return, Goto, Preparing
<1>5. CASE ReconstructAnswer
  BY <1>5, WatchFrame DEF ReconstructAnswer, Poll, Return, Preparing
<1>6. CASE FallbackAnswer
  BY <1>6, WatchFrame DEF FallbackAnswer, Advance, Return, Preparing
<1>7. CASE DirectAnswer
  BY <1>7, WatchFrame DEF DirectAnswer, Advance, Return, Preparing
<1>8. CASE NoStep
  BY <1>8, WatchFrame DEF NoStep, Return, Preparing
<1>9. CASE StopWatcher
  <2>1. \A r \in Checks : \/ watcher'[r] = watcher[r]
                          \/ watcher[r] = "parked" /\ watcher'[r] = "gone"
    BY <1>9 DEF StopWatcher, Typed, TypeOK
  <2> QED
    BY <1>9, <2>1 DEF StopWatcher, WatchPart, Preparing
<1>10. ASSUME NEW r \in Checks, Cancel(r) PROVE WatchPart'
  <2>1. \A q \in Checks : \/ watcher'[q] = watcher[q]
                          \/ q = r /\ watcher[q] = "parked" /\ watcher'[q] = "woken"
    BY <1>10 DEF Cancel, Typed, TypeOK
  <2>2. ctx'[r] = "done" /\ \A q \in Checks : ctx[q] = "done" => ctx'[q] = "done"
    BY <1>10 DEF Cancel, Typed, TypeOK
  <2> QED
    BY <1>10, <2>1, <2>2 DEF Cancel, session, WatchPart, Preparing
<1>11. ASSUME NEW r \in Checks, Select(r) PROVE WatchPart'
  <2>1. \A q \in Checks : q # r => watcher'[q] = watcher[q]
    BY <1>11 DEF Select, Typed, TypeOK
  <2>2. watcher[r] = "fresh" /\ (watcher'[r] = "woken" => ctx[r] = "done")
    BY <1>11 DEF Select, Typed, TypeOK
  <2> QED
    BY <1>11, <2>1, <2>2 DEF Select, session, WatchPart, Preparing
<1>12. ASSUME NEW r \in Checks, Interrupt(r) PROVE WatchPart'
  <2>1. \A q \in Checks : q # r => watcher'[q] = watcher[q]
    BY <1>12 DEF Interrupt, Typed, TypeOK
  <2>2. watcher[r] = "woken" /\ watcher'[r] = "gone"
    BY <1>12 DEF Interrupt, Typed, TypeOK
  <2>3. ctx'[r] = "done" /\ ctx' = ctx
    BY <1>12, <2>2 DEF Interrupt, WatchPart
  <2>4. pc \in Preparing => z3 = "idle"
    BY DEF Typed, TypeOK, Preparing, Asking
  <2> QED
    BY <1>12, <2>1, <2>2, <2>3, <2>4 DEF Interrupt, session, WatchPart
<1>13. CASE UNCHANGED vars
  BY <1>13, WatchFrame DEF vars, watching
<1>14. CASE PassOver
  BY <1>14, WatchFrame DEF PassOver, NextInList, Advance, Poll, Return, Preparing
<1> QED
  BY <1>1, <1>2, <1>3, <1>4, <1>5, <1>6, <1>7, <1>8, <1>9, <1>10, <1>11, <1>12,
     <1>13, <1>14 DEF Next, Check, Watcher

-----------------------------------------------------------------------------
(* What is known of the queries before the current one.                      *)
Seen(cs) == \A i \in 1..(k - 1) : job.queries[i] \in cs

ModePart ==
  /\ pc = "direct" => ~Induction
  /\ pc \in {"list", "fallback", "reconstruct"} => Induction

(* In the first pass Z3 has refuted every query asked before the current one. *)
ListPart == pc = "list" => Seen({"unsat", "skipped"})

(* The second pass, when Z3 can decide every query: it has been interrupted  *)
(* once, and without a second watcher it loses nothing.                      *)
FallbackPart ==
  pc = "fallback" =>
    /\ AllIn(Decided) => hits # {}
    /\ AllIn(Traced) => /\ z3 = "interrupted" => Several
                        /\ ~Several => Seen({"unsat"})

DirectPart ==
  pc = "direct" /\ AllIn(Traced \ {"hardsize"}) /\ hits = {} => Seen({"unsat"})

ReconstructPart == pc = "reconstruct" => Query \in Decided \ {"unsat"}

SeenPart ==
  /\ ModePart
  /\ ListPart
  /\ FallbackPart
  /\ DirectPart
  /\ ReconstructPart
  /\ VerdictRight

LEMMA SeenInit == Init => SeenPart
BY DEF Init, SeenPart, ModePart, ListPart, FallbackPart, DirectPart, ReconstructPart, VerdictRight

(* A step that leaves the position in the list alone, and is not the end. *)
LEMMA SeenFrame ==
  ASSUME SeenPart, UNCHANGED session, UNCHANGED hits, z3' = z3
  PROVE  SeenPart'
BY DEF SeenPart, ModePart, ListPart, FallbackPart, DirectPart, ReconstructPart, VerdictRight,
       session, Seen, AllIn, Several, Undisturbed, Induction, Query

(* A verdict that claims nothing. *)
LEMMA SeenEnd ==
  ASSUME SeenPart, pc' \in {"return", "idle"},
         result' \in {"none", "unsolved", "error", "cancelled"}
  PROVE  SeenPart'
BY DEF SeenPart, ModePart, ListPart, FallbackPart, DirectPart, ReconstructPart, VerdictRight

(* A conjecture is reported as refuted. *)
LEMMA SeenRefuted ==
  ASSUME SeenPart, UNCHANGED <<job, k>>, pc' = "return", result' = "refuted",
         Query \in Decided \ {"unsat"}
  PROVE  SeenPart'
BY DEF SeenPart, ModePart, ListPart, FallbackPart, DirectPart, ReconstructPart, VerdictRight, Query

(* The check passes. *)
LEMMA SeenPass ==
  ASSUME SeenPart, pc' = "return", result' = "pass",
         UNCHANGED <<job, hits>>, Undisturbed => AllIn({"unsat"})
  PROVE  SeenPart'
BY DEF SeenPart, ModePart, ListPart, FallbackPart, DirectPart, ReconstructPart, VerdictRight,
       Undisturbed, Induction, AllIn, Several

(* The preparation goes on: nothing has been asked yet. *)
LEMMA SeenPrepare ==
  ASSUME Typed, SeenPart, k = 1, UNCHANGED <<job, k, result>>, result = "none",
         \/ pc' \in Preparing
         \/ pc' = "list" /\ Induction
         \/ pc' = "direct" /\ ~Induction
  PROVE  SeenPart'
BY DEF SeenPart, ModePart, ListPart, FallbackPart, DirectPart, ReconstructPart, VerdictRight,
       Seen, Induction, Preparing

(* A query more has been refuted, or there is none left. *)
LEMMA SeenMore ==
  ASSUME Typed, pc \in Asking, NEW cs, Seen(cs), Query \in cs, UNCHANGED job, k' = k + 1
  PROVE  /\ Seen(cs)'
         /\ k = Len(job.queries) => AllIn(cs)
<1>1. k \in Nat /\ k >= 1 /\ Len(job.queries) \in Nat
  BY Current DEF Typed, TypeOK
<1>2. \A i \in 1..k : job.queries[i] \in cs
  <2> SUFFICES ASSUME NEW i \in 1..k PROVE job.queries[i] \in cs
    OBVIOUS
  <2>1. CASE i = k
    BY <2>1 DEF Query
  <2>2. CASE i # k
    BY <2>2, <1>1 DEF Seen
  <2> QED
    BY <2>1, <2>2
<1> QED
  BY <1>1, <1>2 DEF Seen, AllIn

(* The query whose turn it is, is one of the list. *)
LEMMA QueryIn ==
  ASSUME Typed, pc \in Asking, NEW cs, AllIn(cs)
  PROVE  Query \in cs
<1>1. k \in 1..Len(job.queries)
  BY Current DEF Typed, TypeOK
<1> QED
  BY <1>1 DEF AllIn, Query

(* The list goes on, or all that was asked of it has been refuted. *)
LEMMA ListGoesOn ==
  ASSUME Typed, SeenPart, pc = "list", Query \in {"unsat", "skipped"},
         UNCHANGED <<job, hits>>, NextInList
  PROVE  SeenPart'
<1>1. pc \in Asking /\ Induction /\ Seen({"unsat", "skipped"}) /\ result = "none"
  BY DEF Asking, SeenPart, ModePart, ListPart, Typed
<1>2. CASE k' = k + 1 /\ UNCHANGED <<pc, result>>
  <2>1. Seen({"unsat", "skipped"})'
    BY <1>1, <1>2, SeenMore
  <2> QED
    BY <1>1, <1>2, <2>1
    DEF SeenPart, ModePart, ListPart, FallbackPart, DirectPart, ReconstructPart, VerdictRight, Induction
<1>3. CASE pc' = "return" /\ result' = "cancelled"
  BY <1>3, SeenEnd
<1>4. CASE k >= Len(job.queries) /\ pc' = "return" /\ result' = "pass"
  <2>1. AllIn({"unsat", "skipped"})
    <3>1. \A i \in 1..Len(job.queries) : i \in 1..(k - 1) \/ i = k
      BY <1>4, Current DEF Typed, TypeOK
    <3> QED
      BY <1>1, <3>1 DEF AllIn, Seen, Query
  <2>2. Undisturbed => AllIn({"unsat"})
    BY <2>1 DEF Undisturbed, AllIn, Traced, Decided
  <2> QED
    BY <1>4, <2>2, SeenPass
<1>5. k \in Nat /\ Len(job.queries) \in Nat
  BY Current DEF Typed, TypeOK
<1> QED
  BY <1>2, <1>3, <1>4, <1>5 DEF NextInList, Poll, Return

LEMMA ListSeen == Typed /\ WatchPart /\ SeenPart /\ ListAnswer => SeenPart'
<1> SUFFICES ASSUME Typed, WatchPart, SeenPart, ListAnswer PROVE SeenPart'
  OBVIOUS
<1>1. pc = "list" /\ pc \in Asking /\ Induction /\ result = "none"
  BY DEF ListAnswer, Asking, SeenPart, ModePart, Typed
<1>2. UNCHANGED <<job, hits>> /\ z3' = "idle"
  BY DEF ListAnswer
<1>3. PICK a \in Answers :
       \/ a = "unsat" /\ NextInList
       \/ /\ a = "sat"
          /\ Poll(Goto("reconstruct")) /\ UNCHANGED k
       \/ /\ a \in {"unknown", "panic"}
          /\ Poll(Goto("fallback"))
          /\ k' = 1
  BY DEF ListAnswer
<1>4. CASE pc' = "return" /\ result' = "cancelled"
  BY <1>4, SeenEnd
<1>5. CASE a = "unsat" /\ NextInList
  BY <1>1, <1>2, <1>5, AnswerFacts, ListGoesOn
<1>6. CASE a = "sat" /\ Goto("reconstruct") /\ UNCHANGED k
  <2>1. Query \in Decided \ {"unsat"}
    BY <1>1, <1>6, AnswerFacts
  <2> QED
    BY <1>1, <1>2, <1>6, <2>1
    DEF Goto, SeenPart, ModePart, ListPart, FallbackPart, DirectPart, ReconstructPart, VerdictRight,
        Induction, Query
<1>7. CASE a \in {"unknown", "panic"} /\ Goto("fallback") /\ k' = 1
  <2>1. AllIn(Decided) => z3 = "interrupted"
    BY <1>1, <1>7, AnswerFacts, QueryIn DEF Decided
  <2>2. AllIn(Decided) => hits # {}
    BY <2>1 DEF WatchPart
  <2> QED
    BY <1>1, <1>2, <1>7, <2>2
    DEF Goto, SeenPart, ModePart, ListPart, FallbackPart, DirectPart, ReconstructPart, VerdictRight,
        Induction, Seen, AllIn
<1> QED
  BY <1>3, <1>4, <1>5, <1>6, <1>7 DEF Poll, Return

(* Without a trace the fallback goes on to the next query. *)
LEMMA FallbackGoesOn ==
  ASSUME Typed, SeenPart, pc = "fallback", UNCHANGED <<job, hits>>, z3' = "idle", Advance,
         AllIn(Traced) /\ ~Several => Query = "unsat"
  PROVE  SeenPart'
<1>1. pc \in Asking /\ Induction /\ result = "none" /\ k' = k + 1
  BY DEF Advance, Asking, SeenPart, ModePart, Typed
<1>2. AllIn(Decided) => hits # {}
  BY DEF SeenPart, FallbackPart
<1>3. ASSUME AllIn(Traced), ~Several
      PROVE  Seen({"unsat"})' /\ (k = Len(job.queries) => AllIn({"unsat"}))
  <2>1. Seen({"unsat"})
    BY <1>3 DEF SeenPart, FallbackPart
  <2> QED
    BY <1>1, <1>3, <2>1, SeenMore
<1>4. CASE k = Len(job.queries) /\ Return("pass")
  BY <1>1, <1>2, <1>3, <1>4, SeenPass DEF Return, Undisturbed
<1>5. CASE UNCHANGED <<pc, result>>
  BY <1>1, <1>2, <1>3, <1>5
  DEF SeenPart, ModePart, ListPart, FallbackPart, DirectPart, ReconstructPart, VerdictRight,
      Induction, AllIn, Several
<1> QED
  BY <1>4, <1>5 DEF Advance

LEMMA FallbackSeen == Typed /\ SeenPart /\ FallbackAnswer => SeenPart'
<1> SUFFICES ASSUME Typed, SeenPart, FallbackAnswer PROVE SeenPart'
  OBVIOUS
<1>1. pc = "fallback" /\ pc \in Asking
  BY DEF FallbackAnswer, Asking
<1>2. UNCHANGED <<job, hits>> /\ z3' = "idle"
  BY DEF FallbackAnswer
<1>3. PICK a \in Answers :
       IF Cancelled THEN Return("cancelled") /\ UNCHANGED k
       ELSE \/ a \in NoTrace /\ Advance
            \/ /\ a = "sat"
               /\ Return(IF job.fails = "feedback" THEN "error" ELSE "refuted")
               /\ UNCHANGED k
            \/ a = "panic" /\ Return("unsolved") /\ UNCHANGED k
  BY DEF FallbackAnswer
<1>4. CASE pc' = "return" /\ result' \in {"cancelled", "error", "unsolved"}
  BY <1>4, SeenEnd
<1>5. CASE a = "sat" /\ Return("refuted") /\ UNCHANGED k
  BY <1>1, <1>2, <1>5, AnswerFacts, SeenRefuted DEF Return
<1>6. CASE a \in NoTrace /\ Advance
  <2>1. ASSUME AllIn(Traced), ~Several PROVE Query = "unsat"
    <3>1. z3 # "interrupted"
      BY <1>1, <2>1 DEF SeenPart, FallbackPart
    <3>2. Query \in Traced
      BY <1>1, <2>1, QueryIn
    <3> QED
      BY <1>1, <1>6, <3>1, <3>2, AnswerFacts DEF NoTrace, Traced, Decided
  <2> QED
    BY <1>1, <1>2, <1>6, <2>1, FallbackGoesOn
<1> QED
  BY <1>3, <1>4, <1>5, <1>6 DEF Return

(* Without a counterexample a direct check goes on to the next query. *)
LEMMA DirectGoesOn ==
  ASSUME Typed, SeenPart, pc = "direct", UNCHANGED <<job, hits>>, Advance,
         AllIn(Traced \ {"hardsize"}) /\ hits = {} => Query = "unsat"
  PROVE  SeenPart'
<1>1. pc \in Asking /\ ~Induction /\ result = "none" /\ k' = k + 1
  BY DEF Advance, Asking, SeenPart, ModePart, Typed
<1>2. ASSUME AllIn(Traced \ {"hardsize"}), hits = {}
      PROVE  Seen({"unsat"})' /\ (k = Len(job.queries) => AllIn({"unsat"}))
  <2>1. Seen({"unsat"})
    BY <1>2 DEF SeenPart, DirectPart
  <2> QED
    BY <1>1, <1>2, <2>1, SeenMore
<1>3. CASE k = Len(job.queries) /\ Return("pass")
  BY <1>1, <1>2, <1>3, SeenPass DEF Return, Undisturbed
<1>4. CASE UNCHANGED <<pc, result>>
  BY <1>1, <1>2, <1>4
  DEF SeenPart, ModePart, ListPart, FallbackPart, DirectPart, ReconstructPart, VerdictRight,
      Induction, AllIn
<1> QED
  BY <1>3, <1>4 DEF Advance

LEMMA DirectSeen == Typed /\ WatchPart /\ SeenPart /\ DirectAnswer => SeenPart'
<1> SUFFICES ASSUME Typed, WatchPart, SeenPart, DirectAnswer PROVE SeenPart'
  OBVIOUS
<1>1. pc = "direct" /\ pc \in Asking
  BY DEF DirectAnswer, Asking
<1>2. UNCHANGED <<job, hits>> /\ z3' = "idle"
  BY DEF DirectAnswer
<1>3. PICK a \in Answers :
       \/ a \in NoTrace /\ Advance
       \/ a = "sat" /\ Return("refuted") /\ UNCHANGED k
       \/ a = "panic" /\ Return("error") /\ UNCHANGED k
  BY DEF DirectAnswer
<1>4. CASE a = "panic" /\ Return("error")
  BY <1>4, SeenEnd DEF Return
<1>5. CASE a = "sat" /\ Return("refuted") /\ UNCHANGED k
  BY <1>1, <1>2, <1>5, AnswerFacts, SeenRefuted DEF Return
<1>6. CASE a \in NoTrace /\ Advance
  <2>1. ASSUME AllIn(Traced \ {"hardsize"}), hits = {} PROVE Query = "unsat"
    <3>1. z3 # "interrupted"
      BY <2>1 DEF WatchPart
    <3>2. Query \in Traced \ {"hardsize"}
      BY <1>1, <2>1, QueryIn
    <3> QED
      BY <1>1, <1>6, <3>1, <3>2, AnswerFacts DEF NoTrace, Traced, Decided
  <2> QED
    BY <1>1, <1>2, <1>6, <2>1, DirectGoesOn
<1> QED
  BY <1>3, <1>4, <1>5, <1>6

(* What is not asked is not among the queries that Z3 decides. *)
LEMMA PassOverSeen == Typed /\ SeenPart /\ PassOver => SeenPart'
<1> SUFFICES ASSUME Typed, SeenPart, PassOver PROVE SeenPart'
  OBVIOUS
<1>1. pc \in Asking /\ Query = "skipped" /\ UNCHANGED <<job, hits>> /\ z3' = "idle"
  BY DEF PassOver, Asking
<1>2. ~AllIn(Traced) /\ ~AllIn(Traced \ {"hardsize"})
  <2>1. Query \notin Traced
    BY <1>1 DEF Traced, Decided
  <2> QED
    BY <1>1, <2>1, QueryIn
<1>3. CASE pc = "list" /\ NextInList
  BY <1>1, <1>3, ListGoesOn
<1>4. CASE pc = "direct" /\ Advance
  BY <1>1, <1>2, <1>4, DirectGoesOn
<1>5. CASE pc = "fallback" /\ Advance
  BY <1>1, <1>2, <1>5, FallbackGoesOn
<1>6. CASE Return("cancelled")
  BY <1>6, SeenEnd DEF Return
<1> QED
  BY <1>3, <1>4, <1>5, <1>6 DEF PassOver

(* A second watcher disturbs the second pass, or the first one the first.    *)
LEMMA InterruptSeen ==
  ASSUME Typed, WatchPart, SeenPart, NEW r \in Checks, Interrupt(r)
  PROVE  SeenPart'
<1>1. r \notin hits
  BY DEF Interrupt, WatchPart
<1>2. UNCHANGED session
  BY DEF Interrupt
<1>3. CASE z3 = "idle"
  BY <1>2, <1>3, SeenFrame DEF Interrupt
<1>4. CASE z3 # "idle"
  <2>1. hits' = hits \cup {r} /\ hits' # {} /\ pc \in Asking /\ result = "none"
    BY <1>4 DEF Interrupt, Typed, TypeOK, Asking
  <2>2. hits # {} => Several'
    BY <1>1, <2>1 DEF Several
  <2>3. Several => Several'
    BY <2>1 DEF Several
  <2>4. AllIn(Traced) => AllIn(Decided)
    BY DEF AllIn, Traced
  <2> QED
    BY <1>2, <2>1, <2>2, <2>3, <2>4
    DEF session, SeenPart, ModePart, ListPart, FallbackPart, DirectPart, ReconstructPart,
        VerdictRight, Induction, Seen, AllIn, Query
<1> QED
  BY <1>3, <1>4

LEMMA SeenStep == Typed /\ WatchPart /\ SeenPart /\ [Next]_vars => SeenPart'
<1> SUFFICES ASSUME Typed, WatchPart, SeenPart, [Next]_vars PROVE SeenPart'
  OBVIOUS
<1>1. CASE Begin
  BY <1>1 DEF Begin, SeenPart, ModePart, ListPart, FallbackPart, DirectPart, ReconstructPart, VerdictRight
<1>2. CASE Start \/ Recompute \/ BuildArt
  <2>1. k = 1 /\ result = "none" /\ UNCHANGED <<job, k>>
    BY <1>2 DEF Start, Recompute, BuildArt, Typed, Preparing
  <2>2. \/ pc' = "return" /\ result' \in {"error", "cancelled"}
        \/ pc' \in Preparing /\ UNCHANGED result
        \/ pc' = "list" /\ Induction /\ UNCHANGED result
        \/ pc' = "direct" /\ ~Induction /\ UNCHANGED result
    BY <1>2 DEF Start, Recompute, BuildArt, PollInduction, Poll, Return, Goto, Preparing
  <2> QED
    BY <2>1, <2>2, SeenEnd, SeenPrepare
<1>3. CASE Conjectures
  <2>1. k = 1 /\ result = "none" /\ UNCHANGED <<job, k, hits>>
    BY <1>3 DEF Conjectures, Typed, Preparing
  <2>2. CASE job.queries = << >> /\ Return("pass")
    <3>1. AllIn({"unsat"})
      BY <2>2 DEF AllIn
    <3> QED
      BY <2>1, <2>2, <3>1, SeenPass DEF Return
  <2>3. CASE pc' = "return" /\ result' = "cancelled"
    BY <2>3, SeenEnd
  <2>4. CASE pc' = IF job.mode = "bounded" THEN "direct" ELSE "art"
    <3>1. result' = result
      BY <1>3, <2>4 DEF Conjectures, PollInduction, Poll, Return, Goto
    <3>2. pc' = "direct" => ~Induction
      BY <2>4 DEF Induction
    <3> QED
      BY <2>1, <2>4, <3>1, <3>2, SeenPrepare DEF Preparing
  <2> QED
    BY <1>3, <2>2, <2>3, <2>4 DEF Conjectures, PollInduction, Poll, Return, Goto
<1>4. CASE Ask
  <2>1. CASE pc = "fallback" /\ Cancelled
    BY <1>4, <2>1, SeenEnd DEF Ask, Return
  <2>2. CASE ~(pc = "fallback" /\ Cancelled)
    BY <1>4, <2>2
    DEF Ask, SeenPart, ModePart, ListPart, FallbackPart, DirectPart, ReconstructPart, VerdictRight,
        Induction, Seen, AllIn, Several, Undisturbed, Query
  <2> QED
    BY <2>1, <2>2
<1>5. CASE ListAnswer
  BY <1>5, ListSeen
<1>6. CASE ReconstructAnswer
  <2>1. Query \in Decided \ {"unsat"} /\ UNCHANGED <<job, k>> /\ pc' = "return"
    BY <1>6 DEF ReconstructAnswer, SeenPart, ReconstructPart, Poll, Return
  <2>2. result' \in {"cancelled", "unsolved", "error", "refuted"}
    BY <1>6 DEF ReconstructAnswer, Poll, Return
  <2> QED
    BY <2>1, <2>2, SeenEnd, SeenRefuted
<1>7. CASE FallbackAnswer
  BY <1>7, FallbackSeen
<1>8. CASE DirectAnswer
  BY <1>8, DirectSeen
<1>9. CASE NoStep
  <2>1. pc = "direct" /\ pc \in Asking /\ ~Induction /\ Query = "noexec"
    BY <1>9 DEF NoStep, Asking, SeenPart, ModePart
  <2>2. Query \notin Traced \ {"hardsize"}
    BY <2>1 DEF Traced, Decided
  <2>3. ~Undisturbed
    BY <2>1, <2>2, QueryIn DEF Undisturbed
  <2> QED
    BY <1>9, <2>3, SeenPass DEF NoStep, Return
<1>10. CASE StopWatcher
  BY <1>10
  DEF StopWatcher, SeenPart, ModePart, ListPart, FallbackPart, DirectPart, ReconstructPart,
      VerdictRight, Undisturbed, Induction, AllIn, Several
<1>11. ASSUME NEW r \in Checks, Cancel(r) \/ Select(r) PROVE SeenPart'
  BY <1>11, SeenFrame DEF Cancel, Select
<1>12. ASSUME NEW r \in Checks, Interrupt(r) PROVE SeenPart'
  BY <1>12, InterruptSeen
<1>13. CASE UNCHANGED vars
  BY <1>13, SeenFrame DEF vars, session
<1>14. CASE PassOver
  BY <1>14, PassOverSeen
<1> QED
  BY <1>1, <1>2, <1>3, <1>4, <1>5, <1>6, <1>7, <1>8, <1>9, <1>10, <1>11, <1>12,
     <1>13, <1>14 DEF Next, Check, Watcher

(* A conjecture reported as refuted has a counterexample, and an undisturbed *)
(* check that passes has checked everything: for any number of checks, any   *)
(* lists of queries and any clients that leave.                              *)
THEOREM VerdictIsRight == Spec => []VerdictRight
<1>1. SeenPart => VerdictRight
  BY DEF SeenPart
<1> QED
  BY TypedInit, TypedStep, WatchInit, WatchStep, SeenInit, SeenStep, <1>1, PTL DEF Spec

-----------------------------------------------------------------------------
(* The check ends with a verdict: it was not cancelled when it polled last,  *)
(* so its own watcher has not interrupted anything.                          *)
LEMMA CancelEnd ==
  ASSUME Typed, WatchPart, UNCHANGED <<n, job, ctx, hits>>,
         result' = "cancelled" => Cancelled,
         Induction => result' = "cancelled" \/ ~Cancelled \/ hits = {}
  PROVE  CancelledIsOwn'
BY DEF WatchPart, CancelledIsOwn, Cancelled, Induction

(* The check goes on. *)
LEMMA CancelFrame ==
  ASSUME Typed, result' = "none"
  PROVE  CancelledIsOwn'
BY DEF CancelledIsOwn

LEMMA CancelStep ==
  Typed /\ WatchPart /\ SeenPart /\ CancelledIsOwn /\ [Next]_vars => CancelledIsOwn'
<1> SUFFICES ASSUME Typed, WatchPart, SeenPart, CancelledIsOwn, [Next]_vars PROVE CancelledIsOwn'
  OBVIOUS
<1>1. CASE Begin
  BY <1>1, CancelFrame DEF Begin
<1>2. CASE Start \/ Recompute \/ Conjectures \/ BuildArt
  <2>1. result = "none" /\ hits = {} /\ UNCHANGED <<n, job, ctx, hits>>
    BY <1>2 DEF Start, Recompute, Conjectures, BuildArt, watching, Typed, WatchPart, Preparing
  <2>2. result' = "cancelled" => Cancelled
    BY <1>2, <2>1
    DEF Start, Recompute, Conjectures, BuildArt, PollInduction, Poll, Return, Goto
  <2> QED
    BY <2>1, <2>2, CancelEnd
<1>3. CASE Ask \/ ListAnswer \/ ReconstructAnswer \/ FallbackAnswer \/ PassOver
  <2>1. result = "none" /\ UNCHANGED <<n, job, ctx, hits>>
    BY <1>3 DEF Ask, ListAnswer, ReconstructAnswer, FallbackAnswer, PassOver, watching, Typed
  <2>2. CASE result' = "none"
    BY <2>2, CancelFrame
  <2>3. CASE result' # "none"
    <3>1. CASE Ask
      BY <2>1, <2>3, <3>1, CancelEnd DEF Ask, Return
    <3>2. CASE ListAnswer
      <4>1. IF Cancelled THEN result' = "cancelled" ELSE result' = "pass"
        BY <2>1, <2>3, <3>2 DEF ListAnswer, NextInList, Poll, Return, Goto
      <4> QED
        BY <2>1, <4>1, CancelEnd
    <3>3. CASE ReconstructAnswer
      <4>1. IF Cancelled THEN result' = "cancelled"
                         ELSE result' \in {"unsolved", "error", "refuted"}
        BY <3>3 DEF ReconstructAnswer, Poll, Return
      <4> QED
        BY <2>1, <4>1, CancelEnd
    <3>4. CASE FallbackAnswer
      <4>1. IF Cancelled THEN result' = "cancelled"
                         ELSE result' \in {"none", "pass", "unsolved", "error", "refuted"}
        BY <2>1, <3>4 DEF FallbackAnswer, Advance, Return
      <4> QED
        BY <2>1, <4>1, CancelEnd
    <3>5. CASE PassOver
      <4>1. CASE pc = "direct"
        <5>1. ~Induction /\ result' # "cancelled"
          BY <2>1, <3>5, <4>1 DEF PassOver, Advance, Return, SeenPart, ModePart
        <5> QED
          BY <2>1, <5>1, CancelEnd
      <4>2. CASE pc # "direct"
        <5>1. IF Cancelled THEN result' = "cancelled" ELSE result' = "pass"
          BY <2>1, <2>3, <3>5, <4>2 DEF PassOver, NextInList, Advance, Poll, Return
        <5> QED
          BY <2>1, <5>1, CancelEnd
      <4> QED
        BY <4>1, <4>2
    <3> QED
      BY <1>3, <3>1, <3>2, <3>3, <3>4, <3>5
  <2> QED
    BY <2>2, <2>3
<1>4. CASE DirectAnswer \/ NoStep
  <2>1. result = "none" /\ ~Induction /\ UNCHANGED <<n, job, ctx, hits>>
    BY <1>4 DEF DirectAnswer, NoStep, watching, Typed, SeenPart, ModePart
  <2>2. result' # "cancelled"
    BY <1>4, <2>1 DEF DirectAnswer, NoStep, Advance, Return
  <2> QED
    BY <2>1, <2>2, CancelEnd
<1>5. CASE StopWatcher
  BY <1>5 DEF StopWatcher, CancelledIsOwn, Induction
<1>6. ASSUME NEW r \in Checks, Cancel(r) PROVE CancelledIsOwn'
  <2>1. result # "none" => n \in Checks
    BY DEF Typed
  <2>2. \A q \in Checks : ctx[q] = "done" => ctx'[q] = "done"
    BY <1>6 DEF Cancel, Typed, TypeOK
  <2> QED
    BY <1>6, <2>1, <2>2 DEF Cancel, session, CancelledIsOwn, Induction
<1>7. ASSUME NEW r \in Checks, Select(r) PROVE CancelledIsOwn'
  BY <1>7 DEF Select, session, CancelledIsOwn, Induction
<1>8. ASSUME NEW r \in Checks, Interrupt(r) PROVE CancelledIsOwn'
  <2>1. CASE z3 = "idle"
    BY <1>8, <2>1 DEF Interrupt, session, CancelledIsOwn, Induction
  <2>2. CASE z3 # "idle"
    <3>1. result' = "none"
      BY <1>8, <2>2 DEF Interrupt, session, Typed, TypeOK, Asking
    <3> QED
      BY <3>1, CancelFrame
  <2> QED
    BY <2>1, <2>2
<1>9. CASE UNCHANGED vars
  BY <1>9 DEF vars, CancelledIsOwn, Induction
<1> QED
  BY <1>1, <1>2, <1>3, <1>4, <1>5, <1>6, <1>7, <1>8, <1>9 DEF Next, Check, Watcher

(* "cancelled" is the client's own doing, and an induction check whose own   *)
(* watcher cut off a query says nothing else.                                *)
THEOREM CancellationIsOwn == Spec => []CancelledIsOwn
<1>1. Init => CancelledIsOwn
  BY DEF Init, CancelledIsOwn
<1> QED
  BY TypedInit, TypedStep, WatchInit, WatchStep, SeenInit, SeenStep, <1>1, CancelStep, PTL DEF Spec
=============================================================================
