-------------------------- MODULE FinalCondsProofs --------------------------
(***************************************************************************)
(* Proofs about FinalConds, for any formulas and lists of any length: the  *)
(* verdicts and the model of GetSmallModelWithCond are exact.  The         *)
(* inductive invariant says what the solver holds at each control point:   *)
(* one scope with the formula and what was assumed, and above it, while a  *)
(* condition is being decided, the scope of that condition.                *)
(***************************************************************************)
EXTENDS FinalConds, SequenceTheorems, TLAPS

InList == k \in 1..Len(vc.fcs)
Failing == Assumed(k) \cap vc.fcs[k].models

(* What the solver holds, and what a fresh one would.                        *)
LoopInv ==
  /\ Replay = Assumed(k)
  /\ pc \in {"start", "loop", "decide"} => overall = "unsat"
  /\ pc = "start" => Assumed(k) = vc.base
  /\ pc = "loop" => vc.asked /\ (vc.incremental => stack = << Assumed(k) >>)

DecideInv ==
  /\ pc = "decide" /\ vc.asked =>
       /\ InList /\ IsChecked(k)
       /\ stack = IF vc.incremental THEN << Assumed(k), Failing >>
                                    ELSE << Failing >>
  /\ pc = "decide" /\ ~vc.asked => stack = << vc.base >>

(* From the failure on, every scope left to fall back to is below the        *)
(* formula and the failing condition.                                        *)
ModelInv ==
  /\ (pc = "after" /\ overall = "sat") \/ pc \in {"shrink", "sized"} =>
       /\ stack # << >> /\ Top(stack) \subseteq Candidates
       /\ vc.asked => InList
  /\ pc = "sized" =>
       /\ Len(stack) > 1 /\ stack[Len(stack) - 1] \subseteq Candidates
       /\ x <= NMeasures
  /\ out # "none" => pc = "done"

(* No checker has an answer before its turn.                                 *)
UndecidedInv ==
  pc \in {"start", "loop", "decide"} => \A i \in k..Len(vc.fcs) : ~failed[i]

IInv ==
  /\ TypeOK /\ LoopInv /\ DecideInv /\ ModelInv /\ UndecidedInv
  /\ VerdictExact /\ ModelIsCounterexample

-----------------------------------------------------------------------------
(* What a condition is checked against grows by the assumptions only.        *)
LEMMA NextAssumed ==
  ASSUME TypeOK, InList
  PROVE  Assumed(k + 1) = IF fc.assume /\ fc.form = "clauses"
                            THEN Assumed(k) \cap fc.models ELSE Assumed(k)
<1>1. \A j : j \in 1..((k + 1) - 1) <=> j \in 1..(k - 1) \/ j = k
  BY DEF TypeOK, InList
<1> QED BY <1>1 DEF Assumed, fc

(* A fresh solver holds what was assumed, the last of it included.           *)
LEMMA ReplayGrows ==
  ASSUME TypeOK, NEW f \in SUBSET Models, assumes' = Append(assumes, f), vc' = vc
  PROVE  Replay' = Replay \cap f
<1>1. Len(assumes') = Len(assumes) + 1 /\ Len(assumes) \in Nat
  BY DEF TypeOK
<1>2. \A i \in 1..Len(assumes) : assumes'[i] = assumes[i]
  BY DEF TypeOK
<1>3. assumes'[Len(assumes) + 1] = f
  BY DEF TypeOK
<1>4. \A i : i \in 1..Len(assumes') <=> i \in 1..Len(assumes) \/ i = Len(assumes) + 1
  BY <1>1
<1> QED BY <1>1, <1>2, <1>3, <1>4 DEF Replay

(* While the call does not change, neither does what it is about.            *)
LEMMA CallStays ==
  ASSUME vc' = vc
  PROVE  /\ \A i : Assumed(i)' = Assumed(i)
         /\ \A i : IsChecked(i)' = IsChecked(i)
         /\ \A i : Satisfiable(i)' = Satisfiable(i)
BY DEF Assumed, IsChecked, Satisfiable

(* The solver of the next condition has one scope: the formula and what was  *)
(* assumed.                                                                  *)
LEMMA SolverHolds ==
  ASSUME LoopInv, pc = "loop"
  PROVE  Solver = << Assumed(k) >>
BY DEF LoopInv, Solver

(* The formulas of a call are sets of models.                                *)
LEMMA CallFacts ==
  ASSUME TypeOK
  PROVE  /\ vc.base \in SUBSET Models
         /\ Len(vc.fcs) \in Nat
         /\ \A i \in 1..Len(vc.fcs) : vc.fcs[i].models \in SUBSET Models
         /\ \A i : Assumed(i) \in SUBSET Models
<1>1. vc.base \in SUBSET Models /\ vc.fcs \in Seq(FinalCond)
  BY DEF TypeOK, CallType
<1>2. \A i \in 1..Len(vc.fcs) : vc.fcs[i] \in FinalCond
  BY <1>1
<1> QED BY <1>1, <1>2 DEF FinalCond, Assumed

(* Solvers with one scope and with two.                                      *)
LEMMA Scopes ==
  ASSUME NEW S, NEW e \in S
  PROVE  /\ << e >> \in Seq(S) /\ Len(<< e >>) = 1 /\ << e >>[1] = e
         /\ \A f \in S : /\ << e, f >> \in Seq(S)
                         /\ Len(<< e, f >>) = 2 /\ << e, f >>[2] = f
OBVIOUS

(* What the solver's operations do to its scopes.                            *)
LEMMA SolverOps ==
  ASSUME NEW s \in Seq(SUBSET Models), s # << >>, NEW f \in SUBSET Models
  PROVE  /\ Top(s) \in SUBSET Models
         /\ Assert(s, f) \in Seq(SUBSET Models)
         /\ Len(Assert(s, f)) = Len(s) /\ Top(Assert(s, f)) = Top(s) \cap f
         /\ \A i \in 1..(Len(s) - 1) : Assert(s, f)[i] = s[i]
         /\ Push(s) \in Seq(SUBSET Models) /\ Push(s) # << >>
         /\ Len(Push(s)) = Len(s) + 1 /\ Top(Push(s)) = Top(s)
         /\ Push(s)[Len(s)] = Top(s)
         /\ Len(s) > 1 => /\ Pop(s) \in Seq(SUBSET Models) /\ Pop(s) # << >>
                          /\ Top(Pop(s)) = s[Len(s) - 1]
<1>1. Len(s) \in Nat /\ Len(s) > 0
  OBVIOUS
<1>2. Top(s) \in SUBSET Models
  BY <1>1 DEF Top
<1>3. /\ Assert(s, f) \in Seq(SUBSET Models)
      /\ Len(Assert(s, f)) = Len(s) /\ Top(Assert(s, f)) = Top(s) \cap f
      /\ \A i \in 1..(Len(s) - 1) : Assert(s, f)[i] = s[i]
  BY <1>1, <1>2 DEF Top, Assert
<1>4. /\ Push(s) \in Seq(SUBSET Models) /\ Push(s) # << >>
      /\ Len(Push(s)) = Len(s) + 1 /\ Top(Push(s)) = Top(s)
      /\ Push(s)[Len(s)] = Top(s)
  BY <1>1, <1>2 DEF Top, Push
<1>5. Len(s) > 1 => /\ Pop(s) \in Seq(SUBSET Models) /\ Pop(s) # << >>
                    /\ Top(Pop(s)) = s[Len(s) - 1]
  <2> SUFFICES ASSUME Len(s) > 1
               PROVE  /\ Pop(s) \in Seq(SUBSET Models) /\ Pop(s) # << >>
                      /\ Top(Pop(s)) = s[Len(s) - 1]
    OBVIOUS
  <2>1. /\ Pop(s) \in Seq(SUBSET Models)
        /\ Len(Pop(s)) = Len(s) - 1
        /\ \A i \in 1..(Len(s) - 1) : Pop(s)[i] = s[i]
    <3>1. \A i \in 1..(Len(s) - 1) : s[i] \in SUBSET Models
      BY <1>1, ElementOfSeq
    <3>2. /\ Pop(s) \in Seq(SUBSET Models)
          /\ Len(Pop(s)) = IF 1 <= Len(s) - 1 THEN (Len(s) - 1) - 1 + 1 ELSE 0
          /\ \A i \in 1..((Len(s) - 1) - 1 + 1) : Pop(s)[i] = s[1 + i - 1]
      BY ONLY <1>1, <3>1, SubSeqProperties DEF Pop
    <3>3. \A i \in 1..(Len(s) - 1) : 1 + i - 1 = i /\ i \in 1..((Len(s) - 1) - 1 + 1)
      BY <1>1
    <3>4. QED
      BY <1>1, <3>2, <3>3
  <2>2. QED
    BY <1>1, <2>1, EmptySeq DEF Top
<1> QED BY <1>2, <1>3, <1>4, <1>5

(* What is appended to a sequence of one element is the second of two.       *)
LEMMA SecondElement ==
  ASSUME NEW S, NEW t \in Seq(S), Len(t) = 1, NEW e \in S,
         NEW u \in Seq(S), Len(u) = 2, u[1] = t[1], u[2] = e
  PROVE  Append(t, e) = u
<1>1. /\ Append(t, e) \in Seq(S)
      /\ Len(Append(t, e)) = Len(t) + 1
      /\ \A i \in 1..Len(t) : Append(t, e)[i] = t[i]
      /\ Append(t, e)[Len(t) + 1] = e
  BY ONLY t \in Seq(S), e \in S
<1>2. Len(t) + 1 = 2 /\ 1 \in 1..Len(t)
  OBVIOUS
<1>3. Append(t, e)[1] = u[1]
  BY <1>1, <1>2, Zenon
<1>4. Append(t, e)[2] = u[2] /\ Len(Append(t, e)) = Len(u)
  BY <1>1, <1>2, Zenon
<1>5. \A i \in 1..Len(u) : i = 1 \/ i = 2
  OBVIOUS
<1>6. \A i \in 1..Len(u) : Append(t, e)[i] = u[i]
  BY ONLY <1>3, <1>4, <1>5, Zenon
<1> QED BY ONLY <1>1, <1>4, <1>6, u \in Seq(S), SeqEqual, Zenon

(* The same for a solver with one scope.                                     *)
LEMMA OneScope ==
  ASSUME NEW e \in SUBSET Models, NEW f \in SUBSET Models
  PROVE  /\ Assert(<< e >>, f) = << e \cap f >>
         /\ Assert(Push(<< e >>), f) = << e, e \cap f >>
         /\ Pop(<< e, f >>) = << e >>
<1>1. Assert(<< e >>, f) = << e \cap f >>
  BY DEF Assert
<1>2. Push(<< e >>) = << e, e >>
  <2> DEFINE S == SUBSET Models
  <2>1. e \in S
    OBVIOUS
  <2> HIDE DEF S
  <2>2. /\ << e >> \in Seq(S) /\ Len(<< e >>) = 1 /\ << e >>[1] = e
        /\ << e, e >> \in Seq(S) /\ Len(<< e, e >>) = 2
        /\ << e, e >>[1] = e /\ << e, e >>[2] = e
    BY ONLY <2>1
  <2>3. Append(<< e >>, e) = << e, e >>
    BY ONLY <2>1, <2>2, SecondElement
  <2>4. Push(<< e >>) = Append(<< e >>, << e >>[Len(<< e >>)])
    BY DEF Push, Top
  <2>5. << e >>[Len(<< e >>)] = e
    OBVIOUS
  <2>6. QED
    BY ONLY <2>3, <2>4, <2>5, Zenon
<1>3. Assert(<< e, e >>, f) = << e, e \cap f >>
  <2> DEFINE t == << e, e >>
             u == << e, e \cap f >>
  <2>1. /\ t \in Seq(SUBSET Models) /\ t # << >> /\ Len(t) = 2 /\ t[1] = e /\ t[2] = e
        /\ u \in Seq(SUBSET Models) /\ Len(u) = 2 /\ u[1] = e /\ u[2] = e \cap f
    OBVIOUS
  <2>2. /\ Assert(t, f) \in Seq(SUBSET Models) /\ Len(Assert(t, f)) = 2
        /\ Assert(t, f)[1] = e /\ Assert(t, f)[2] = e \cap f
    <3> HIDE DEF t, u
    <3>1. /\ Assert(t, f) \in Seq(SUBSET Models) /\ Len(Assert(t, f)) = Len(t)
          /\ Top(Assert(t, f)) = Top(t) \cap f
          /\ \A i \in 1..(Len(t) - 1) : Assert(t, f)[i] = t[i]
      BY <2>1, SolverOps
    <3>2. QED
      BY <2>1, <3>1 DEF Top
  <2> HIDE DEF t, u
  <2>3. \A i \in 1..2 : i = 1 \/ i = 2
    OBVIOUS
  <2>4. Assert(t, f) = u
    BY <2>1, <2>2, <2>3, SeqEqual
  <2>5. QED
    BY <2>4 DEF t, u
<1>4. Pop(<< e, f >>) = << e >>
  <2> DEFINE t == << e, f >>
             u == << e >>
  <2>1. /\ t \in Seq(SUBSET Models) /\ Len(t) = 2 /\ t[1] = e
        /\ u \in Seq(SUBSET Models) /\ Len(u) = 1 /\ u[1] = e
    OBVIOUS
  <2> HIDE DEF t, u
  <2>2. /\ Pop(t) \in Seq(SUBSET Models) /\ Len(Pop(t)) = 1 /\ Pop(t)[1] = e
    <3>1. \A i \in 1..1 : t[i] \in SUBSET Models
      BY <2>1
    <3>2. /\ SubSeq(t, 1, 1) \in Seq(SUBSET Models)
          /\ Len(SubSeq(t, 1, 1)) = IF 1 <= 1 THEN 1 - 1 + 1 ELSE 0
          /\ \A i \in 1..(1 - 1 + 1) : SubSeq(t, 1, 1)[i] = t[1 + i - 1]
      BY ONLY <3>1, SubSeqProperties
    <3>3. Pop(t) = SubSeq(t, 1, 1)
      BY <2>1 DEF Pop
    <3>4. QED
      BY <2>1, <3>2, <3>3
  <2>3. Pop(t) = u
    BY <2>1, <2>2, SeqEqual
  <2>4. QED
    BY <2>3 DEF t, u
<1> QED BY <1>1, <1>2, <1>3, <1>4

(* A call starts with an empty solver and no answers.                        *)
LEMMA Initially == Init => IInv
<1> SUFFICES ASSUME Init PROVE IInv
  OBVIOUS
<1>1. vc \in CallType
  BY CallAssumption DEF Init
<1>2. TypeOK
  <2>1. Len(vc.fcs) \in Nat
    BY <1>1 DEF CallType
  <2>2. QED
    BY <1>1, <2>1, MeasureAssumption DEF Init, TypeOK, PCs
<1>3. LoopInv
  BY DEF Init, LoopInv, Replay, Assumed
<1>4. DecideInv /\ ModelInv /\ UndecidedInv /\ ModelIsCounterexample
  BY <1>1 DEF Init, DecideInv, ModelInv, UndecidedInv, ModelIsCounterexample, CallType
<1>5. VerdictExact
  BY <1>1 DEF Init, VerdictExact, CallType
<1> QED BY <1>2, <1>3, <1>4, <1>5 DEF IInv

(* A step that neither moves on in the list nor reports anything leaves the  *)
(* verdicts alone.                                                           *)
LEMMA VerdictsStay ==
  ASSUME IInv, vc' = vc, k' = k, failed' = failed
  PROVE  VerdictExact'
<1> USE CallStays
<1> QED BY DEF IInv, VerdictExact

(* While nothing is assumed, a fresh solver holds the same.                  *)
LEMMA ReplayStays ==
  ASSUME IInv, vc' = vc, k' = k, assumes' = assumes
  PROVE  Replay' = Assumed(k)'
<1>1. Assumed(k)' = Assumed(k)
  BY CallStays DEF Assumed
<1> QED BY <1>1 DEF IInv, LoopInv, Replay

-----------------------------------------------------------------------------
(* The first step: the solver holds the formula.                             *)
LEMMA StartKeeps == IInv /\ Start => IInv'
<1> SUFFICES ASSUME IInv, Start PROVE IInv'
  OBVIOUS
<1> USE DEF Start
<1>0. /\ TypeOK /\ vc.base \in SUBSET Models
      /\ out = "none" /\ Assumed(k) = vc.base
      /\ \A i : Assumed(i)' = Assumed(i)
  BY CallFacts, CallStays DEF IInv, ModelInv, LoopInv
<1>1. TypeOK'
  <2>1. stack' \in Seq(SUBSET Models)
    <3>1. stack \in Seq(SUBSET Models)
      BY <1>0 DEF TypeOK
    <3>2. << vc.base >> \in Seq(SUBSET Models)
      BY <1>0, Scopes
    <3>3. stack' = stack \/ stack' = << vc.base >>
      OBVIOUS
    <3>4. QED
      BY <3>1, <3>2, <3>3
  <2>2. pc' \in PCs /\ out' \in {"none", "nil", "model", "error"}
    BY <1>0 DEF PCs
  <2>3. QED
    BY <1>0, <2>1, <2>2 DEF TypeOK
<1>2. LoopInv'
  BY <1>0, ReplayStays DEF IInv, LoopInv
<1>3. DecideInv' /\ ModelInv' /\ ModelIsCounterexample' /\ UndecidedInv'
  BY <1>0 DEF IInv, DecideInv, ModelInv, ModelIsCounterexample, UndecidedInv
<1>4. VerdictExact'
  BY VerdictsStay
<1> QED BY <1>1, <1>2, <1>3, <1>4 DEF IInv

(* What the invariant says before a condition is looked at.                  *)
LEMMA AtCond ==
  ASSUME IInv, pc = "loop", k <= Len(vc.fcs)
  PROVE  /\ InList /\ TypeOK /\ vc.asked /\ out = "none"
         /\ Solver = << Assumed(k) >>
         /\ Assumed(k) \in SUBSET Models /\ fc.models \in SUBSET Models
         /\ k + 1 \in 1..(Len(vc.fcs) + 1)
<1>1. TypeOK /\ LoopInv /\ ModelInv
  BY DEF IInv
<1>2. InList /\ k + 1 \in 1..(Len(vc.fcs) + 1)
  BY <1>1, CallFacts DEF TypeOK, InList
<1> QED BY <1>1, <1>2, CallFacts, SolverHolds DEF LoopInv, ModelInv, InList, fc

(* Moving on from a condition that was not checked.                          *)
LEMMA UncheckedMovesOn ==
  ASSUME IInv, pc = "loop", InList, ~IsChecked(k),
         k' = k + 1, vc' = vc, failed' = failed, pc' = pc
  PROVE  VerdictExact' /\ UndecidedInv'
<1>1. k \in Nat /\ Len(vc.fcs) \in Nat /\ k' = k + 1
  BY CallFacts DEF IInv, TypeOK
<1>2. \A i \in 1..Len(vc.fcs) : i < k + 1 => i < k \/ i = k
  BY <1>1
<1>3. VerdictExact'
  BY <1>2, CallStays DEF IInv, VerdictExact
<1>4. UndecidedInv'
  BY <1>1 DEF IInv, UndecidedInv
<1> QED BY <1>3, <1>4

(* An assumed condition joins the solver and the replay alike.               *)
LEMMA AssumeKeeps == IInv /\ AssumeCond => IInv'
<1> SUFFICES ASSUME IInv, AssumeCond PROVE IInv'
  OBVIOUS
<1>0. /\ pc = "loop" /\ k <= Len(vc.fcs) /\ fc.assume /\ fc.form = "clauses"
      /\ stack' = Assert(Solver, fc.models) /\ assumes' = Append(assumes, fc.models)
      /\ k' = k + 1 /\ vc' = vc /\ failed' = failed /\ pc' = pc /\ overall' = overall
      /\ x' = x /\ n' = n /\ left' = left /\ out' = out /\ model' = model
  BY DEF AssumeCond
<1>1. /\ InList /\ TypeOK /\ vc.asked /\ out = "none"
      /\ Solver = << Assumed(k) >>
      /\ Assumed(k) \in SUBSET Models /\ fc.models \in SUBSET Models
      /\ k + 1 \in 1..(Len(vc.fcs) + 1)
  BY <1>0, AtCond
<1>2. Assumed(k') = Assumed(k) \cap fc.models /\ Assumed(k)' = Assumed(k')
  BY <1>0, <1>1, NextAssumed, CallStays DEF Assumed
<1>3. stack' = << Assumed(k)' >>
  <2>1. stack' = Assert(<< Assumed(k) >>, fc.models)
    BY <1>0, <1>1
  <2>2. Assert(<< Assumed(k) >>, fc.models) = << Assumed(k) \cap fc.models >>
    BY <1>1, OneScope
  <2>3. Assumed(k)' = Assumed(k) \cap fc.models
    BY <1>2
  <2>4. QED
    BY <2>1, <2>2, <2>3
<1>4. TypeOK'
  <2>1. assumes' \in Seq(SUBSET Models)
    BY <1>0, <1>1, AppendProperties DEF TypeOK
  <2>2. stack' \in Seq(SUBSET Models)
    BY <1>1, <1>2, <1>3, Scopes
  <2>3. QED
    BY <1>0, <1>1, <2>1, <2>2 DEF TypeOK
<1>5. LoopInv'
  <2>1. Replay' = Replay \cap fc.models
    BY <1>0, <1>1, ReplayGrows
  <2>2. QED
    BY <1>0, <1>1, <1>2, <1>3, <2>1 DEF IInv, LoopInv
<1>6. DecideInv' /\ ModelInv' /\ ModelIsCounterexample'
  BY <1>0, <1>1 DEF DecideInv, ModelInv, ModelIsCounterexample
<1>7. VerdictExact' /\ UndecidedInv'
  BY <1>0, <1>1, UncheckedMovesOn DEF IsChecked, fc
<1> QED BY <1>4, <1>5, <1>6, <1>7 DEF IInv

(* A condition that is skipped leaves the solver alone.                      *)
LEMMA SkipKeeps == IInv /\ SkipCond => IInv'
<1> SUFFICES ASSUME IInv, SkipCond PROVE IInv'
  OBVIOUS
<1>0. /\ pc = "loop" /\ k <= Len(vc.fcs) /\ fc.form # "clauses"
      /\ stack' = Solver /\ assumes' = assumes
      /\ k' = k + 1 /\ vc' = vc /\ failed' = failed /\ pc' = pc /\ overall' = overall
      /\ x' = x /\ n' = n /\ left' = left /\ out' = out /\ model' = model
  BY DEF SkipCond
<1>1. /\ InList /\ TypeOK /\ vc.asked /\ out = "none"
      /\ Solver = << Assumed(k) >> /\ Assumed(k) \in SUBSET Models
      /\ k + 1 \in 1..(Len(vc.fcs) + 1)
  BY <1>0, AtCond
<1>2. Assumed(k') = Assumed(k) /\ Assumed(k)' = Assumed(k')
  BY <1>0, <1>1, NextAssumed, CallStays DEF Assumed
<1>4. TypeOK'
  <2>1. stack' \in Seq(SUBSET Models)
    BY <1>0, <1>1, Scopes
  <2>2. QED
    BY <1>0, <1>1, <2>1 DEF TypeOK
<1>5. LoopInv'
  <2>1. Replay' = Replay
    BY <1>0 DEF Replay
  <2>2. QED
    BY <1>0, <1>1, <1>2, <2>1 DEF IInv, LoopInv
<1>6. DecideInv' /\ ModelInv' /\ ModelIsCounterexample'
  BY <1>0, <1>1 DEF DecideInv, ModelInv, ModelIsCounterexample
<1>7. VerdictExact' /\ UndecidedInv'
  BY <1>0, <1>1, UncheckedMovesOn DEF IsChecked, fc
<1> QED BY <1>4, <1>5, <1>6, <1>7 DEF IInv

(* A checked condition is asserted in a scope, or a solver, of its own.      *)
LEMMA CheckKeeps == IInv /\ CheckCond => IInv'
<1> SUFFICES ASSUME IInv, CheckCond PROVE IInv'
  OBVIOUS
<1>0. /\ pc = "loop" /\ k <= Len(vc.fcs) /\ IsChecked(k)
      /\ stack' = Assert(IF vc.incremental THEN Push(Solver) ELSE Solver, fc.models)
      /\ pc' = "decide"
      /\ k' = k /\ vc' = vc /\ failed' = failed /\ assumes' = assumes
      /\ overall' = overall /\ x' = x /\ n' = n /\ left' = left /\ out' = out /\ model' = model
  BY DEF CheckCond, IsChecked, fc
<1>1. /\ InList /\ TypeOK /\ vc.asked /\ out = "none"
      /\ Solver = << Assumed(k) >>
      /\ Assumed(k) \in SUBSET Models /\ fc.models \in SUBSET Models
  BY <1>0, AtCond
<1>2. Failing = Assumed(k) \cap fc.models /\ Failing \in SUBSET Models
  BY <1>1 DEF Failing, fc
<1>3. stack' = IF vc.incremental THEN << Assumed(k), Failing >> ELSE << Failing >>
  BY <1>0, <1>1, <1>2, OneScope
<1>4. TypeOK'
  <2>1. stack' \in Seq(SUBSET Models)
    BY <1>1, <1>2, <1>3, Scopes
  <2>2. QED
    BY <1>0, <1>1, <2>1 DEF TypeOK, PCs
<1>5. LoopInv'
  BY <1>0, ReplayStays DEF IInv, LoopInv
<1>6. DecideInv'
  <2>1. InList' /\ IsChecked(k)' /\ vc'.asked
    BY <1>0, <1>1, CallStays DEF InList, IsChecked
  <2>2. Assumed(k)' = Assumed(k) /\ Failing' = Failing
    BY <1>0, CallStays DEF Failing, Assumed
  <2>3. QED
    BY <1>0, <1>3, <2>1, <2>2 DEF DecideInv
<1>7. ModelInv' /\ ModelIsCounterexample' /\ UndecidedInv'
  BY <1>0, <1>1 DEF IInv, ModelInv, ModelIsCounterexample, UndecidedInv
<1>8. VerdictExact'
  BY <1>0, VerdictsStay
<1> QED BY <1>4, <1>5, <1>6, <1>7, <1>8 DEF IInv

(* A step that only ends the list or the call, without a model.              *)
LEMMA QuietKeeps ==
  ASSUME IInv,
         UNCHANGED <<vc, k, stack, assumes, failed, overall, x, n, left, model>>,
         \/ pc' = "done" /\ out' \in {"nil", "error"}
         \/ pc' = "after" /\ overall = "unsat" /\ out' = out /\ pc # "done"
  PROVE  IInv'
<1>1. TypeOK'
  BY DEF IInv, TypeOK, PCs
<1>2. LoopInv'
  BY ReplayStays DEF LoopInv
<1>3. DecideInv' /\ ModelInv' /\ ModelIsCounterexample' /\ UndecidedInv'
  BY DEF IInv, DecideInv, ModelInv, ModelIsCounterexample, UndecidedInv
<1>4. VerdictExact'
  BY VerdictsStay
<1> QED BY <1>1, <1>2, <1>3, <1>4 DEF IInv

(* An unknown answer ends the call with an error.                            *)
LEMMA GiveUpKeeps == IInv /\ GiveUp => IInv'
BY QuietKeeps DEF GiveUp

(* The end of the list: every failure was ignored.                           *)
LEMMA EndOfListKeeps == IInv /\ EndOfList => IInv'
BY QuietKeeps DEF EndOfList, IInv, LoopInv

(* The list is over: with sat, the solver is below the condition that failed.*)
LEMMA AfterListKeeps == IInv /\ AfterList => IInv'
<1> SUFFICES ASSUME IInv, AfterList PROVE IInv'
  OBVIOUS
<1>1. CASE overall = "unsat"
  BY <1>1, QuietKeeps DEF AfterList
<1>2. CASE overall = "sat"
  <2>0. /\ pc = "after" /\ pc' = "shrink" /\ out' = out
        /\ UNCHANGED <<vc, k, stack, assumes, overall, failed, x, n, left, model>>
    BY <1>2 DEF AfterList
  <2>1. TypeOK'
    BY <2>0 DEF IInv, TypeOK, PCs
  <2>2. LoopInv'
    BY <2>0, ReplayStays DEF LoopInv
  <2>3. Candidates' = Candidates /\ Top(stack)' = Top(stack) /\ InList' = InList
    BY <2>0, CallStays DEF Candidates, Assumed, Top, InList
  <2>4. ModelInv'
    BY <1>2, <2>0, <2>3 DEF IInv, ModelInv
  <2>5. DecideInv' /\ ModelIsCounterexample' /\ UndecidedInv'
    BY <2>0 DEF IInv, ModelInv, DecideInv, ModelIsCounterexample, UndecidedInv
  <2>6. VerdictExact'
    BY <2>0, VerdictsStay
  <2> QED BY <2>1, <2>2, <2>4, <2>5, <2>6 DEF IInv
<1> QED BY <1>1, <1>2 DEF IInv, TypeOK

(* Without a list, the formula itself is decided.                            *)
LEMMA DecideBaseKeeps == IInv /\ DecideBase => IInv'
<1> SUFFICES ASSUME IInv, DecideBase PROVE IInv'
  OBVIOUS
<1>0. /\ pc = "decide" /\ ~vc.asked /\ pc' = "after" /\ stack = << vc.base >>
      /\ overall' = IF Top(stack) = {} THEN "unsat" ELSE "sat"
      /\ UNCHANGED <<vc, k, stack, assumes, failed, x, n, left, out, model>>
  BY DEF DecideBase, IInv, DecideInv
<1>1. TypeOK'
  BY <1>0 DEF IInv, TypeOK, PCs
<1>2. LoopInv'
  BY <1>0, ReplayStays DEF IInv, LoopInv
<1>3. ModelInv'
  <2>1. stack' # << >> /\ Top(stack)' = vc.base /\ Candidates' = vc.base
    BY <1>0 DEF Top, Candidates
  <2>2. QED
    BY <1>0, <2>1 DEF IInv, ModelInv
<1>4. DecideInv' /\ ModelIsCounterexample' /\ UndecidedInv'
  BY <1>0 DEF IInv, ModelInv, DecideInv, ModelIsCounterexample, UndecidedInv
<1>5. VerdictExact'
  BY <1>0, VerdictsStay
<1> QED BY <1>1, <1>2, <1>3, <1>4, <1>5 DEF IInv

(* Moving on from a condition whose answer was reported.                     *)
LEMMA CheckedMovesOn ==
  ASSUME IInv, pc = "decide", InList, vc.asked, vc' = vc, k' = k + 1,
         pc' = "loop", overall' = "unsat", out' = out, assumes' = assumes,
         x' = x, n' = n, left' = left, model' = model, stack' = AfterCheck(stack),
         NEW f \in BOOLEAN, failed' = [failed EXCEPT ![k] = f],
         f <=> (Satisfiable(k) <=> ~vc.unprovable)
  PROVE  IInv'
<1>0. /\ k \in Nat /\ Len(vc.fcs) \in Nat /\ k + 1 \in 1..(Len(vc.fcs) + 1)
      /\ TypeOK /\ out = "none" /\ IsChecked(k) /\ k \in 1..Len(vc.fcs)
      /\ Assumed(k) \in SUBSET Models /\ Failing \in SUBSET Models
  BY CallFacts DEF IInv, TypeOK, InList, ModelInv, DecideInv, Failing
<1>1. /\ failed' \in [1..Len(vc.fcs) -> BOOLEAN] /\ failed'[k] = f
      /\ \A i \in 1..Len(vc.fcs) : i # k => failed'[i] = failed[i]
  BY <1>0 DEF TypeOK
<1>2. stack' = IF vc.incremental THEN << Assumed(k) >> ELSE << Failing >>
  BY <1>0, OneScope DEF IInv, DecideInv, AfterCheck
<1>3. TypeOK'
  <2>0. << Assumed(k) >> \in Seq(SUBSET Models) /\ << Failing >> \in Seq(SUBSET Models)
    BY <1>0, Scopes
  <2>1. stack' \in Seq(SUBSET Models)
    BY <1>2, <2>0
  <2>2. QED
    BY <1>0, <1>1, <2>1 DEF TypeOK, PCs
<1>4. LoopInv'
  <2>1. Assumed(k + 1) = Assumed(k)
    BY <1>0, NextAssumed DEF IsChecked, fc
  <2>3. Assumed(k)' = Assumed(k + 1)
    BY DEF Assumed
  <2>2. Replay' = Replay
    BY DEF Replay
  <2>4. QED
    BY <1>2, <2>1, <2>2, <2>3 DEF IInv, LoopInv
<1>5. DecideInv' /\ ModelInv' /\ ModelIsCounterexample'
  BY <1>0 DEF DecideInv, ModelInv, ModelIsCounterexample
<1>6. UndecidedInv'
  <2>1. \A i \in (k + 1)..Len(vc.fcs) : i \in k..Len(vc.fcs) /\ i \in 1..Len(vc.fcs) /\ i # k
    BY <1>0
  <2>2. QED
    BY <1>1, <2>1 DEF IInv, UndecidedInv
<1>7. VerdictExact'
  <2>1. \A i \in 1..Len(vc.fcs) : i < k + 1 => i < k \/ i = k
    BY <1>0
  <2>2. QED
    BY <1>0, <1>1, <2>1, CallStays DEF IInv, VerdictExact
<1> QED BY <1>3, <1>4, <1>5, <1>6, <1>7 DEF IInv

(* The solver decides the k-th condition, and nothing else.                  *)
LEMMA DecidesCond ==
  ASSUME IInv, pc = "decide", vc.asked
  PROVE  /\ InList /\ ~failed[k] /\ (Top(stack) # {} <=> Satisfiable(k))
         /\ stack # << >> /\ Top(stack) = Failing
<1>1. /\ InList /\ Failing \in SUBSET Models /\ Assumed(k) \in SUBSET Models
      /\ k \in k..Len(vc.fcs)
  BY CallFacts DEF IInv, DecideInv, Failing, InList, TypeOK
<1>2. stack # << >> /\ Top(stack) = Failing
  <2>1. stack = IF vc.incremental THEN << Assumed(k), Failing >> ELSE << Failing >>
    BY DEF IInv, DecideInv
  <2>2. /\ Len(<< Failing >>) = 1 /\ << Failing >>[1] = Failing
        /\ Len(<< Assumed(k), Failing >>) = 2 /\ << Assumed(k), Failing >>[2] = Failing
    OBVIOUS
  <2>3. Top(<< Failing >>) = Failing /\ Top(<< Assumed(k), Failing >>) = Failing
    BY ONLY <2>2 DEF Top
  <2>4. << Failing >> # << >> /\ << Assumed(k), Failing >> # << >>
    OBVIOUS
  <2>5. CASE vc.incremental
    BY ONLY <2>1, <2>3, <2>4, <2>5
  <2>6. CASE ~vc.incremental
    BY ONLY <2>1, <2>3, <2>4, <2>6
  <2>7. QED
    BY <2>5, <2>6
<1>3. ~failed[k]
  BY <1>1 DEF IInv, UndecidedInv
<1> QED BY <1>1, <1>2, <1>3 DEF Failing, Satisfiable

(* An unsatisfiable condition is reported and popped.                        *)
LEMMA UnsatKeeps == IInv /\ Unsat => IInv'
<1> SUFFICES ASSUME IInv, Unsat PROVE IInv'
  OBVIOUS
<1>1. /\ pc = "decide" /\ vc.asked /\ Top(stack) = {}
      /\ failed' = [failed EXCEPT ![k] = failed[k] \/ vc.unprovable]
      /\ vc' = vc /\ k' = k + 1 /\ pc' = "loop" /\ overall' = "unsat" /\ out' = out
      /\ assumes' = assumes /\ x' = x /\ n' = n /\ left' = left /\ model' = model
      /\ stack' = AfterCheck(stack)
  BY DEF Unsat
<1>2. InList /\ ~failed[k] /\ ~Satisfiable(k)
  BY <1>1, DecidesCond
<1>3. (failed[k] \/ vc.unprovable) \in BOOLEAN
  OBVIOUS
<1> QED BY <1>1, <1>2, <1>3, CheckedMovesOn

(* A satisfiable one is popped too, unless the call stops at it.             *)
LEMMA SatKeeps == IInv /\ Sat => IInv'
<1> SUFFICES ASSUME IInv, Sat PROVE IInv'
  OBVIOUS
<1>1. /\ pc = "decide" /\ vc.asked /\ Top(stack) # {}
      /\ failed' = [failed EXCEPT ![k] = failed[k] \/ ~vc.unprovable]
      /\ vc' = vc /\ out' = out /\ assumes' = assumes
      /\ x' = x /\ n' = n /\ left' = left /\ model' = model
  BY DEF Sat
<1>2. /\ InList /\ ~failed[k] /\ Satisfiable(k)
      /\ stack # << >> /\ Top(stack) = Failing
  BY <1>1, DecidesCond
<1>3. CASE SatContinues
  <2>1. /\ overall' = "unsat" /\ stack' = AfterCheck(stack)
        /\ k' = k + 1 /\ pc' = "loop"
    BY <1>3 DEF Sat
  <2>2. (failed[k] \/ ~vc.unprovable) \in BOOLEAN
    OBVIOUS
  <2> QED BY <1>1, <1>2, <2>1, <2>2, CheckedMovesOn
<1>4. CASE ~SatContinues
  <2>0. /\ overall' = "sat" /\ pc' = "after" /\ stack' = stack /\ k' = k
        /\ ~vc.unprovable /\ TypeOK /\ out = "none"
    BY <1>1, <1>4 DEF Sat, SatContinues, IInv, ModelInv
  <2>1. /\ failed' \in [1..Len(vc.fcs) -> BOOLEAN] /\ failed'[k]
        /\ \A i \in 1..Len(vc.fcs) : i # k => failed'[i] = failed[i]
    BY <1>1, <1>2, <2>0 DEF TypeOK, InList
  <2>2. TypeOK'
    BY <1>1, <2>0, <2>1 DEF TypeOK, PCs
  <2>3. LoopInv'
    BY <1>1, <2>0, ReplayStays DEF LoopInv
  <2>4. Candidates' = Failing /\ Top(stack)' = Top(stack) /\ InList'
    BY <1>1, <1>2, <2>0, CallStays DEF Candidates, Failing, Assumed, Top, InList
  <2>5. DecideInv' /\ ModelInv' /\ ModelIsCounterexample' /\ UndecidedInv'
    BY <1>1, <1>2, <2>0, <2>4
    DEF DecideInv, ModelInv, ModelIsCounterexample, UndecidedInv
  <2>6. VerdictExact'
    <3>1. IsChecked(k) /\ k \in Nat /\ Len(vc.fcs) \in Nat
      BY <1>1, <2>0, CallFacts DEF IInv, DecideInv, TypeOK
    <3>2. \A i \in 1..Len(vc.fcs) : i < k => i # k
      BY <3>1
    <3>3. QED
      BY <1>1, <1>2, <2>0, <2>1, <3>1, <3>2, CallStays DEF IInv, VerdictExact
  <2> QED BY <2>2, <2>3, <2>5, <2>6 DEF IInv
<1> QED BY <1>3, <1>4

-----------------------------------------------------------------------------
(* While the size of a model is minimized, the solver only gets stronger,    *)
(* and falls back to what it had before.                                     *)
LEMMA ShrinkKeeps ==
  ASSUME IInv, pc \in {"shrink", "sized"}, pc' \in {"shrink", "sized", "done"},
         UNCHANGED <<vc, k, assumes, overall, failed>>,
         TypeOK',
         pc' = "done" => out' = "model" /\ model' \in Candidates,
         pc' # "done" => /\ out' = out
                         /\ stack' # << >> /\ Top(stack') \subseteq Candidates,
         pc' = "sized" => /\ Len(stack') > 1 /\ x' <= NMeasures
                          /\ stack'[Len(stack') - 1] \subseteq Candidates
  PROVE  IInv'
<1>1. LoopInv'
  BY ReplayStays DEF LoopInv
<1>2. Candidates' = Candidates /\ InList' = InList
  BY CallStays DEF Candidates, Assumed, InList
<1>3. ModelInv'
  BY <1>2 DEF IInv, ModelInv, Top
<1>4. ModelIsCounterexample'
  BY <1>2, CallStays DEF IInv, ModelInv, ModelIsCounterexample, Candidates
<1>5. DecideInv' /\ UndecidedInv'
  BY DEF DecideInv, UndecidedInv
<1>6. VerdictExact'
  BY VerdictsStay
<1> QED BY <1>1, <1>3, <1>4, <1>5, <1>6 DEF IInv

(* What the invariant says while a size is searched for.                     *)
LEMMA AtSize ==
  ASSUME IInv, pc \in {"shrink", "sized"}
  PROVE  /\ TypeOK /\ stack \in Seq(SUBSET Models) /\ stack # << >>
         /\ Len(stack) \in Nat /\ Len(stack) > 0
         /\ Top(stack) \subseteq Candidates /\ out = "none"
         /\ pc = "sized" => /\ Len(stack) > 1 /\ x <= NMeasures
                            /\ stack[Len(stack) - 1] \subseteq Candidates
<1>1. TypeOK /\ stack \in Seq(SUBSET Models) /\ stack # << >>
  BY DEF IInv, TypeOK, ModelInv
<1>2. Len(stack) \in Nat /\ Len(stack) > 0
  BY <1>1, EmptySeq
<1> QED BY <1>1, <1>2 DEF IInv, ModelInv

(* A bound is tried in a scope of its own.                                   *)
LEMMA TrySizeKeeps == IInv /\ TrySize => IInv'
<1> SUFFICES ASSUME IInv, TrySize PROVE IInv'
  OBVIOUS
<1> DEFINE p == Push(stack)
           a == Assert(p, AtMost(n))
<1>0. /\ pc = "shrink" /\ x <= NMeasures /\ stack' = a /\ pc' = "sized"
      /\ UNCHANGED <<vc, k, assumes, overall, failed, x, n, left, out, model>>
  BY DEF TrySize, Minimizing
<1>1. /\ TypeOK /\ stack \in Seq(SUBSET Models) /\ stack # << >>
      /\ Len(stack) \in Nat /\ Len(stack) > 0 /\ Top(stack) \subseteq Candidates
  BY <1>0, AtSize
<1>2. AtMost(n) \in SUBSET Models
  BY DEF AtMost
<1>3. /\ p \in Seq(SUBSET Models) /\ p # << >> /\ Len(p) = Len(stack) + 1
      /\ Top(p) = Top(stack) /\ p[Len(stack)] = Top(stack)
  BY <1>1, <1>2, SolverOps
<1>4. /\ a \in Seq(SUBSET Models) /\ Len(a) = Len(p) /\ Top(a) = Top(p) \cap AtMost(n)
      /\ \A i \in 1..(Len(p) - 1) : a[i] = p[i]
  <2> HIDE DEF p
  <2> QED BY <1>2, <1>3, SolverOps
<1> HIDE DEF p, a
<1>5. /\ a # << >> /\ Len(a) > 1 /\ Top(a) \subseteq Candidates
      /\ a[Len(a) - 1] \subseteq Candidates
  <2>1. Len(a) = Len(stack) + 1 /\ Len(stack) \in 1..(Len(p) - 1)
    BY <1>1, <1>3, <1>4
  <2>2. a[Len(stack)] = Top(stack)
    BY <1>3, <1>4, <2>1
  <2>3. QED
    BY <1>1, <1>3, <1>4, <2>1, <2>2, EmptySeq
<1>6. TypeOK'
  BY <1>0, <1>1, <1>4 DEF TypeOK, PCs
<1> QED BY <1>0, <1>5, <1>6, ShrinkKeeps

(* A measure that is left as it is leaves the solver as it is.               *)
LEMMA LeaveMeasureKeeps == IInv /\ LeaveMeasure => IInv'
<1> SUFFICES ASSUME IInv, LeaveMeasure PROVE IInv'
  OBVIOUS
<1>0. /\ pc = "shrink" /\ x <= NMeasures /\ x' = x + 1 /\ n' = 1 /\ left' = left \cup {x}
      /\ UNCHANGED <<vc, pc, k, stack, assumes, overall, failed, out, model>>
  BY DEF LeaveMeasure, Minimizing
<1>1. TypeOK'
  BY <1>0, MeasureAssumption DEF IInv, TypeOK
<1> QED BY <1>0, <1>1, AtSize, ShrinkKeeps DEF Top

(* A bound that is met stays.                                                *)
LEMMA FitsKeeps == IInv /\ Fits => IInv'
<1> SUFFICES ASSUME IInv, Fits PROVE IInv'
  OBVIOUS
<1>0. /\ pc = "sized" /\ x' = x + 1 /\ n' = 1 /\ pc' = "shrink"
      /\ UNCHANGED <<vc, k, stack, assumes, overall, failed, left, out, model>>
  BY DEF Fits
<1>1. TypeOK'
  BY <1>0, AtSize, MeasureAssumption DEF TypeOK, PCs
<1> QED BY <1>0, <1>1, AtSize, ShrinkKeeps DEF Top

(* A bound that is not met is popped.                                        *)
LEMMA TooSmallKeeps == IInv /\ TooSmall => IInv'
<1> SUFFICES ASSUME IInv, TooSmall PROVE IInv'
  OBVIOUS
<1>0. /\ pc = "sized" /\ n' = n + 1 /\ pc' = "shrink" /\ stack' = Pop(stack)
      /\ UNCHANGED <<vc, k, assumes, overall, failed, x, left, out, model>>
  BY DEF TooSmall
<1>1. /\ TypeOK /\ stack \in Seq(SUBSET Models) /\ stack # << >> /\ Len(stack) > 1
      /\ stack[Len(stack) - 1] \subseteq Candidates
  BY <1>0, AtSize
<1>2. /\ Pop(stack) \in Seq(SUBSET Models) /\ Pop(stack) # << >>
      /\ Top(Pop(stack)) = stack[Len(stack) - 1]
  BY <1>1, SolverOps
<1>3. TypeOK'
  BY <1>0, <1>1, <1>2 DEF TypeOK, PCs
<1> QED BY <1>0, <1>1, <1>2, <1>3, ShrinkKeeps

(* Without a model the call ends with an error.                              *)
LEMMA ModelMissingKeeps == IInv /\ ModelMissing => IInv'
BY QuietKeeps DEF ModelMissing

(* The model comes from what the solver holds in the end.                    *)
LEMMA ReturnModelKeeps == IInv /\ ReturnModel => IInv'
<1> SUFFICES ASSUME IInv, ReturnModel PROVE IInv'
  OBVIOUS
<1>0. /\ pc = "shrink" /\ model' \in Top(stack) /\ out' = "model" /\ pc' = "done"
      /\ UNCHANGED <<vc, k, stack, assumes, overall, failed, x, n, left>>
  BY DEF ReturnModel
<1>1. TypeOK /\ Top(stack) \subseteq Candidates /\ Top(stack) \in SUBSET Models
  BY <1>0, AtSize, SolverOps
<1>2. TypeOK'
  BY <1>0, <1>1 DEF TypeOK, PCs
<1> QED BY <1>0, <1>1, <1>2, ShrinkKeeps

-----------------------------------------------------------------------------
(* Every step of a call keeps the invariant.                                 *)
THEOREM Inductive == IInv /\ [Next]_vars => IInv'
<1> SUFFICES ASSUME IInv, [Next]_vars PROVE IInv'
  OBVIOUS
<1>1. CASE Next
  BY <1>1, StartKeeps, AssumeKeeps, SkipKeeps, CheckKeeps, GiveUpKeeps, SatKeeps,
     UnsatKeeps, DecideBaseKeeps, EndOfListKeeps, AfterListKeeps, TrySizeKeeps,
     LeaveMeasureKeeps, FitsKeeps, TooSmallKeeps, ModelMissingKeeps, ReturnModelKeeps DEF Next
<1>2. CASE UNCHANGED vars
  <2>1. UNCHANGED <<vc, pc, k, stack, assumes, overall, failed, x, n, left, out, model>>
    BY <1>2 DEF vars
  <2>2. TypeOK'
    BY <2>1 DEF IInv, TypeOK
  <2>3. LoopInv'
    BY <2>1, Zenon DEF IInv, LoopInv, Replay, Assumed
  <2>4. DecideInv'
    BY <2>1 DEF IInv, DecideInv, InList, Failing, IsChecked, Assumed
  <2>5. ModelInv'
    BY <2>1 DEF IInv, ModelInv, Top, Candidates, Assumed, InList
  <2>6. UndecidedInv' /\ VerdictExact' /\ ModelIsCounterexample'
    BY <2>1 DEF IInv, UndecidedInv, VerdictExact, Satisfiable, IsChecked,
                Assumed, ModelIsCounterexample
  <2>7. QED
    BY ONLY <2>2, <2>3, <2>4, <2>5, <2>6 DEF IInv
<1> QED BY <1>1, <1>2

(* The invariant holds in every state of every call.                         *)
THEOREM Invariance == Spec => []IInv
BY Initially, Inductive, PTL DEF Spec

(* GetSmallModelWithCond: every variable keeps its type, for any formulas.   *)
THEOREM TypeCorrect == Spec => []TypeOK
<1>1. IInv => TypeOK
  BY DEF IInv
<1> QED BY <1>1, Invariance, PTL

(* A checker fails exactly when its condition is satisfiable with the formula *)
(* and what was assumed before it (unsatisfiable, for unprovable properties), *)
(* whichever solver mode is used and whatever else is in the list.           *)
THEOREM VerdictsAreExact == Spec => []VerdictExact
<1>1. IInv => VerdictExact
  BY DEF IInv
<1> QED BY <1>1, Invariance, PTL

(* The model that GetSmallModelWithCond returns, minimized or not, satisfies *)
(* the formula, what was assumed and the condition that failed.              *)
THEOREM ModelsAreCounterexamples == Spec => []ModelIsCounterexample
<1>1. IInv => ModelIsCounterexample
  BY DEF IInv
<1> QED BY <1>1, Invariance, PTL

-----------------------------------------------------------------------------
(* What the call returns, against what its checkers were told.               *)
StopsAtFailure == vc.asked /\ vc.stopAtFail /\ ~vc.unprovable

NoneFailed(S) == \A i \in S : ~failed[i]
LastFailed == failed[k] /\ NoneFailed(1..(k - 1))

ResultInv ==
  StopsAtFailure =>
    /\ pc \in {"start", "loop", "decide"} => NoneFailed(1..(k - 1))
    /\ pc = "after" /\ overall = "unsat" => NoneFailed(1..Len(vc.fcs))
    /\ (pc = "after" /\ overall = "sat") \/ pc \in {"shrink", "sized"} => LastFailed
    /\ out = "nil" => NoneFailed(1..Len(vc.fcs))
    /\ out = "model" => LastFailed

LEMMA ResultInit == Init => ResultInv
BY CallAssumption DEF Init, ResultInv, StopsAtFailure, NoneFailed, LastFailed

LEMMA ResultNext == IInv /\ ResultInv /\ [Next]_vars => ResultInv'
<1> SUFFICES ASSUME IInv, ResultInv, [Next]_vars, StopsAtFailure' PROVE ResultInv'
  BY DEF ResultInv
<1>1. StopsAtFailure /\ vc' = vc
  BY DEF StopsAtFailure, Next, Start, AssumeCond, SkipCond, CheckCond, GiveUp, Sat, Unsat,
         DecideBase, EndOfList, AfterList, TrySize, LeaveMeasure, Fits, TooSmall,
         ModelMissing, ReturnModel, vars
<1>2. /\ k \in 1..(Len(vc.fcs) + 1) /\ Len(vc.fcs) \in Nat
      /\ failed \in [1..Len(vc.fcs) -> BOOLEAN]
      /\ out # "none" => pc = "done"
      /\ pc \in {"start", "loop", "decide"} =>
           overall = "unsat" /\ \A i \in k..Len(vc.fcs) : ~failed[i]
  BY CallFacts DEF IInv, TypeOK, LoopInv, ModelInv, UndecidedInv
<1>3. CASE Start \/ CheckCond \/ GiveUp \/ TrySize \/ LeaveMeasure \/ Fits \/ TooSmall
           \/ ModelMissing \/ ReturnModel
           \/ AfterList \/ UNCHANGED vars
  BY <1>1, <1>2, <1>3 DEF ResultInv, StopsAtFailure, NoneFailed, LastFailed, Start, CheckCond,
     GiveUp, TrySize, LeaveMeasure, Fits, TooSmall,
         ModelMissing, ReturnModel, AfterList, vars
<1>4. CASE AssumeCond \/ SkipCond
  <2>1. k' = k + 1 /\ pc' = "loop" /\ out' = out /\ failed' = failed /\ k \in 1..Len(vc.fcs)
    BY <1>2, <1>4 DEF AssumeCond, SkipCond
  <2>2. ~failed[k] /\ NoneFailed(1..(k - 1)) /\ out = "none"
    BY <1>1, <1>2, <1>4, <2>1 DEF ResultInv, AssumeCond, SkipCond, IInv, TypeOK
  <2>3. \A i \in 1..(k' - 1) : i \in 1..(k - 1) \/ i = k
    BY <1>2, <2>1
  <2> QED
    BY <2>1, <2>2, <2>3 DEF ResultInv, NoneFailed
<1>5. CASE EndOfList
  BY <1>1, <1>2, <1>5 DEF ResultInv, NoneFailed, EndOfList
<1>6. CASE Unsat \/ Sat
  <2>1. pc = "decide" /\ out = "none" /\ out' = "none" /\ k \in 1..Len(vc.fcs)
    BY <1>1, <1>2, <1>6 DEF Unsat, Sat, IInv, TypeOK, DecideInv, InList, StopsAtFailure
  <2>2. NoneFailed(1..(k - 1)) /\ ~failed[k]
    BY <1>1, <1>2, <2>1 DEF ResultInv
  <2>3. CASE Unsat
    <3>1. pc' = "loop" /\ k' = k + 1 /\ \A i \in 1..Len(vc.fcs) : failed'[i] = failed[i]
      BY <1>1, <1>2, <2>2, <2>3 DEF Unsat, StopsAtFailure
    <3>2. \A i \in 1..(k' - 1) : i \in 1..Len(vc.fcs) /\ (i \in 1..(k - 1) \/ i = k)
      BY <1>2, <2>1, <3>1
    <3> QED
      BY <2>1, <2>2, <3>1, <3>2 DEF ResultInv, NoneFailed
  <2>4. CASE Sat
    <3>1. pc' = "after" /\ overall' = "sat" /\ k' = k
      BY <1>1, <2>4 DEF Sat, SatContinues, StopsAtFailure
    <3>2. (failed[k] \/ ~vc.unprovable) = TRUE
      BY <1>1 DEF StopsAtFailure
    <3>3. failed' = [failed EXCEPT ![k] = TRUE]
      BY <2>4, <3>2 DEF Sat
    <3>4. failed'[k] /\ \A i \in 1..(k - 1) : failed'[i] = failed[i]
      <4>1. \A i \in 1..(k - 1) : i \in 1..Len(vc.fcs) /\ i # k
        BY <1>2, <2>1
      <4>2. \A i \in 1..Len(vc.fcs) : failed'[i] = IF i = k THEN TRUE ELSE failed[i]
        BY <1>2, <3>3
      <4> QED
        BY <2>1, <4>1, <4>2
    <3> QED
      BY <2>1, <2>2, <3>1, <3>4 DEF ResultInv, NoneFailed, LastFailed
  <2> QED
    BY <1>6, <2>3, <2>4
<1>7. CASE DecideBase
  BY <1>1, <1>7 DEF DecideBase, StopsAtFailure
<1> QED
  BY <1>3, <1>4, <1>5, <1>6, <1>7 DEF Next

(* A call whose checkers stop at the first failure returns a model if and    *)
(* only if one of them failed, and then it is the last one asked.            *)
THEOREM ResultIsThatOfCheckers == Spec => []ResultMatchesCheckers
<1>1. IInv /\ ResultInv => ResultMatchesCheckers
  BY CallFacts DEF ResultInv, ResultMatchesCheckers, StopsAtFailure, NoneFailed, LastFailed
<1>2. IInv /\ ResultInv /\ [Next]_vars => ResultInv'
  BY ResultNext
<1> QED
  BY <1>1, <1>2, ResultInit, Invariance, PTL DEF Spec

-----------------------------------------------------------------------------
(* The search for a small model.  The scope below the bound that is tried    *)
(* holds the candidates that are smallest in the measures before x, all of   *)
(* them, and none of these meets a bound below n.                            *)
Scope == IF pc = "sized" THEN stack[Len(stack) - 1] ELSE Top(stack)

Tied(M, m1, m2) ==
  \A l \in M : AtLeastOne(Size[l][m1]) = AtLeastOne(Size[l][m2])

Smallest(S, C, M) ==
  /\ S \subseteq C
  /\ \A m \in S, c \in C : ~Smaller(M, c, m) /\ (Tied(M, c, m) => c \in S)

(* The measures before x that were not left as they are.                     *)
Before == (1..(x - 1)) \ left

SizeInv ==
  /\ left \subseteq 1..(x - 1)
  /\ pc \in {"start", "loop", "decide", "after"} => x = 1 /\ n = 1
  /\ pc = "after" /\ overall = "sat" => Top(stack) = Candidates
  /\ pc \in {"shrink", "sized"} =>
       /\ n >= 1
       /\ Smallest(Scope, Candidates, Before)
       /\ x <= NMeasures => \A m \in Scope : n <= AtLeastOne(Size[x][m])
  /\ pc = "sized" => Top(stack) = Scope \cap AtMost(n)
  /\ ModelIsSmallest

(* Sizes are numbers.                                                        *)
LEMMA Sizes ==
  ASSUME NEW i \in 1..NMeasures, NEW m \in Models
  PROVE  /\ Size[i][m] \in Nat /\ AtLeastOne(Size[i][m]) \in Nat
         /\ AtLeastOne(Size[i][m]) >= 1
         /\ \A b \in Nat : b >= 1 => (Size[i][m] <= b <=> AtLeastOne(Size[i][m]) <= b)
BY MeasureAssumption DEF AtLeastOne

(* One more measure: those of the scope that meet the least bound that any   *)
(* of them meets.                                                            *)
LEMMA OneMoreMeasure ==
  ASSUME NEW C \in SUBSET Models, NEW S, NEW i \in 1..NMeasures, NEW b \in Nat, b >= 1,
         NEW L \in SUBSET (1..(i - 1)), Smallest(S, C, L),
         \A m \in S : b <= AtLeastOne(Size[i][m])
  PROVE  Smallest({m \in S : Size[i][m] <= b}, C, L \cup {i})
<1> DEFINE B == {m \in S : Size[i][m] <= b}
           M == L \cup {i}
<1> SUFFICES ASSUME NEW m \in B, NEW c \in C
             PROVE  ~Smaller(M, c, m) /\ (Tied(M, c, m) => c \in B)
  BY DEF Smallest
<1>1. m \in S /\ m \in Models /\ c \in Models /\ i \in Nat
  BY MeasureAssumption DEF Smallest
<1>2. AtLeastOne(Size[i][m]) = b
  BY <1>1, Sizes
<1>3. ~Smaller(L, c, m) /\ (Tied(L, c, m) => c \in S)
  BY <1>1 DEF Smallest
<1>4. \A l \in L : l \in Nat /\ l < i
  BY <1>1
<1>5. ~Smaller(M, c, m)
  <2> SUFFICES ASSUME Smaller(M, c, m) PROVE FALSE
    OBVIOUS
  <2>0. PICK j \in M :
          /\ AtLeastOne(Size[j][c]) < AtLeastOne(Size[j][m])
          /\ \A l \in M : l < j => AtLeastOne(Size[l][c]) = AtLeastOne(Size[l][m])
    BY DEF Smaller
  <2>1. /\ AtLeastOne(Size[i][c]) < AtLeastOne(Size[i][m])
        /\ Tied(L, c, m)
    <3>1. j \notin L
      BY <1>3, <2>0 DEF Smaller
    <3> QED
      BY <1>4, <2>0, <3>1 DEF Tied
  <2>2. c \in S
    BY <1>3, <2>1
  <2>3. b <= AtLeastOne(Size[i][c])
    BY <2>2
  <2> QED
    BY <1>1, <1>2, <2>1, <2>3, Sizes
<1>6. ASSUME Tied(M, c, m) PROVE c \in B
  <2>1. c \in S
    BY <1>3, <1>6 DEF Tied
  <2>2. AtLeastOne(Size[i][c]) = b
    BY <1>2, <1>6 DEF Tied
  <2> QED
    BY <1>1, <2>1, <2>2, Sizes
<1> QED
  BY <1>5, <1>6

LEMMA CandidatesAreModels == ASSUME TypeOK PROVE Candidates \in SUBSET Models
BY CallFacts DEF Candidates

LEMMA SizeInit == Init => SizeInv
BY DEF Init, SizeInv, ModelIsSmallest

(* Without a step of the search.                                             *)
LEMMA SizeFrame ==
  ASSUME SizeInv, UNCHANGED <<vc, pc, k, stack, overall, x, n, left, out, model>>
  PROVE  SizeInv'
<1>1. Candidates' = Candidates /\ Scope' = Scope
  BY DEF Candidates, Assumed, Scope, Top
<1>2. Before' = Before
  BY DEF Before
<1>3. Smallest(Scope, Candidates, Before)' <=> Smallest(Scope, Candidates, Before)
  BY <1>1, <1>2
<1> QED
  BY <1>1, <1>3 DEF SizeInv, ModelIsSmallest, AtLeastOne, AtMost, Top

LEMMA TrySizeSmallest == IInv /\ SizeInv /\ TrySize => SizeInv'
<1> SUFFICES ASSUME IInv, SizeInv, TrySize PROVE SizeInv'
  OBVIOUS
<1> DEFINE p == Push(stack)
           a == Assert(p, AtMost(n))
<1>0. /\ pc = "shrink" /\ x <= NMeasures /\ stack' = a /\ pc' = "sized"
      /\ UNCHANGED <<vc, k, assumes, overall, failed, x, n, left, out, model>>
  BY DEF TrySize, Minimizing
<1>1. /\ stack \in Seq(SUBSET Models) /\ stack # << >> /\ Len(stack) \in Nat
      /\ AtMost(n) \in SUBSET Models /\ out = "none"
  BY <1>0, AtSize DEF AtMost
<1>2. /\ p \in Seq(SUBSET Models) /\ p # << >> /\ Len(p) = Len(stack) + 1
      /\ Top(p) = Top(stack) /\ p[Len(stack)] = Top(stack)
  BY <1>1, SolverOps
<1>3. /\ Len(a) = Len(p) /\ Top(a) = Top(p) \cap AtMost(n)
      /\ \A i \in 1..(Len(p) - 1) : a[i] = p[i]
  <2> HIDE DEF p
  <2> QED BY <1>1, <1>2, SolverOps
<1> HIDE DEF p, a
<1>4. Len(stack) \in 1..(Len(p) - 1) /\ Len(a) - 1 = Len(stack)
  BY <1>1, <1>2, <1>3, EmptySeq
<1>5. Scope = Top(stack) /\ Scope' = Top(stack)
  BY <1>0, <1>2, <1>3, <1>4 DEF Scope
<1>6. Top(stack)' = Scope' \cap AtMost(n)' /\ AtMost(n)' = AtMost(n)
  BY <1>0, <1>2, <1>3, <1>5 DEF Top, AtMost
<1>7. Candidates' = Candidates
  BY <1>0 DEF Candidates, Assumed
<1>8. Before' = Before
  BY <1>0 DEF Before
<1>9. Smallest(Scope, Candidates, Before)'
  BY <1>0, <1>5, <1>7, <1>8 DEF SizeInv
<1> QED
  BY <1>0, <1>1, <1>5, <1>6, <1>9 DEF SizeInv, ModelIsSmallest

(* A measure that is left as it is does not count: the order by the measures *)
(* up to it is the order by those before it.                                 *)
LEMMA LeaveMeasureSmallest == IInv /\ SizeInv /\ LeaveMeasure => SizeInv'
<1> SUFFICES ASSUME IInv, SizeInv, LeaveMeasure PROVE SizeInv'
  OBVIOUS
<1>0. /\ pc = "shrink" /\ x <= NMeasures /\ x' = x + 1 /\ n' = 1 /\ left' = left \cup {x}
      /\ UNCHANGED <<vc, pc, k, stack, assumes, overall, failed, out, model>>
      /\ out = "none"
  BY AtSize DEF LeaveMeasure, Minimizing
<1>1. TypeOK /\ x \in 1..NMeasures /\ NMeasures \in Nat
  BY <1>0, MeasureAssumption DEF IInv, TypeOK
<1>2. /\ Candidates' = Candidates /\ Scope' = Scope
      /\ Candidates \in SUBSET Models
  BY <1>0, <1>1, CandidatesAreModels DEF Candidates, Assumed, Scope, Top
<1>3. Before' = Before
  BY <1>0, <1>1 DEF Before, SizeInv
<1>4. Smallest(Scope, Candidates, Before)
  BY <1>0 DEF SizeInv
<1>5. Smallest(Scope, Candidates, Before)'
  BY <1>2, <1>3, <1>4
<1>6. Scope \subseteq Models
  BY <1>2, <1>4 DEF Smallest
<1>7. x' <= NMeasures => \A m \in Scope' : n' <= AtLeastOne(Size[x'][m])
  BY <1>0, <1>1, <1>2, <1>6, Sizes
<1>8. left' \subseteq 1..(x' - 1)
  BY <1>0, <1>1 DEF SizeInv
<1> QED
  BY <1>0, <1>5, <1>7, <1>8 DEF SizeInv, ModelIsSmallest, AtLeastOne

LEMMA FitsSmallest == IInv /\ SizeInv /\ Fits => SizeInv'
<1> SUFFICES ASSUME IInv, SizeInv, Fits PROVE SizeInv'
  OBVIOUS
<1>0. /\ pc = "sized" /\ x' = x + 1 /\ n' = 1 /\ pc' = "shrink" /\ out = "none"
      /\ UNCHANGED <<vc, k, stack, assumes, overall, failed, left, out, model>>
  BY AtSize DEF Fits
<1>1. /\ TypeOK /\ TypeOK' /\ x \in 1..NMeasures /\ n \in Nat /\ NMeasures \in Nat
      /\ x \notin left
  BY <1>0, AtSize, MeasureAssumption, FitsKeeps DEF IInv, TypeOK, SizeInv
<1>2. Candidates' = Candidates /\ Candidates \in SUBSET Models
  BY <1>0, <1>1, CandidatesAreModels DEF Candidates, Assumed
<1>3. /\ Smallest({m \in Scope : Size[x][m] <= n}, Candidates, Before \cup {x})
      /\ Before' = Before \cup {x}
  <2>1. Before \in SUBSET (1..(x - 1)) /\ Before' = Before \cup {x}
    BY <1>0, <1>1 DEF Before
  <2> QED
    BY <1>0, <1>1, <1>2, <2>1, OneMoreMeasure DEF SizeInv
<1>4. Scope' = {m \in Scope : Size[x][m] <= n}
  <2>1. Scope' = Top(stack) /\ Top(stack) = Scope \cap AtMost(n)
    BY <1>0 DEF Scope, SizeInv, Top
  <2>2. Scope \subseteq Models
    BY <1>0, <1>2 DEF SizeInv, Smallest
  <2> QED
    BY <2>1, <2>2 DEF AtMost
<1>5. Smallest(Scope, Candidates, Before)'
  BY <1>2, <1>3, <1>4
<1>6. Scope' \subseteq Models
  BY <1>2, <1>5 DEF Smallest
<1>7. x' <= NMeasures => \A m \in Scope' : n' <= AtLeastOne(Size[x'][m])
  BY <1>0, <1>1, <1>6, Sizes
<1>8. left' \subseteq 1..(x' - 1)
  BY <1>0, <1>1 DEF SizeInv
<1> QED
  BY <1>0, <1>5, <1>7, <1>8 DEF SizeInv, ModelIsSmallest, AtLeastOne

LEMMA TooSmallSmallest == IInv /\ SizeInv /\ TooSmall => SizeInv'
<1> SUFFICES ASSUME IInv, SizeInv, TooSmall PROVE SizeInv'
  OBVIOUS
<1>0. /\ pc = "sized" /\ n' = n + 1 /\ pc' = "shrink" /\ stack' = Pop(stack)
      /\ Top(stack) = {} /\ out = "none"
      /\ UNCHANGED <<vc, k, assumes, overall, failed, x, left, out, model>>
  BY AtSize DEF TooSmall
<1>1. /\ TypeOK /\ x \in 1..NMeasures /\ n \in Nat
      /\ stack \in Seq(SUBSET Models) /\ stack # << >> /\ Len(stack) > 1
  BY <1>0, AtSize DEF IInv, TypeOK
<1>2. Candidates' = Candidates /\ Candidates \in SUBSET Models
  BY <1>0, <1>1, CandidatesAreModels DEF Candidates, Assumed
<1>3. Scope' = Scope
  BY <1>0, <1>1, SolverOps DEF Scope, Top
<1>4. Scope \subseteq Models /\ n >= 1
  BY <1>0, <1>2 DEF SizeInv, Smallest
<1>5. \A m \in Scope : n + 1 <= AtLeastOne(Size[x][m])
  <2> SUFFICES ASSUME NEW m \in Scope PROVE n + 1 <= AtLeastOne(Size[x][m])
    OBVIOUS
  <2>1. ~(Size[x][m] <= n)
    BY <1>0, <1>4 DEF SizeInv, AtMost
  <2> QED
    BY <1>1, <1>4, <2>1, Sizes
<1>6. Before' = Before
  BY <1>0 DEF Before
<1>7. Smallest(Scope, Candidates, Before)'
  BY <1>0, <1>2, <1>3, <1>6 DEF SizeInv
<1> QED
  BY <1>0, <1>1, <1>3, <1>4, <1>5, <1>7 DEF SizeInv, ModelIsSmallest, AtLeastOne

LEMMA ReturnSmallest == IInv /\ SizeInv /\ ReturnModel => SizeInv'
<1> SUFFICES ASSUME IInv, SizeInv, ReturnModel PROVE SizeInv'
  OBVIOUS
<1>0. /\ pc = "shrink" /\ model' \in Top(stack) /\ pc' = "done" /\ vc' = vc /\ k' = k
      /\ x' = x /\ left' = left
      /\ vc.shrink => x > NMeasures
  BY MeasureAssumption DEF ReturnModel, Minimizing, IInv, TypeOK
<1>1. Candidates' = Candidates
  BY <1>0 DEF Candidates, Assumed
<1>2. vc.shrink => Before = (1..NMeasures) \ left
  <2>1. vc.shrink => x - 1 = NMeasures
    BY <1>0, MeasureAssumption DEF IInv, TypeOK
  <2> QED
    BY <2>1 DEF Before
<1>3. Smallest(Top(stack), Candidates, Before)
  BY <1>0 DEF SizeInv, Scope
<1>4. ModelIsSmallest'
  <2> SUFFICES ASSUME vc.shrink, NEW c \in Candidates
               PROVE  ~Smaller((1..NMeasures) \ left, c, model')
    BY <1>0, <1>1 DEF ModelIsSmallest
  <2> QED
    BY <1>0, <1>2, <1>3 DEF Smallest
<1>5. left' \subseteq 1..(x' - 1)
  BY <1>0 DEF SizeInv
<1> QED
  BY <1>0, <1>4, <1>5 DEF SizeInv

(* The search begins with all candidates.                                    *)
LEMMA BeforeSearch ==
  ASSUME IInv, SizeInv, [Next]_vars, pc \in {"start", "loop", "decide", "after"},
         pc' # "shrink"
  PROVE  SizeInv'
<1>1. /\ x' = 1 /\ n' = 1 /\ left' = left /\ x = 1 /\ out' # "model" /\ pc' # "sized" /\ vc' = vc
  BY DEF IInv, ModelInv, SizeInv, Next, Start, AssumeCond, SkipCond, CheckCond, GiveUp, Sat,
         Unsat, DecideBase, EndOfList, AfterList, TrySize, LeaveMeasure, Fits, TooSmall,
         ModelMissing, ReturnModel, vars
<1>2. ASSUME pc' = "after", overall' = "sat" PROVE Top(stack)' = Candidates'
  <2>1. CASE UNCHANGED vars
    BY <1>2, <2>1 DEF SizeInv, vars, Candidates, Assumed, Top
  <2>2. CASE Sat
    <3>1. stack' = stack /\ k' = k /\ pc = "decide" /\ vc.asked
      BY <1>2, <2>2 DEF Sat
    <3>2. Top(stack) = Failing
      <4>1. stack = IF vc.incremental THEN << Assumed(k), Failing >> ELSE << Failing >>
        BY <3>1 DEF IInv, DecideInv
      <4>2. Assumed(k) \in SUBSET Models /\ Failing \in SUBSET Models
        BY CallFacts DEF IInv, Failing
      <4> QED
        BY <4>1, <4>2, Scopes DEF Top
    <3> QED
      BY <1>1, <3>1, <3>2 DEF Candidates, Failing, Assumed, Top
  <2>3. CASE DecideBase
    <3>1. stack' = stack /\ stack = << vc.base >> /\ ~vc.asked
      BY <2>3 DEF DecideBase, IInv, DecideInv
    <3> QED
      BY <1>1, <3>1 DEF Candidates, Top
  <2>4. CASE EndOfList
    BY <1>2, <2>4 DEF EndOfList, IInv, LoopInv
  <2> QED
    BY <1>2, <2>1, <2>2, <2>3, <2>4 DEF Next, Start, AssumeCond, SkipCond, CheckCond, GiveUp,
       Unsat, AfterList, TrySize, LeaveMeasure, Fits, TooSmall,
         ModelMissing, ReturnModel
<1>3. pc' \in {"start", "loop", "decide", "after", "done"}
  BY <1>1, Inductive DEF IInv, TypeOK, PCs
<1> QED
  BY <1>1, <1>2, <1>3 DEF SizeInv, ModelIsSmallest

LEMMA BeginSearch == IInv /\ SizeInv /\ AfterList => SizeInv'
<1> SUFFICES ASSUME IInv, SizeInv, AfterList PROVE SizeInv'
  OBVIOUS
<1>1. CASE pc' = "done"
  BY <1>1, BeforeSearch DEF AfterList, Next
<1>2. CASE pc' = "shrink"
  <2>1. /\ x' = 1 /\ n' = 1 /\ out' # "model"
        /\ Scope' = Candidates' /\ Candidates \in SUBSET Models
        /\ Candidates' = Candidates
    BY <1>2, CandidatesAreModels
    DEF AfterList, IInv, ModelInv, SizeInv, Scope, Top, Candidates, Assumed
  <2>2. Smallest(Candidates, Candidates, {})
    BY DEF Smallest, Smaller
  <2>3. Smallest(Scope, Candidates, Before)' /\ left' \subseteq 1..(x' - 1)
    <3>1. Before' = {} /\ left' \subseteq 1..(x' - 1)
      BY <1>2, <2>1 DEF AfterList, SizeInv, Before
    <3> QED
      BY <2>1, <2>2, <3>1
  <2>4. x' <= NMeasures => \A m \in Scope' : n' <= AtLeastOne(Size[x'][m])
    BY <2>1, Sizes, MeasureAssumption
  <2> QED
    BY <1>2, <2>1, <2>3, <2>4 DEF SizeInv, ModelIsSmallest, AtLeastOne
<1> QED
  BY <1>1, <1>2 DEF AfterList

LEMMA SizeNext == IInv /\ SizeInv /\ [Next]_vars => SizeInv'
<1> SUFFICES ASSUME IInv, SizeInv, [Next]_vars PROVE SizeInv'
  OBVIOUS
<1>1. CASE UNCHANGED vars
  BY <1>1, SizeFrame DEF vars
<1>2. CASE TrySize \/ LeaveMeasure \/ Fits \/ TooSmall \/ ReturnModel \/ AfterList
  BY <1>2, TrySizeSmallest, LeaveMeasureSmallest, FitsSmallest, TooSmallSmallest, ReturnSmallest, BeginSearch
<1>3. CASE GiveUp \/ ModelMissing
  BY <1>3, AtSize DEF GiveUp, ModelMissing, SizeInv, ModelIsSmallest
<1>4. CASE Start \/ AssumeCond \/ SkipCond \/ CheckCond \/ Sat \/ Unsat \/ DecideBase \/ EndOfList
  <2>1. pc \in {"start", "loop", "decide"} /\ pc' # "shrink"
    BY <1>4 DEF Start, AssumeCond, SkipCond, CheckCond, Sat, Unsat, DecideBase, EndOfList
  <2> QED
    BY <2>1, BeforeSearch
<1> QED
  BY <1>1, <1>2, <1>3, <1>4 DEF Next

(* A minimized model is smallest in lexicographic order of its measures.     *)
THEOREM ModelsAreSmallest == Spec => []ModelIsSmallest
<1>1. SizeInv => ModelIsSmallest
  BY DEF SizeInv
<1>2. IInv /\ SizeInv /\ [Next]_vars => SizeInv'
  BY SizeNext
<1> QED
  BY <1>1, <1>2, SizeInit, Invariance, PTL DEF Spec
=============================================================================
