----------------------------- MODULE FinalConds -----------------------------
(***************************************************************************)
(* GetSmallModelWithCond (z3bridge_solver_model.go): every check of goivy, *)
(* of properties, invariants and assertions alike, is one call of it.  The *)
(* call has a formula and a list of final conditions.  A condition is      *)
(* either assumed, for the rest of the list, or checked: it is satisfiable *)
(* together with the formula and what was assumed before it when the check *)
(* fails.  The checkers (check.go, webui_session.go) are told of every     *)
(* answer; one of them may stop the call, and then the solver is asked for *)
(* a model that is as small as possible.                                   *)
(*                                                                         *)
(* A formula is the set of its models, so a solver is a stack of such      *)
(* sets, one for each scope.  In incremental mode one solver is pushed and *)
(* popped; otherwise each condition gets a fresh solver, on which what was *)
(* assumed is asserted again.                                              *)
(***************************************************************************)
EXTENDS Integers, Sequences

CONSTANTS Models,     \* the structures a formula may or may not hold in
          NMeasures,  \* how many sorts, then relations, are to be minimized
          Size,       \* Size[x][m]: the size of the x-th of them in m
          Calls,      \* the calls made
          NoModel

FinalCond == [assume : BOOLEAN,
              form   : {"clauses", "nil", "untranslatable"},
              models : SUBSET Models]

CallType == [base       : SUBSET Models,   \* the formula
             translates : BOOLEAN,         \* it has a translation for Z3
             asked      : BOOLEAN,         \* finalCond # nil
             fcs        : Seq(FinalCond),
             incremental : BOOLEAN,        \* opts.Incremental
             unprovable : BOOLEAN,         \* Cfg.OnlyCheckUnprovable
             stopAtFail : BOOLEAN,         \* Sat returns FALSE on a failure
             shrink     : BOOLEAN]

ASSUME CallAssumption == Calls \subseteq CallType
ASSUME NoModelAssumption == NoModel \notin Models
ASSUME MeasureAssumption ==
  NMeasures \in Nat /\ Size \in [1..NMeasures -> [Models -> Nat]]

VARIABLES vc,       \* the call
          pc,
          k,        \* the next final condition
          stack,    \* the solver: the models left in each scope
          assumes,  \* what was assumed, for the replay
          overall,  \* overallResult
          failed,   \* failed[i]: what the i-th checker reports
          x, n,     \* the measure being minimized and the bound tried
          left,     \* history: the measures that were left as they are
          out,      \* what the call returns: nil, a model or an error
          model

vars == <<vc, pc, k, stack, assumes, overall, failed, x, n, left, out, model>>

Init ==
  /\ vc \in Calls
  /\ pc = "start"
  /\ k = 1
  /\ stack = << >>
  /\ assumes = << >>
  /\ overall = "unsat"
  /\ failed = [i \in 1..Len(vc.fcs) |-> FALSE]
  /\ x = 1
  /\ n = 1
  /\ left = {}
  /\ out = "none"
  /\ model = NoModel

-----------------------------------------------------------------------------
(* The solver *)

Top(s) == s[Len(s)]
Assert(s, f) == [s EXCEPT ![Len(s)] = @ \cap f]
Push(s) == Append(s, Top(s))
Pop(s) == SubSeq(s, 1, Len(s) - 1)

(* What a fresh solver holds: the formula and, asserted again, what was      *)
(* assumed so far.                                                           *)
Replay == {m \in vc.base : \A i \in 1..Len(assumes) : m \in assumes[i]}

\* Faulty variant of Solver: a fresh solver forgets what was assumed.
SolverForgetsAssumes == IF vc.incremental THEN stack ELSE << vc.base >>

Solver == IF vc.incremental THEN stack ELSE << Replay >>

-----------------------------------------------------------------------------
fc == vc.fcs[k]

(* s.newZ3Solver(), ClausesToZ3(clauses), Assert *)
Start ==
  /\ pc = "start"
  /\ \/ /\ ~vc.translates
        /\ out' = "error" /\ pc' = "done"
        /\ UNCHANGED stack
     \/ /\ vc.translates
        /\ stack' = << vc.base >>
        /\ pc' = IF vc.asked THEN "loop" ELSE "decide"
        /\ UNCHANGED out
  /\ UNCHANGED <<vc, k, assumes, overall, failed, x, n, left, model>>

(* fc.Assume(): the condition stays in the solver and is kept for the replay *)
AssumeCond ==
  /\ pc = "loop" /\ k <= Len(vc.fcs)
  /\ fc.assume /\ fc.form = "clauses"
  /\ stack' = Assert(Solver, fc.models)
  /\ assumes' = Append(assumes, fc.models)
  /\ k' = k + 1
  /\ UNCHANGED <<vc, pc, overall, failed, x, n, left, out, model>>

(* A condition that is nil, or that has no translation: continue *)
SkipCond ==
  /\ pc = "loop" /\ k <= Len(vc.fcs)
  /\ fc.form # "clauses"
  /\ stack' = Solver
  /\ k' = k + 1
  /\ UNCHANGED <<vc, pc, assumes, overall, failed, x, n, left, out, model>>

CheckCond ==
  /\ pc = "loop" /\ k <= Len(vc.fcs)
  /\ ~fc.assume /\ fc.form = "clauses"
  /\ stack' = Assert(IF vc.incremental THEN Push(Solver) ELSE Solver, fc.models)
  /\ pc' = "decide"
  /\ UNCHANGED <<vc, k, assumes, overall, failed, x, n, left, out, model>>

\* Faulty variant of GiveUp: unknown is a result like the others.
GiveUpNot ==
  /\ pc = "decide"
  /\ overall' = "unknown" /\ pc' = "after"
  /\ UNCHANGED <<vc, k, stack, assumes, failed, x, n, left, out, model>>

(* decideZ3 returns an error when Z3 answers unknown *)
GiveUp ==
  /\ pc \in {"decide", "sized"}
  /\ out' = "error" /\ pc' = "done"
  /\ UNCHANGED <<vc, k, stack, assumes, overall, failed, x, n, left, model>>

AfterCheck(s) == IF vc.incremental THEN Pop(s) ELSE s

(* fc.Sat(): with OnlyCheckUnprovable a pass, otherwise a failure.  When it  *)
(* returns FALSE the loop is left with the condition still asserted.         *)
SatContinues == vc.unprovable \/ ~vc.stopAtFail

\* Faulty variant of Sat: the scope is popped before the loop is left.
SatPopsFirst ==
  /\ pc = "decide" /\ vc.asked
  /\ Top(stack) # {}
  /\ failed' = [failed EXCEPT ![k] = @ \/ ~vc.unprovable]
  /\ stack' = AfterCheck(stack)
  /\ \/ /\ SatContinues
        /\ overall' = "unsat" /\ k' = k + 1 /\ pc' = "loop"
     \/ /\ ~SatContinues
        /\ overall' = "sat" /\ pc' = "after"
        /\ UNCHANGED k
  /\ UNCHANGED <<vc, assumes, x, n, left, out, model>>

\* Faulty variant of Sat: what the checker answers is not looked at.
SatGoesOn ==
  /\ pc = "decide" /\ vc.asked
  /\ Top(stack) # {}
  /\ failed' = [failed EXCEPT ![k] = @ \/ ~vc.unprovable]
  /\ overall' = "unsat" /\ stack' = AfterCheck(stack)
  /\ k' = k + 1 /\ pc' = "loop"
  /\ UNCHANGED <<vc, assumes, x, n, left, out, model>>

Sat ==
  /\ pc = "decide" /\ vc.asked
  /\ Top(stack) # {}
  /\ failed' = [failed EXCEPT ![k] = @ \/ ~vc.unprovable]
  /\ \/ /\ SatContinues
        /\ overall' = "unsat" /\ stack' = AfterCheck(stack)
        /\ k' = k + 1 /\ pc' = "loop"
     \/ /\ ~SatContinues
        /\ overall' = "sat" /\ pc' = "after"
        /\ UNCHANGED <<stack, k>>
  /\ UNCHANGED <<vc, assumes, x, n, left, out, model>>

\* Faulty variant of Unsat: the condition is not popped.
UnsatKeepsScope ==
  /\ pc = "decide" /\ vc.asked
  /\ Top(stack) = {}
  /\ failed' = [failed EXCEPT ![k] = @ \/ vc.unprovable]
  /\ overall' = "unsat"
  /\ k' = k + 1 /\ pc' = "loop"
  /\ UNCHANGED <<vc, stack, assumes, x, n, left, out, model>>

(* fc.Unsat(): the other way round; what it returns is not looked at *)
Unsat ==
  /\ pc = "decide" /\ vc.asked
  /\ Top(stack) = {}
  /\ failed' = [failed EXCEPT ![k] = @ \/ vc.unprovable]
  /\ overall' = "unsat"
  /\ stack' = AfterCheck(stack)
  /\ k' = k + 1 /\ pc' = "loop"
  /\ UNCHANGED <<vc, assumes, x, n, left, out, model>>

(* The caller gave no list of conditions: is the formula satisfiable? *)
DecideBase ==
  /\ pc = "decide" /\ ~vc.asked
  /\ overall' = IF Top(stack) = {} THEN "unsat" ELSE "sat"
  /\ pc' = "after"
  /\ UNCHANGED <<vc, k, stack, assumes, failed, x, n, left, out, model>>

EndOfList ==
  /\ pc = "loop" /\ k > Len(vc.fcs)
  /\ pc' = "after"
  /\ UNCHANGED <<vc, k, stack, assumes, overall, failed, x, n, left, out, model>>

(* if overallResult == smt.Unsat { return nil, nil } *)
AfterList ==
  /\ pc = "after"
  /\ \/ overall = "unsat" /\ out' = "nil" /\ pc' = "done"
     \/ overall = "sat" /\ pc' = "shrink" /\ UNCHANGED out
  /\ UNCHANGED <<vc, k, stack, assumes, overall, failed, x, n, left, model>>

Minimizing == vc.shrink /\ x <= NMeasures
AtMost(b) == {m \in Models : Size[x][m] <= b}

(* SortSizeConstraint, RelationSizeConstraint: the same loop for every sort, *)
(* then for every relation *)
TrySize ==
  /\ pc = "shrink" /\ Minimizing
  /\ stack' = Assert(Push(stack), AtMost(n))
  /\ pc' = "sized"
  /\ UNCHANGED <<vc, k, assumes, overall, failed, x, n, left, out, model>>

(* formulaToZ3 has no translation for the bound: break.  The measure is left *)
(* as it is, and the loop goes on with the next one.                         *)
LeaveMeasure ==
  /\ pc = "shrink" /\ Minimizing
  /\ x' = x + 1 /\ n' = 1
  /\ left' = left \cup {x}
  /\ UNCHANGED <<vc, pc, k, stack, assumes, overall, failed, out, model>>

(* The bound is met: it stays in the solver while the next sort is minimized *)
Fits ==
  /\ pc = "sized"
  /\ Top(stack) # {}
  /\ x' = x + 1 /\ n' = 1 /\ pc' = "shrink"
  /\ UNCHANGED <<vc, k, stack, assumes, overall, failed, left, out, model>>

\* Faulty variants of TooSmall: a bound is left out, and the same bound is
\* tried again.
TooSmallSkipsBound ==
  /\ pc = "sized"
  /\ Top(stack) = {}
  /\ n' = n + 2 /\ pc' = "shrink"
  /\ stack' = Pop(stack)
  /\ UNCHANGED <<vc, k, assumes, overall, failed, x, left, out, model>>

TooSmallAgain ==
  /\ pc = "sized"
  /\ Top(stack) = {}
  /\ stack' = Pop(stack)
  /\ pc' = "shrink"
  /\ UNCHANGED <<vc, k, assumes, overall, failed, x, n, left, out, model>>

TooSmall ==
  /\ pc = "sized"
  /\ Top(stack) = {}
  /\ n' = n + 1 /\ pc' = "shrink"
  /\ stack' = Pop(stack)
  /\ UNCHANGED <<vc, k, assumes, overall, failed, x, left, out, model>>

(* z3solver.Model() is nil: an error *)
ModelMissing ==
  /\ pc = "shrink" /\ ~Minimizing
  /\ out' = "error" /\ pc' = "done"
  /\ UNCHANGED <<vc, k, stack, assumes, overall, failed, x, n, left, model>>

ReturnModel ==
  /\ pc = "shrink" /\ ~Minimizing
  /\ model' \in Top(stack)
  /\ out' = "model" /\ pc' = "done"
  /\ UNCHANGED <<vc, k, stack, assumes, overall, failed, x, n, left>>

Next ==
  \/ Start \/ AssumeCond \/ SkipCond \/ CheckCond \/ GiveUp
  \/ Sat \/ Unsat \/ DecideBase \/ EndOfList \/ AfterList
  \/ TrySize \/ LeaveMeasure \/ Fits \/ TooSmall \/ ModelMissing \/ ReturnModel

(* Go code runs on and Z3 answers, unknown at worst. *)
Spec == Init /\ [][Next]_vars
FairSpec == Spec /\ WF_vars(Next)

-----------------------------------------------------------------------------
PCs == {"start", "loop", "decide", "after", "shrink", "sized", "done"}

(* Every variable has its type. *)
TypeOK ==
  /\ vc \in CallType
  /\ pc \in PCs
  /\ k \in 1..(Len(vc.fcs) + 1)
  /\ stack \in Seq(SUBSET Models)
  /\ assumes \in Seq(SUBSET Models)
  /\ overall \in {"sat", "unsat"}
  /\ failed \in [1..Len(vc.fcs) -> BOOLEAN]
  /\ x \in 1..(NMeasures + 1)
  /\ n \in Nat
  /\ left \subseteq 1..NMeasures
  /\ out \in {"none", "nil", "model", "error"}
  /\ model \in Models \cup {NoModel}

(* What the i-th condition is checked against: the formula and every         *)
(* condition before it that is assumed.                                      *)
Assumed(i) ==
  {m \in vc.base : \A j \in 1..(i - 1) :
     vc.fcs[j].assume /\ vc.fcs[j].form = "clauses" => m \in vc.fcs[j].models}

IsChecked(i) == ~vc.fcs[i].assume /\ vc.fcs[i].form = "clauses"

(* The i-th condition can be met together with what it is checked against.   *)
Satisfiable(i) == Assumed(i) \cap vc.fcs[i].models # {}

(* A checker reports a failure exactly when its condition is satisfiable     *)
(* (unsatisfiable, if unprovable properties are checked) with the formula    *)
(* and the assumptions before it: no other condition, no scope left behind   *)
(* and no choice between one solver and fresh ones has an influence.         *)
VerdictExact ==
  \A i \in 1..Len(vc.fcs) :
    /\ i < k /\ IsChecked(i) => (failed[i] <=> (Satisfiable(i) <=> ~vc.unprovable))
    /\ failed[i] => IsChecked(i) /\ (Satisfiable(i) <=> ~vc.unprovable)

(* A call whose checkers stop at the first failure returns a model if and    *)
(* only if a checker failed; the model belongs to the last check made.       *)
ResultMatchesCheckers ==
  vc.asked /\ vc.stopAtFail /\ ~vc.unprovable =>
    /\ out = "nil" => \A i \in 1..Len(vc.fcs) : ~failed[i]
    /\ out = "model" => failed[k] /\ \A i \in 1..(k - 1) : ~failed[i]

(* A model that is returned is a counterexample: it satisfies the formula,   *)
(* what was assumed and the condition that failed, also after its size was   *)
(* minimized.                                                                *)
ModelIsCounterexample ==
  out = "model" =>
    IF vc.asked THEN model \in Assumed(k) \cap vc.fcs[k].models
                ELSE model \in vc.base

(* The candidates, and the lexicographic order on them by the measures in M. *)
(* The sizes 0 and 1 are not told apart: the first bound tried is 1.         *)
Candidates == IF vc.asked THEN Assumed(k) \cap vc.fcs[k].models ELSE vc.base

AtLeastOne(s) == IF s = 0 THEN 1 ELSE s

Smaller(M, m1, m2) ==
  \E j \in M :
    /\ AtLeastOne(Size[j][m1]) < AtLeastOne(Size[j][m2])
    /\ \A l \in M : l < j => AtLeastOne(Size[l][m1]) = AtLeastOne(Size[l][m2])

(* A minimized model is smallest in lexicographic order of the measures that *)
(* could be bounded: one that was left as it is, whether before, between or  *)
(* after them, neither loosens nor tightens the bounds of the others.        *)
ModelIsSmallest ==
  out = "model" /\ vc.shrink =>
    \A m \in Candidates : ~Smaller((1..NMeasures) \ left, m, model)

(* The call returns: the search for a size ends.                             *)
Terminates == <>(pc = "done")
=============================================================================
