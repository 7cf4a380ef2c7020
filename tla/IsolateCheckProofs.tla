------------------------- MODULE IsolateCheckProofs -------------------------
(***************************************************************************)
(* Proofs about IsolateCheck, for any isolates, actions and lines: the     *)
(* variables have their types, a failure is reported exactly when one of   *)
(* the obligations that the options select does not hold, and a check of   *)
(* everything that reports none is a proof that the program is safe.       *)
(*                                                                         *)
(* The inductive invariant says what the verdict so far is worth at every  *)
(* place of the check.  FailedPart: it is exactly that of the phases that  *)
(* are over, of the actions that had their turn and of the pairs of a root *)
(* and a line that were tried.  TriedPart: only selected pairs are tried.  *)
(* VisitedPart: while nothing failed, all those of the actions that were   *)
(* visited are.  A failure may thus leave pairs untried, but it never      *)
(* comes from one that was not to be tried.  That the roots of an          *)
(* assertion, found by following calls backwards, are all the external     *)
(* actions that can reach it is a lemma about Reach.  ProgramPart carries  *)
(* the verdict over to the runs of the program.  What is passed over for   *)
(* want of a translation or of an execution is no obligation: that nothing *)
(* was is a premise of soundness, and of that alone.                       *)
(***************************************************************************)
EXTENDS IsolateCheck, TLAPS

(* The types, and that a line is selected while it is tried.                 *)
Typed == TypeOK /\ (pc = "roots" => lineno \in Lines)

(* The initial states are typed. *)
LEMMA TypedInit == Init => Typed
<1> SUFFICES ASSUME Init PROVE Typed
  OBVIOUS
<1>1. src \in Source /\ opts \in OptionsType
  BY SourceAssumption, OptionsAssumption DEF Init
<1> QED
  BY <1>1 DEF Init, Typed, TypeOK, PCs, Source, OptionsType, Formula

(* Every step keeps the types. *)
LEMMA TypedNext == Typed /\ [Next]_vars => Typed'
<1> SUFFICES ASSUME Typed, [Next]_vars PROVE Typed'
  OBVIOUS
<1>0. /\ src \in Source
      /\ src.asserts \in [Acts -> SUBSET Lines]
      /\ src.public \in SUBSET Acts
      /\ src.initRuns \in SUBSET InitRun
      /\ src.runs \in [Acts -> SUBSET Run]
  BY SourceAssumption DEF Typed, TypeOK, Source
<1> USE DEF Typed, TypeOK
<1>17. CASE CheckFragment
  BY <1>17 DEF CheckFragment, checkVars, progVars, PCs
<1>18. CASE SolverPanics
  BY <1>18 DEF SolverPanics, checkVars, progVars, PCs
<1>1. CASE CheckProps
  BY <1>1 DEF CheckProps, progVars, PCs, Formula
<1>2. CASE ApplyConjProofs
  BY <1>2 DEF ApplyConjProofs, checkVars, progVars, PCs
<1>3. CASE CheckInit
  BY <1>3 DEF CheckInit, progVars, PCs
<1>4. CASE CheckInitAsserts
  <2>1. GetCheckedActions \in SUBSET Acts
    BY <1>0 DEF GetCheckedActions
  <2> QED
    BY <1>4, <2>1 DEF CheckInitAsserts, progVars, PCs
<1>5. CASE CheckAction
  BY <1>5 DEF CheckAction, progVars
<1>6. CASE EndActions
  BY <1>6 DEF EndActions, progVars, PCs
<1>7. CASE VisitAction
  BY <1>0, <1>7 DEF VisitAction, progVars, PCs
<1>8. CASE SkipLine
  BY <1>8 DEF SkipLine, progVars
<1>9. CASE TryLine
  BY <1>9 DEF TryLine, progVars, PCs, Roots, Reach
<1>10. CASE TryRoot
  <2>1. lineno \in Lines
    BY <1>10 DEF TryRoot
  <2>2. PICK a \in roots :
          /\ tried' = tried \cup {<<a, lineno>>}
          /\ failed' = (failed \/ GuaranteeFails(a))
          /\ roots' = IF GuaranteeFails(a) THEN {} ELSE roots \ {a}
    BY <1>10 DEF TryRoot
  <2>3. tried' \in SUBSET (Acts \X Lines)
    BY <2>1, <2>2
  <2>4. failed' \in BOOLEAN
    BY <2>2
  <2>5. roots' \in SUBSET Acts
    BY <2>2
  <2> QED
    BY <1>10, <2>1, <2>3, <2>4, <2>5 DEF TryRoot, progVars
<1>11. CASE EndLine
  BY <1>11 DEF EndLine, progVars, PCs
<1>12. CASE EndLines
  BY <1>12 DEF EndLines, checkVars, progVars, PCs
<1>13. CASE Finish
  BY <1>13 DEF Finish, checkVars, progVars, PCs
<1>14. CASE Boot
  BY <1>0, <1>14 DEF Boot, checkVars, InitRun
<1>15. CASE Call
  <2>1. PICK a \in src.public : \E r \in src.runs[a] :
          /\ r.pre = st /\ Real(r.post)
          /\ IF r.first = NoLine THEN st' = r.post /\ UNCHANGED crash
                                 ELSE crash' = "action" /\ UNCHANGED st
    BY <1>15 DEF Call
  <2>2. src.runs[a] \subseteq Run
    BY <1>0
  <2> QED
    BY <1>15, <2>1, <2>2 DEF Call, checkVars, Run
<1>16. CASE UNCHANGED vars
  BY <1>16 DEF vars, checkVars, progVars
<1> QED
  BY <1>1, <1>2, <1>3, <1>4, <1>5, <1>6, <1>7, <1>8, <1>9, <1>10, <1>11,
     <1>12, <1>13, <1>14, <1>15, <1>16, <1>17, <1>18 DEF Next, CheckStep

(* Type correctness of CheckIsolate's state, for all sources and options.    *)
THEOREM TypeCorrect == Spec => []TypeOK
<1>1. Typed => TypeOK
  BY DEF Typed
<1> QED
  BY <1>1, TypedInit, TypedNext, PTL DEF Spec

-----------------------------------------------------------------------------
(* Following calls backwards from b one finds every action from which b is   *)
(* reached by following them forwards.                                       *)
LEMMA CallersReach ==
  ASSUME src.calls \in [Acts -> SUBSET Acts],
         NEW a \in Acts, NEW b \in Reach(a, src.calls)
  PROVE  a \in Reach(b, callgraph)
<1> SUFFICES ASSUME NEW S \in SUBSET Acts, b \in S, Closed(S, callgraph), a \notin S
             PROVE FALSE
  BY DEF Reach
<1> DEFINE T == Acts \ S
<1>1. a \in T /\ T \in SUBSET Acts
  OBVIOUS
<1>2. Closed(T, src.calls)
  <2> SUFFICES ASSUME NEW x \in T, NEW y \in src.calls[x], y \in S PROVE FALSE
    BY DEF Closed
  <2>1. x \in callgraph[y]
    BY DEF callgraph
  <2> QED
    BY <2>1 DEF Closed
<1>3. b \in T
  BY <1>1, <1>2 DEF Reach
<1> QED
  BY <1>3

(* What is known of the isolate and of the options.                          *)
LEMMA Facts ==
  ASSUME Typed
  PROVE  /\ src \in Source /\ WellFormed(src) /\ opts \in OptionsType
         /\ src.calls \in [Acts -> SUBSET Acts]
         /\ src.asserts \in [Acts -> SUBSET Lines]
         /\ src.public \subseteq Acts
         /\ src.runs \in [Acts -> SUBSET Run]
         /\ src.initRuns \subseteq InitRun
         /\ src.axioms \subseteq Structs
         /\ src.conjs \subseteq Conj
BY SourceAssumption, OptionsAssumption DEF Typed, TypeOK, Source, Formula

(* No obligation is left out by the kind of the check.                       *)
Normal == ~opts.summary /\ ~opts.unprovable

(* The obligations of the phases, as the options select them.                *)
PropsDone == opts.action = NoAct => PropsHold
InitDone == opts.action = NoAct => InitEstablishes
LastAsserts ==
  IF src.initAsserts = << >> THEN {} ELSE src.initAsserts[Len(src.initAsserts)]
AssertsDone == (\E l \in LastAsserts : Wanted(l)) => InitAssertsHold
ActionDone(a) ==
  a \notin src.broken =>
    \A c \in Conjs : Wanted(c.line) => \A g \in c.goals, r \in src.runs[a] :
      ~g.opaque /\ FromInvariant(r) /\ Considered(r) /\ r.post \in Theory
        => r.post \in g.models
Before == PropsDone /\ InitDone /\ AssertsDone

(* What was tried holds.                                                     *)
NoFail(a, l) ==
  a \notin src.brokenNamed => \A r \in src.runs[a] : FromInvariant(r) => r.first # l
TriedHold == \A a \in Acts, l \in Lines : <<a, l>> \in tried => NoFail(a, l)

GuaranteePCs == {"guarantees", "lines", "roots", "done"}

(* The parts of the inductive invariant.                                     *)
LinePart ==
  /\ saved = opts.lineno
  /\ pc \notin {"roots", "error"} => lineno = opts.lineno
TodoPart == pc = "actions" => todo \subseteq GetCheckedActions
TheoryPart ==
  /\ pc \in {"fragment", "props"} => axs = src.axioms
  /\ pc \notin {"fragment", "props", "error"} => axs = Theory

(* A check fails exactly if an obligation that had its turn does.            *)
FailedPart ==
  Normal =>
    /\ pc \in {"proofs", "init"} => (~failed <=> PropsDone)
    /\ pc = "initAsserts" => (~failed <=> PropsDone /\ InitDone)
    /\ pc = "actions" =>
         (~failed <=> Before /\ \A a \in GetCheckedActions \ todo : ActionDone(a))
    /\ pc \in GuaranteePCs =>
         (~failed <=> Before /\ (\A a \in GetCheckedActions : ActionDone(a)) /\ TriedHold)

(* Only what is selected is tried.                                           *)
Allowed(a, l) == a \in GetCheckedActions /\ Wanted(l) /\ ~opts.noCheckGuarantees
TriedPart ==
  /\ pc \notin GuaranteePCs \cup {"error"} => tried = {}
  /\ \A a \in Acts, l \in Lines : <<a, l>> \in tried => Allowed(a, l)
  /\ pc \in {"lines", "roots"} => \A l \in lines : Wanted(l) /\ ~opts.noCheckGuarantees
  /\ pc = "roots" => \A a \in roots : Allowed(a, lineno)

(* And all of it: while nothing failed, every selected line of the actions   *)
(* that were visited was tried from every root.                              *)
WantedOf(b) == {l \in src.asserts[b] : Wanted(l)}
RootsOf(b) == Reach(b, callgraph) \cap GetCheckedActions
Covered(b, l) == \A a \in RootsOf(b) : <<a, l>> \in tried
Whole == Normal /\ ~opts.noCheckGuarantees /\ ~failed

VisitedPart ==
  Whole =>
    /\ pc \in GuaranteePCs =>
         \A b \in Acts \ (todo \cup {cur}) : \A l \in WantedOf(b) : Covered(b, l)
    /\ pc \in {"guarantees", "done"} /\ cur \in Acts \ todo =>
         \A l \in WantedOf(cur) : Covered(cur, l)
    /\ pc = "lines" =>
         cur \in Acts /\ \A l \in WantedOf(cur) \ lines : Covered(cur, l)
    /\ pc = "roots" =>
         /\ cur \in Acts
         /\ \A l \in WantedOf(cur) \ (lines \cup {lineno}) : Covered(cur, l)
         /\ \A a \in RootsOf(cur) \ roots : <<a, lineno>> \in tried
    /\ pc = "done" => todo = {}

Good == Everything /\ NothingSkipped /\ ~failed
ProgramPart ==
  /\ pc # "done" => st = NoStruct /\ crash = "none"
  /\ st # NoStruct => Real(st)
  /\ Good /\ st # NoStruct => \A c \in Conjs : st \in c.models
  /\ Good => crash # "action"

CheckInv == Typed /\ LinePart /\ TodoPart /\ TheoryPart /\ FailedPart /\ TriedPart /\ VisitedPart
IInv == CheckInv /\ ProgramPart


(* The invariant holds initially.                                            *)
LEMMA IInvInit == Init => IInv
<1> SUFFICES ASSUME Init PROVE IInv
  OBVIOUS
<1>1. Typed
  BY TypedInit
<1>2. LinePart /\ TodoPart /\ TheoryPart /\ FailedPart /\ TriedPart /\ VisitedPart /\ ProgramPart
  BY DEF Init, LinePart, TodoPart, TheoryPart, FailedPart, TriedPart, VisitedPart, ProgramPart, Good,
         GuaranteePCs
<1> QED
  BY <1>1, <1>2 DEF IInv, CheckInv

-----------------------------------------------------------------------------
(* What depends on the isolate and the options alone.                        *)
LEMMA Static ==
  ASSUME src' = src, opts' = opts
  PROVE  /\ Normal' <=> Normal
         /\ Everything' <=> Everything
         /\ NothingSkipped' <=> NothingSkipped
         /\ Conjs' = Conjs
         /\ Theory' = Theory
         /\ GetCheckedActions' = GetCheckedActions
         /\ PropsDone' <=> PropsDone
         /\ InitDone' <=> InitDone
         /\ Before' <=> Before
         /\ \A a : ActionDone(a)' <=> ActionDone(a)
         /\ \A a, l : NoFail(a, l)' <=> NoFail(a, l)
         /\ \A a, l : Allowed(a, l)' <=> Allowed(a, l)
         /\ \A l : Wanted(l)' <=> Wanted(l)
         /\ \A b : WantedOf(b)' = WantedOf(b) /\ RootsOf(b)' = RootsOf(b)
         /\ \A s : Real(s)' <=> Real(s)
<1>1. (Everything' <=> Everything) /\ (Normal' <=> Normal)
  BY DEF Everything, Normal
<1>2. Conjs' = Conjs /\ GetCheckedActions' = GetCheckedActions
  BY DEF Conjs, CheckUnprovable, GetCheckedActions
<1>3. GetConjs' = GetConjs
  BY <1>2 DEF GetConjs
<1>4. Theory' = Theory
  BY DEF Theory, Holds
<1>5. \A l : Wanted(l)' <=> Wanted(l)
  BY DEF Wanted
<1>6. PropsDone' <=> PropsDone
  BY DEF PropsDone, PropsHold, Wanted, AssumedBefore, Holds
<1>7. InitDone' <=> InitDone
  BY <1>2, <1>4 DEF InitDone, InitEstablishes, Wanted, Considered
<1>8. AssertsDone' <=> AssertsDone
  BY DEF AssertsDone, LastAsserts, InitAssertsHold, Wanted
<1>9. \A a : ActionDone(a)' <=> ActionDone(a)
  BY <1>2, <1>3, <1>4 DEF ActionDone, FromInvariant, Wanted, Considered
<1>10. \A a, l : NoFail(a, l)' <=> NoFail(a, l)
  BY <1>3, <1>4 DEF NoFail, FromInvariant
<1>11. \A a, l : Allowed(a, l)' <=> Allowed(a, l)
  BY <1>2 DEF Allowed, Wanted
<1>12. \A b : WantedOf(b)' = WantedOf(b) /\ RootsOf(b)' = RootsOf(b)
  BY <1>2 DEF WantedOf, Wanted, RootsOf, Reach, callgraph
<1>13. \A s : Real(s)' <=> Real(s)
  BY DEF Real, Holds
<1>14. NothingSkipped' <=> NothingSkipped
  BY <1>2 DEF NothingSkipped
<1> QED
  BY <1>1, <1>2, <1>4, <1>5, <1>6, <1>7, <1>8, <1>9, <1>10, <1>11, <1>12, <1>13, <1>14 DEF Before

(* What every step of the check leaves alone; what was tried stays tried.    *)
LEMMA CheckFrame ==
  ASSUME CheckStep \/ SolverPanics
  PROVE  /\ src' = src /\ opts' = opts
         /\ st' = st /\ crash' = crash
         /\ pc # "done" /\ pc' # "fragment"
         /\ pc' = "props" => CheckFragment
         /\ tried \subseteq tried'
BY DEF CheckStep, CheckFragment, SolverPanics, AsksSolver, CheckProps, ApplyConjProofs, CheckInit,
       CheckInitAsserts, CheckAction, EndActions, VisitAction, SkipLine, TryLine, TryRoot,
       EndLine, EndLines, Finish, checkVars, progVars

(* Steps of the program leave the check alone.                               *)
LEMMA ProgramFrame ==
  ASSUME Boot \/ Call
  PROVE  UNCHANGED <<src, opts, pc, checkVars>> /\ pc = "done"
BY DEF Boot, Call

(* What the options select, seen from a place where no line is tried.        *)
LEMMA Selection ==
  ASSUME Typed, LinePart, Normal
  PROVE  /\ Check /\ CheckedInvariants = Conjs
         /\ \A l : IsGuaranteeModUnprovable(l)
         /\ \A P \in BOOLEAN : Verdict(P) <=> P
         /\ pc \notin {"roots", "error"} =>
              /\ \A l : Selected(l) <=> Wanted(l)
              /\ \A r : Enabled(r) <=> Considered(r)
              /\ \A r : Fails(r) <=> r.first # NoLine /\ Wanted(r.first)
              /\ Goals = UNION {c.goals : c \in {d \in Conjs : Wanted(d.line)}}
<1>1. opts.unprovable = FALSE /\ Check
  BY Facts DEF Normal, OptionsType, Check
<1>2. \A c \in Conjs : c.unprovable = FALSE
  BY Facts DEF Conjs, CheckUnprovable, Conj
<1>3. CheckedInvariants = Conjs
  BY <1>1, <1>2 DEF CheckedInvariants, IsCheckModUnprovable
<1>4. \A l : IsGuaranteeModUnprovable(l)
  BY <1>1 DEF IsGuaranteeModUnprovable, IsUnprovableAssert
<1>5. \A P \in BOOLEAN : Verdict(P) <=> P
  BY <1>1 DEF Verdict
<1>6. ASSUME pc \notin {"roots", "error"}
      PROVE  /\ \A l : Selected(l) <=> Wanted(l)
             /\ \A r : Enabled(r) <=> Considered(r)
             /\ \A r : Fails(r) <=> r.first # NoLine /\ Wanted(r.first)
  BY <1>6 DEF LinePart, Selected, Wanted, Enabled, Considered, Fails
<1>7. pc \notin {"roots", "error"} => Goals = UNION {c.goals : c \in {d \in Conjs : Wanted(d.line)}}
  BY <1>3, <1>6 DEF Goals
<1> QED
  BY <1>1, <1>3, <1>4, <1>5, <1>6, <1>7

-----------------------------------------------------------------------------
(* The line that is selected.                                                *)
LEMMA LineKept ==
  ASSUME CheckInv, CheckStep \/ SolverPanics
  PROVE  LinePart'
BY CheckFrame
   DEF CheckInv, LinePart, CheckStep, CheckFragment, SolverPanics, CheckProps,
       ApplyConjProofs, CheckInit, CheckInitAsserts,
       CheckAction, EndActions, VisitAction, SkipLine, TryLine, TryRoot,
       EndLine, EndLines, Finish, checkVars

(* The actions whose turn is to come.                                        *)
LEMMA TodoKept ==
  ASSUME CheckInv, CheckStep \/ SolverPanics
  PROVE  TodoPart'
<1>1. GetCheckedActions' = GetCheckedActions
  BY CheckFrame, Static
<1> QED
  BY <1>1
     DEF CheckInv, TodoPart, CheckStep, CheckFragment, SolverPanics, CheckProps,
         ApplyConjProofs, CheckInit, CheckInitAsserts,
         CheckAction, EndActions, VisitAction, SkipLine, TryLine, TryRoot,
         EndLine, EndLines, Finish, checkVars

(* The background theory.                                                    *)
LEMMA TheoryKept ==
  ASSUME CheckInv, CheckStep \/ SolverPanics
  PROVE  TheoryPart'
<1>1. Theory' = Theory /\ pc' # "fragment" /\ src' = src
  BY CheckFrame, Static
<1>4. CASE CheckFragment \/ SolverPanics
  BY <1>1, <1>4 DEF CheckFragment, SolverPanics, checkVars, CheckInv, TheoryPart
<1>2. CASE CheckProps
  BY <1>1, <1>2 DEF CheckProps, CheckInv, TheoryPart, Theory
<1>3. CASE ~CheckProps /\ ~CheckFragment /\ ~SolverPanics
  <2>1. axs' = axs /\ pc \notin {"fragment", "props", "error"} /\ pc' # "props"
    BY <1>3 DEF CheckStep, CheckFragment, SolverPanics, CheckProps,
         ApplyConjProofs, CheckInit, CheckInitAsserts,
         CheckAction, EndActions, VisitAction, SkipLine, TryLine, TryRoot,
         EndLine, EndLines, Finish, checkVars
  <2> QED
    BY <1>1, <2>1 DEF CheckInv, TheoryPart
<1> QED
  BY <1>2, <1>3, <1>4

-----------------------------------------------------------------------------
(* What each phase decides is its obligation: the properties,                *)
LEMMA PropsDecided ==
  ASSUME CheckInv, Normal, pc = "props"
  PROVE  PropsDone <=> ~(PropsChecked /\ \E i \in 1..Len(src.props) : PropFails(i))
<1>1. axs = src.axioms /\ Check /\ ~opts.unprovable /\ \A l : Selected(l) <=> Wanted(l)
  BY Selection DEF CheckInv, TheoryPart, Normal
<1>2. PropsHold <=> \A i \in 1..Len(src.props) : ~PropFails(i)
  BY <1>1 DEF PropsHold, PropFails
<1>3. src.props = << >> => PropsHold
  BY DEF PropsHold
<1> QED
  BY <1>1, <1>2, <1>3 DEF PropsDone, PropsChecked

(* initiation,                                                               *)
LEMMA InitDecided ==
  ASSUME CheckInv, Normal, pc = "init"
  PROVE  InitDone <=> ~(InitChecked /\ InitFails)
<1>1. /\ axs = Theory /\ Check /\ ~opts.unprovable /\ CheckedInvariants = Conjs
      /\ \A r : Enabled(r) <=> Considered(r)
      /\ Goals = UNION {c.goals : c \in {d \in Conjs : Wanted(d.line)}}
  BY Selection DEF CheckInv, TheoryPart, Normal
<1>2. InitEstablishes <=> ~InitFails
  BY <1>1 DEF InitEstablishes, InitFails
<1>3. Conjs = {} => InitEstablishes
  BY DEF InitEstablishes
<1> QED
  BY <1>1, <1>2, <1>3 DEF InitDone, InitChecked

(* the assertions of the initializers,                                       *)
LEMMA AssertsDecided ==
  ASSUME Typed, LinePart, Normal, pc \notin {"roots", "error"}
  PROVE  /\ (InitializerGuarantees # {} => InitAssertsHold) <=> AssertsDone
         /\ InitAssertFails <=> ~InitAssertsHold
<1>1. /\ \A l : (Selected(l) <=> Wanted(l)) /\ IsGuaranteeModUnprovable(l)
      /\ \A r : Fails(r) <=> r.first # NoLine /\ Wanted(r.first)
  BY Selection
<1>2. InitializerGuarantees = {l \in LastAsserts : Wanted(l)}
  BY <1>1 DEF InitializerGuarantees, LastAsserts
<1> QED
  BY <1>1, <1>2 DEF AssertsDone, InitAssertFails, InitAssertsHold

(* consecution for one action,                                               *)
LEMMA ActionDecided ==
  ASSUME CheckInv, Normal, pc = "actions", NEW a
  PROVE  ActionDone(a) <=> ~ActionFails(a)
<1>1. /\ axs = Theory
      /\ \A r : Enabled(r) <=> Considered(r)
      /\ Goals = UNION {c.goals : c \in {d \in Conjs : Wanted(d.line)}}
  BY Selection DEF CheckInv, TheoryPart
<1> DEFINE P(g) == \E r \in src.runs[a] : Starts(r) /\ Enabled(r) /\ r.post \in axs \ g.models
<1>2. \A g : Verdict(P(g)) <=> P(g)
  <2> SUFFICES ASSUME NEW g PROVE Verdict(P(g)) <=> P(g)
    OBVIOUS
  <2>1. P(g) \in BOOLEAN
    OBVIOUS
  <2> HIDE DEF P
  <2> QED
    BY <2>1, Selection DEF CheckInv
<1>3. ActionFails(a) <=> a \notin src.broken /\ \E g \in Goals : ~g.opaque /\ Verdict(P(g))
  BY DEF ActionFails
<1>4. ActionFails(a) <=> a \notin src.broken /\ \E g \in Goals : ~g.opaque /\ P(g)
  BY <1>2, <1>3
<1>5. \A r : Starts(r) <=> FromInvariant(r)
  BY <1>1 DEF Starts, FromInvariant
<1> QED
  BY <1>1, <1>4, <1>5 DEF ActionDone

(* and one guarantee seen from one root.                                     *)
LEMMA RootDecided ==
  ASSUME CheckInv, Normal, pc = "roots", NEW a
  PROVE  NoFail(a, lineno) <=> ~GuaranteeFails(a)
<1>1. axs = Theory /\ lineno # NoLine
  BY NoneAssumption DEF CheckInv, TheoryPart, Typed
<1> DEFINE P == \E r \in src.runs[a] : Starts(r) /\ Fails(r)
<1>2. Verdict(P) <=> P
  <2>1. P \in BOOLEAN
    OBVIOUS
  <2> HIDE DEF P
  <2> QED
    BY <2>1, Selection DEF CheckInv
<1>3. GuaranteeFails(a) <=> a \notin src.brokenNamed /\ P
  BY <1>2 DEF GuaranteeFails
<1>4. \A r : Starts(r) /\ Fails(r) <=> FromInvariant(r) /\ r.first = lineno
  BY <1>1 DEF Starts, FromInvariant, Fails
<1> QED
  BY <1>3, <1>4 DEF NoFail

(* Steps that decide nothing.                                                *)
LEMMA FailedFrame ==
  ASSUME CheckInv, CheckStep \/ SolverPanics, pc \in GuaranteePCs, pc' \in GuaranteePCs,
         failed' = failed, tried' = tried
  PROVE  FailedPart'
<1>1. src' = src /\ opts' = opts
  BY CheckFrame
<1> QED
  BY <1>1, Static DEF CheckInv, FailedPart, TriedHold, GuaranteePCs

(* A check fails exactly if an obligation that had its turn does.            *)
LEMMA FailedKept ==
  ASSUME CheckInv, CheckStep \/ SolverPanics
  PROVE  FailedPart'
<1> USE DEF CheckInv
<1> SUFFICES ASSUME Normal' PROVE FailedPart'
  BY DEF FailedPart
<1>0. src' = src /\ opts' = opts
  BY CheckFrame
<1>1. /\ Normal
      /\ (PropsDone' <=> PropsDone) /\ (InitDone' <=> InitDone) /\ (Before' <=> Before)
      /\ GetCheckedActions' = GetCheckedActions
      /\ \A a : ActionDone(a)' <=> ActionDone(a)
      /\ \A a, l : NoFail(a, l)' <=> NoFail(a, l)
  BY <1>0, Static
<1>10. CASE CheckFragment \/ SolverPanics
  <2>1. pc' \in {"props", "error"}
    BY <1>10 DEF CheckFragment, SolverPanics
  <2> QED
    BY <2>1 DEF FailedPart, GuaranteePCs
<1>2. CASE CheckProps
  <2>1. pc = "props" /\ pc' = "proofs"
    BY <1>2 DEF CheckProps
  <2>2. ~failed' <=> PropsDone
    BY <1>1, <1>2, <2>1, PropsDecided DEF CheckProps
  <2> QED
    BY <1>1, <2>1, <2>2 DEF FailedPart, GuaranteePCs
<1>3. CASE ApplyConjProofs
  BY <1>1, <1>3 DEF ApplyConjProofs, checkVars, FailedPart, GuaranteePCs
<1>4. CASE CheckInit
  <2>1. pc = "init" /\ pc' = "initAsserts"
    BY <1>4 DEF CheckInit
  <2>2. ~failed <=> PropsDone
    BY <1>1, <2>1 DEF FailedPart
  <2>3. ~failed' <=> ~failed /\ InitDone
    BY <1>1, <1>4, <2>1, InitDecided DEF CheckInit
  <2> QED
    BY <1>1, <2>1, <2>2, <2>3 DEF FailedPart, GuaranteePCs
<1>5. CASE CheckInitAsserts
  <2>1. pc = "initAsserts" /\ pc' = "actions"
    BY <1>5 DEF CheckInitAsserts
  <2>2. ~failed <=> PropsDone /\ InitDone
    BY <1>1, <2>1 DEF FailedPart
  <2>3. ~opts.unprovable /\ Check /\ CheckedInvariants = Conjs
    BY <1>1, Selection DEF Normal
  <2>4. ~failed' <=> ~failed /\ (InitializerGuarantees # {} => ~InitAssertFails)
    BY <1>5, <2>3 DEF CheckInitAsserts, InitAssertsChecked
  <2>5. ~failed' <=> ~failed /\ AssertsDone
    BY <1>1, <2>1, <2>4, AssertsDecided
  <2>6. \A a \in GetCheckedActions \ todo' : ActionDone(a)
    <3>1. todo' = IF Conjs # {} THEN GetCheckedActions ELSE {}
      BY <1>5, <2>3 DEF CheckInitAsserts
    <3> QED
      BY <3>1 DEF ActionDone
  <2> QED
    BY <1>1, <2>1, <2>2, <2>5, <2>6 DEF FailedPart, GuaranteePCs, Before
<1>6. CASE CheckAction
  <2>1. pc = "actions" /\ pc' = "actions"
    BY <1>6 DEF CheckAction
  <2>2. PICK b \in todo : failed' = (failed \/ ActionFails(b)) /\ todo' = todo \ {b}
    BY <1>6 DEF CheckAction
  <2>3. ~failed' <=> ~failed /\ ActionDone(b)
    BY <1>1, <2>1, <2>2, ActionDecided
  <2>4. ~failed <=> Before /\ \A a \in GetCheckedActions \ todo : ActionDone(a)
    BY <1>1, <2>1 DEF FailedPart
  <2>5. b \in GetCheckedActions
    BY <2>1, <2>2 DEF TodoPart
  <2>6. \A a : a \in GetCheckedActions \ todo' <=> a \in GetCheckedActions \ todo \/ a = b
    BY <2>2, <2>5
  <2> QED
    BY <1>1, <2>1, <2>3, <2>4, <2>6 DEF FailedPart, GuaranteePCs
<1>7. CASE EndActions
  <2>1. pc = "actions" /\ pc' = "guarantees" /\ todo = {} /\ failed' = failed /\ tried' = tried
    BY <1>7 DEF EndActions
  <2>2. ~failed <=> Before /\ \A a \in GetCheckedActions : ActionDone(a)
    BY <1>1, <2>1 DEF FailedPart
  <2>3. TriedHold'
    BY <2>1 DEF TriedPart, TriedHold, GuaranteePCs
  <2> QED
    BY <1>1, <2>1, <2>2, <2>3 DEF FailedPart, GuaranteePCs
<1>8. CASE TryRoot
  <2>1. pc = "roots" /\ pc' = "roots"
    BY <1>8 DEF TryRoot
  <2>2. PICK b \in roots : /\ failed' = (failed \/ GuaranteeFails(b))
                          /\ tried' = tried \cup {<<b, lineno>>}
    BY <1>8 DEF TryRoot
  <2>3. ~failed' <=> ~failed /\ NoFail(b, lineno)
    BY <1>1, <2>1, <2>2, RootDecided
  <2>4. b \in Acts /\ lineno \in Lines
    BY <2>1, <2>2 DEF Typed, TypeOK
  <2>5. TriedHold' <=> TriedHold /\ NoFail(b, lineno)
    BY <1>1, <2>2, <2>4 DEF TriedHold
  <2>6. ~failed <=> Before /\ (\A a \in GetCheckedActions : ActionDone(a)) /\ TriedHold
    BY <1>1, <2>1 DEF FailedPart, GuaranteePCs
  <2> QED
    BY <1>1, <2>1, <2>3, <2>5, <2>6 DEF FailedPart, GuaranteePCs
<1>9. CASE VisitAction \/ SkipLine \/ TryLine \/ EndLine \/ EndLines \/ Finish
  <2>1. pc \in GuaranteePCs /\ pc' \in GuaranteePCs /\ failed' = failed /\ tried' = tried
    BY <1>9 DEF GuaranteePCs, VisitAction, SkipLine, TryLine, EndLine, EndLines, Finish, checkVars
  <2> QED
    BY <2>1, FailedFrame
<1> QED
  BY <1>2, <1>3, <1>4, <1>5, <1>6, <1>7, <1>8, <1>9, <1>10 DEF CheckStep

-----------------------------------------------------------------------------
(* Only what is selected is tried.                                           *)
LEMMA TriedKept ==
  ASSUME CheckInv, CheckStep \/ SolverPanics
  PROVE  TriedPart'
<1> USE DEF CheckInv
<1>0. src' = src /\ opts' = opts
  BY CheckFrame
<1>1. (\A a, l : Allowed(a, l)' <=> Allowed(a, l)) /\ \A l : Wanted(l)' <=> Wanted(l)
  BY <1>0, Static
<1>7. CASE SolverPanics
  <2>1. pc' = "error" /\ tried' = tried
    BY <1>7 DEF SolverPanics, checkVars
  <2> QED
    BY <1>0, <1>1, <2>1 DEF TriedPart, GuaranteePCs
<1>2. CASE CheckFragment \/ CheckProps \/ ApplyConjProofs \/ CheckInit \/ CheckInitAsserts
           \/ CheckAction \/ EndActions
  <2>1. /\ pc \notin GuaranteePCs \cup {"error"} /\ tried' = tried
        /\ pc' \notin {"lines", "roots"}
    BY <1>2 DEF CheckFragment, CheckProps, ApplyConjProofs, CheckInit, CheckInitAsserts, CheckAction,
                EndActions, checkVars, GuaranteePCs
  <2> QED
    BY <2>1 DEF TriedPart
<1>3. CASE VisitAction
  <2>1. /\ pc = "guarantees" /\ pc' = "lines" /\ tried' = tried
        /\ \A l \in lines' : Selected(l) /\ ~opts.noCheckGuarantees
    BY <1>3 DEF VisitAction
  <2>2. \A l : Selected(l) <=> Wanted(l)
    BY <2>1 DEF LinePart, Selected, Wanted
  <2> QED
    BY <1>0, <1>1, <2>1, <2>2 DEF TriedPart, GuaranteePCs
<1>4. CASE SkipLine \/ EndLine \/ EndLines \/ Finish
  <2>1. /\ tried' = tried /\ pc \in GuaranteePCs /\ pc' \in {"lines", "guarantees", "done"}
        /\ pc' = "lines" => pc \in {"lines", "roots"} /\ lines' \subseteq lines
    BY <1>4 DEF SkipLine, EndLine, EndLines, Finish, checkVars, GuaranteePCs
  <2> QED
    BY <1>0, <1>1, <2>1 DEF TriedPart, GuaranteePCs
<1>5. CASE TryLine
  <2>1. pc = "lines" /\ pc' = "roots" /\ tried' = tried /\ roots' = Roots
    BY <1>5 DEF TryLine
  <2>2. PICK l \in lines : lineno' = l /\ lines' = lines \ {l}
    BY <1>5 DEF TryLine
  <2>3. \A a \in Roots : Allowed(a, l)
    BY <2>1, <2>2 DEF Roots, TriedPart, Allowed
  <2>4. \A a \in roots' : Allowed(a, lineno')
    BY <2>1, <2>2, <2>3
  <2>5. (\A a \in roots : Allowed(a, lineno))'
    BY <1>0, <2>4 DEF Allowed, Wanted, GetCheckedActions
  <2> QED
    BY <1>0, <1>1, <2>1, <2>2, <2>5 DEF TriedPart, GuaranteePCs
<1>6. CASE TryRoot
  <2>1. pc = "roots" /\ pc' = "roots" /\ lineno' = lineno /\ lines' = lines
        /\ roots' \subseteq roots
    BY <1>6 DEF TryRoot
  <2>2. PICK b \in roots : tried' = tried \cup {<<b, lineno>>}
    BY <1>6 DEF TryRoot
  <2> QED
    BY <1>0, <1>1, <2>1, <2>2 DEF TriedPart, GuaranteePCs
<1> QED
  BY <1>2, <1>3, <1>4, <1>5, <1>6, <1>7 DEF CheckStep

(* A line is covered once it is.                                             *)
LEMMA CoveredStays ==
  ASSUME src' = src, opts' = opts, tried \subseteq tried'
  PROVE  \A b, l : Covered(b, l) => Covered(b, l)'
BY Static DEF Covered

(* What was tried while nothing failed.                                      *)
LEMMA VisitedKept ==
  ASSUME CheckInv, CheckStep \/ SolverPanics
  PROVE  VisitedPart'
<1> USE DEF CheckInv
<1>1. /\ src' = src /\ opts' = opts /\ (Normal' <=> Normal)
      /\ \A b : WantedOf(b)' = WantedOf(b) /\ RootsOf(b)' = RootsOf(b)
  BY CheckFrame, Static
<1>2. \A b, l : Covered(b, l) => Covered(b, l)'
  BY CheckFrame, CoveredStays
<1>3. pc # "props" => (Whole' => Whole)
  <2>1. pc # "props" => (failed => failed')
    BY DEF CheckStep, CheckFragment, SolverPanics, CheckProps,
         ApplyConjProofs, CheckInit, CheckInitAsserts,
           CheckAction, EndActions, VisitAction, SkipLine, TryLine, TryRoot,
           EndLine, EndLines, Finish, checkVars
  <2> QED
    BY <1>1, <2>1 DEF Whole
<1>4. CASE pc \notin GuaranteePCs /\ ~EndActions
  <2>1. pc' \notin GuaranteePCs
    BY <1>4 DEF GuaranteePCs, CheckStep, CheckFragment, SolverPanics, CheckProps,
         ApplyConjProofs, CheckInit, CheckInitAsserts,
         CheckAction, EndActions, VisitAction, SkipLine, TryLine, TryRoot,
         EndLine, EndLines, Finish
  <2> QED
    BY <2>1 DEF VisitedPart, GuaranteePCs
<1>5. CASE EndActions
  BY <1>5 DEF EndActions, VisitedPart, GuaranteePCs
<1>6. CASE VisitAction
  <2> SUFFICES ASSUME Whole' PROVE VisitedPart'
    BY DEF VisitedPart
  <2>1. pc = "guarantees" /\ pc' = "lines" /\ Whole
    BY <1>3, <1>6 DEF VisitAction
  <2>2. PICK a \in todo :
          /\ todo' = todo \ {a}
          /\ cur' = a
          /\ lines' = IF opts.noCheckGuarantees THEN {}
                      ELSE {l \in src.asserts[a] : Selected(l) /\ IsGuaranteeModUnprovable(l)}
    BY <1>6 DEF VisitAction
  <2>3. a \in Acts
    BY <2>2 DEF Typed, TypeOK
  <2>4. lines' = WantedOf(a)
    BY <2>1, <2>2, Selection DEF Whole, WantedOf
  <2>5. \A b \in Acts \ (todo \cup {cur}) : \A l \in WantedOf(b) : Covered(b, l)
    BY <2>1 DEF VisitedPart, GuaranteePCs
  <2>6. cur \in Acts \ todo => \A l \in WantedOf(cur) : Covered(cur, l)
    BY <2>1 DEF VisitedPart
  <2>7. \A b \in Acts \ (todo' \cup {a}) : \A l \in WantedOf(b) : Covered(b, l)'
    BY <1>2, <2>2, <2>5, <2>6
  <2> QED
    BY <1>1, <2>1, <2>2, <2>3, <2>4, <2>7 DEF VisitedPart, GuaranteePCs
<1>7. CASE SkipLine
  <2>1. pc = "lines" /\ pc' = "lines" /\ (Whole' => Whole) /\ todo' = todo /\ cur' = cur
    BY <1>3, <1>7 DEF SkipLine
  <2>2. PICK l \in lines : /\ ~Check \/ \A r \in Roots : <<r, l>> \in tried
                          /\ lines' = lines \ {l}
    BY <1>7 DEF SkipLine
  <2>3. Whole => Covered(cur, l)
    BY <2>2, Selection DEF Whole, Covered, Roots, RootsOf
  <2> QED
    BY <1>1, <1>2, <2>1, <2>2, <2>3 DEF VisitedPart, GuaranteePCs
<1>8. CASE TryLine
  <2>1. /\ pc = "lines" /\ pc' = "roots" /\ (Whole' => Whole) /\ todo' = todo /\ cur' = cur
        /\ roots' = RootsOf(cur) /\ tried' = tried
    BY <1>3, <1>8 DEF TryLine, Roots, RootsOf
  <2>2. PICK l \in lines : lineno' = l /\ lines' = lines \ {l}
    BY <1>8 DEF TryLine
  <2> QED
    BY <1>1, <1>2, <2>1, <2>2 DEF VisitedPart, GuaranteePCs
<1>9. CASE TryRoot
  <2>1. /\ pc = "roots" /\ pc' = "roots" /\ (Whole' => Whole) /\ todo' = todo /\ cur' = cur
        /\ lines' = lines /\ lineno' = lineno
    BY <1>3, <1>9 DEF TryRoot
  <2>2. PICK a \in roots : /\ tried' = tried \cup {<<a, lineno>>}
                          /\ failed' = (failed \/ GuaranteeFails(a))
                          /\ roots' = IF GuaranteeFails(a) THEN {} ELSE roots \ {a}
    BY <1>9 DEF TryRoot
  <2>3. Whole' => roots' = roots \ {a}
    BY <2>2 DEF Whole
  <2> QED
    BY <1>1, <1>2, <2>1, <2>2, <2>3 DEF VisitedPart, GuaranteePCs
<1>10. CASE EndLine
  <2>1. /\ pc = "roots" /\ pc' = "lines" /\ (Whole' => Whole) /\ todo' = todo /\ cur' = cur
        /\ lines' = lines /\ roots = {} /\ tried' = tried
    BY <1>3, <1>10 DEF EndLine
  <2>2. Whole => Covered(cur, lineno)
    BY <2>1 DEF VisitedPart, Covered
  <2> QED
    BY <1>1, <1>2, <2>1, <2>2 DEF VisitedPart, GuaranteePCs
<1>11. CASE EndLines
  <2>1. /\ pc = "lines" /\ pc' = "guarantees" /\ (Whole' => Whole) /\ lines = {}
        /\ todo' = todo /\ cur' = cur
    BY <1>3, <1>11 DEF EndLines, checkVars
  <2> QED
    BY <1>1, <1>2, <2>1 DEF VisitedPart, GuaranteePCs
<1>12. CASE Finish
  <2>1. /\ pc = "guarantees" /\ pc' = "done" /\ (Whole' => Whole) /\ todo = {}
        /\ todo' = todo /\ cur' = cur
    BY <1>3, <1>12 DEF Finish, checkVars
  <2> QED
    BY <1>1, <1>2, <2>1 DEF VisitedPart, GuaranteePCs
<1>13. CASE SolverPanics
  BY <1>13 DEF SolverPanics, VisitedPart, GuaranteePCs
<1> QED
  BY <1>4, <1>5, <1>6, <1>7, <1>8, <1>9, <1>10, <1>11, <1>12, <1>13
     DEF CheckStep, CheckFragment, CheckProps, ApplyConjProofs, CheckInit, CheckInitAsserts,
         CheckAction, GuaranteePCs

-----------------------------------------------------------------------------
(* The end of the check: what was tried is what was to be tried.             *)

(* A run that fails does so at a line of an action that its root reaches.    *)
LEMMA FailsReachable ==
  ASSUME Typed, NEW a \in GetCheckedActions, NEW r \in src.runs[a], r.first # NoLine
  PROVE  /\ a \in Acts /\ r.first \in Lines
         /\ \E b \in Acts : r.first \in src.asserts[b] /\ a \in RootsOf(b)
<1>1. a \in Acts /\ src.calls \in [Acts -> SUBSET Acts]
  BY Facts DEF GetCheckedActions
<1>2. FirstFails(r) /\ r.fails \subseteq UNION {src.asserts[b] : b \in Reach(a, src.calls)}
  BY <1>1, Facts DEF WellFormed
<1>3. r.first \in r.fails
  BY <1>2 DEF FirstFails
<1>4. PICK b \in Reach(a, src.calls) : r.first \in src.asserts[b]
  BY <1>2, <1>3
<1>5. b \in Acts /\ r.first \in Lines
  BY <1>4, Facts DEF Reach
<1>6. a \in RootsOf(b)
  BY <1>1, <1>4, CallersReach DEF RootsOf
<1> QED
  BY <1>1, <1>4, <1>5, <1>6

(* When the check is over and nothing failed, the guarantees hold.           *)
LEMMA TriedSuffices ==
  ASSUME CheckInv, pc = "done", Whole
  PROVE  GuaranteesHold
<1> USE DEF CheckInv
<1> SUFFICES ASSUME NEW a \in GetCheckedActions \ src.brokenNamed, NEW r \in src.runs[a],
                    FromInvariant(r), r.first # NoLine, Wanted(r.first)
             PROVE FALSE
  BY DEF GuaranteesHold
<1>1. a \in Acts /\ r.first \in Lines
  BY FailsReachable
<1>2. PICK b \in Acts : r.first \in src.asserts[b] /\ a \in RootsOf(b)
  BY FailsReachable
<1>3. Covered(b, r.first)
  <2>1. r.first \in WantedOf(b) /\ todo = {}
    BY <1>2 DEF WantedOf, VisitedPart
  <2> QED
    BY <1>2, <2>1 DEF VisitedPart, GuaranteePCs
<1>4. NoFail(a, r.first)
  BY <1>1, <1>2, <1>3 DEF Covered, FailedPart, TriedHold, Whole, GuaranteePCs
<1> QED
  BY <1>4 DEF NoFail

(* Whatever was tried follows from the guarantees.                           *)
LEMMA TriedNecessary ==
  ASSUME CheckInv, opts.noCheckGuarantees \/ GuaranteesHold
  PROVE  TriedHold
<1> SUFFICES ASSUME NEW a \in Acts, NEW l \in Lines, <<a, l>> \in tried,
                    a \notin src.brokenNamed,
                    NEW r \in src.runs[a], FromInvariant(r), r.first = l
             PROVE FALSE
  BY DEF TriedHold, NoFail
<1>1. Allowed(a, l)
  BY DEF CheckInv, TriedPart
<1>2. l # NoLine
  BY NoneAssumption
<1> QED
  BY <1>1, <1>2 DEF Allowed, GuaranteesHold

(* The verdict is exact.                                                     *)
LEMMA CheckInvExact == CheckInv => VerdictExact
<1> SUFFICES ASSUME CheckInv, pc = "done", Normal
             PROVE ~failed <=>
                     /\ opts.action = NoAct => PropsHold /\ InitEstablishes
                     /\ InitializerGuarantees # {} => InitAssertsHold
                     /\ ActionsPreserve
                     /\ opts.noCheckGuarantees \/ GuaranteesHold
  BY DEF VerdictExact, Normal
<1>1. ~failed <=> Before /\ (\A a \in GetCheckedActions : ActionDone(a)) /\ TriedHold
  BY DEF CheckInv, FailedPart, GuaranteePCs
<1>2. (\A a \in GetCheckedActions : ActionDone(a)) <=> ActionsPreserve
  BY DEF ActionDone, ActionsPreserve
<1>3. (InitializerGuarantees # {} => InitAssertsHold) <=> AssertsDone
  BY AssertsDecided DEF CheckInv
<1>4. ~failed => opts.noCheckGuarantees \/ GuaranteesHold
  BY TriedSuffices DEF Whole
<1>5. opts.noCheckGuarantees \/ GuaranteesHold => TriedHold
  BY TriedNecessary
<1> QED
  BY <1>1, <1>2, <1>3, <1>4, <1>5 DEF Before, PropsDone, InitDone

(* A check of everything has established everything but the assertions of    *)
(* the initializers.                                                         *)
LEMMA GoodChecked ==
  ASSUME CheckInv, pc = "done", Good
  PROVE  /\ PropsHold /\ InitEstablishes /\ GuaranteesHold
         /\ \A a \in src.public : ActionDone(a)
         /\ \A a \in src.public : a \notin src.broken /\ a \notin src.brokenNamed
         /\ \A c \in Conjs : \A g \in c.goals : ~g.opaque
         /\ \A l : Wanted(l)
         /\ \A r : Considered(r)
<1>1. Normal /\ Whole /\ opts.action = NoAct /\ opts.lineno = NoLine
  BY DEF Good, Everything, Normal, Whole
<1>2. Before /\ \A a \in GetCheckedActions : ActionDone(a)
  BY <1>1 DEF CheckInv, FailedPart, GuaranteePCs, Good
<1>3. GuaranteesHold
  BY <1>1, TriedSuffices
<1>4. GetCheckedActions = src.public
  BY <1>1 DEF GetCheckedActions
<1>5. /\ \A a \in src.public : a \notin src.broken /\ a \notin src.brokenNamed
      /\ \A c \in Conjs : \A g \in c.goals : ~g.opaque
  BY DEF Good, NothingSkipped
<1> QED
  BY <1>1, <1>2, <1>3, <1>4, <1>5 DEF Before, PropsDone, InitDone, Wanted, Considered

-----------------------------------------------------------------------------
(* What the verdict says of the program's states.                            *)

(* A checked property follows from the axioms and the assumptions before it. *)
LEMMA RealInTheory ==
  ASSUME Typed, PropsHold, Everything, NothingSkipped, NEW s, Real(s)
  PROVE  s \in Theory
<1>1. s \in src.axioms
  BY DEF Real
<1>2. \A i \in 1..Len(src.props) : src.props[i].kind # "checked" => Holds(s, i)
  BY DEF Real
<1>3. \A i \in 1..Len(src.props) : src.props[i].kind = "checked" => Holds(s, i)
  <2> SUFFICES ASSUME NEW i \in 1..Len(src.props), src.props[i].kind = "checked"
               PROVE Holds(s, i)
    OBVIOUS
  <2>1. AssumedBefore(s, i)
    <3> SUFFICES ASSUME NEW j \in 1..(i - 1), src.props[j].kind = "assumed" PROVE Holds(s, j)
      BY DEF AssumedBefore
    <3>1. Len(src.props) \in Nat
      BY Facts DEF Source
    <3>2. j \in 1..Len(src.props)
      BY <3>1
    <3> QED
      BY <1>2, <3>2
  <2>2. Wanted(src.props[i].line) /\ ~src.props[i].opaque
    BY DEF Wanted, Everything, NothingSkipped
  <2> QED
    BY <1>1, <2>1, <2>2 DEF PropsHold
<1> QED
  BY <1>1, <1>2, <1>3 DEF Theory

(* The goals left by the proofs imply the conjectures.                       *)
LEMMA GoalsSuffice ==
  ASSUME Typed, NEW s \in Theory, NEW c \in Conjs, \A g \in c.goals : s \in g.models
  PROVE  s \in c.models
<1>1. c \in src.conjs /\ s \in src.axioms /\ s \in Structs
  BY Facts DEF Conjs, Theory
<1>2. src.axioms \cap {t \in Structs : \A g \in c.goals : t \in g.models} \subseteq c.models
  BY <1>1, Facts DEF WellFormed
<1> QED
  BY <1>1, <1>2

(* Where the program is, the next action starts from the invariant.          *)
LEMMA StateInInvariant ==
  ASSUME IInv, pc = "done", Good, st # NoStruct
  PROVE  st \in GetConjs \cap Theory
<1>1. Real(st) /\ \A c \in Conjs : st \in c.models
  BY DEF IInv, ProgramPart
<1>2. st \in Theory
  BY <1>1, GoodChecked, RealInTheory DEF IInv, CheckInv, Good
<1> QED
  BY <1>1, <1>2 DEF Real, GetConjs

(* Where the goals hold and the theory does, the conjectures hold.           *)
LEMMA PostInvariant ==
  ASSUME CheckInv, pc = "done", Good, NEW s, Real(s),
         \A c \in Conjs : \A g \in c.goals : s \in Theory => s \in g.models
  PROVE  \A c \in Conjs : s \in c.models
<1>1. s \in Theory
  BY GoodChecked, RealInTheory DEF CheckInv, Good
<1> QED
  BY <1>1, GoalsSuffice DEF CheckInv

(* What the verdict says of the program stays true.                          *)
LEMMA ProgramKept ==
  ASSUME IInv, Next
  PROVE  ProgramPart'
<1> USE DEF IInv
<1>1. CASE CheckStep \/ SolverPanics
  BY <1>1, CheckFrame DEF ProgramPart
<1>2. CASE Boot \/ Call
  <2>1. /\ src' = src /\ opts' = opts /\ failed' = failed /\ pc' = pc /\ pc = "done"
    BY <1>2, ProgramFrame DEF checkVars
  <2>2. /\ (Good' <=> Good) /\ Conjs' = Conjs
        /\ \A s : Real(s)' <=> Real(s)
    BY <2>1, Static DEF Good
  <2>3. CASE Boot
    <3>1. PICK r \in src.initRuns :
            /\ Real(r.post)
            /\ IF r.first = NoLine THEN st' = r.post /\ UNCHANGED crash
                                   ELSE crash' = "init" /\ UNCHANGED st
      BY <2>3 DEF Boot
    <3>2. st = NoStruct /\ crash = "none"
      BY <2>3 DEF Boot
    <3>3. Good => \A c \in Conjs : r.post \in c.models
      <4> SUFFICES ASSUME Good PROVE \A c \in Conjs : r.post \in c.models
        OBVIOUS
      <4>1. \A c \in Conjs : \A g \in c.goals : r.post \in Theory => r.post \in g.models
        BY <2>1, GoodChecked DEF InitEstablishes
      <4> QED
        BY <2>1, <3>1, <4>1, PostInvariant
    <3>4. CASE r.first = NoLine
      <4>1. st' = r.post /\ crash' = "none"
        BY <3>1, <3>2, <3>4
      <4>2. Real(st')
        BY <3>1, <4>1
      <4>3. Real(st)'
        BY <2>1, <4>2 DEF Real, Holds
      <4> QED
        BY <2>1, <2>2, <3>3, <4>1, <4>3 DEF ProgramPart
    <3>5. CASE r.first # NoLine
      BY <2>1, <2>2, <3>1, <3>2, <3>5 DEF ProgramPart
    <3> QED
      BY <3>4, <3>5
  <2>4. CASE Call
    <3>1. PICK a \in src.public : \E r \in src.runs[a] :
            /\ r.pre = st /\ Real(r.post)
            /\ IF r.first = NoLine THEN st' = r.post /\ UNCHANGED crash
                                   ELSE crash' = "action" /\ UNCHANGED st
      BY <2>4 DEF Call
    <3>2. PICK r \in src.runs[a] :
            /\ r.pre = st /\ Real(r.post)
            /\ IF r.first = NoLine THEN st' = r.post /\ UNCHANGED crash
                                   ELSE crash' = "action" /\ UNCHANGED st
      BY <3>1
    <3>3. st # NoStruct
      <4>1. src.public \subseteq Acts /\ src.runs \in [Acts -> SUBSET Run]
        BY Facts DEF CheckInv
      <4>2. r.pre \in Structs
        BY <3>2, <4>1 DEF Run
      <4> QED
        BY <3>2, <4>2, NoneAssumption
    <3>4. Good => FromInvariant(r)
      BY <2>1, <3>2, <3>3, StateInInvariant DEF FromInvariant
    <3>5. Good => r.first = NoLine
      <4> SUFFICES ASSUME Good PROVE r.first = NoLine
        OBVIOUS
      <4>1. GuaranteesHold /\ \A l : Wanted(l)
        BY <2>1, GoodChecked
      <4>2. a \in GetCheckedActions \ src.brokenNamed
        BY <2>1, GoodChecked DEF GetCheckedActions, Good, Everything
      <4> QED
        BY <3>4, <4>1, <4>2 DEF GuaranteesHold
    <3>6. Good => \A c \in Conjs : r.post \in c.models
      <4> SUFFICES ASSUME Good PROVE \A c \in Conjs : r.post \in c.models
        OBVIOUS
      <4>1. /\ ActionDone(a) /\ (\A l : Wanted(l)) /\ Considered(r)
            /\ a \notin src.broken /\ \A c \in Conjs : \A g \in c.goals : ~g.opaque
        BY <2>1, GoodChecked
      <4>2. \A c \in Conjs : \A g \in c.goals : r.post \in Theory => r.post \in g.models
        BY <3>4, <4>1 DEF ActionDone
      <4> QED
        BY <2>1, <3>2, <4>2, PostInvariant
    <3>7. CASE r.first = NoLine
      <4>1. st' = r.post /\ crash' = crash
        BY <3>2, <3>7
      <4>2. Real(st')
        BY <3>2, <4>1
      <4>3. Real(st)'
        BY <2>1, <4>2 DEF Real, Holds
      <4> QED
        BY <2>1, <2>2, <3>6, <4>1, <4>3 DEF ProgramPart
    <3>8. CASE r.first # NoLine
      <4>1. st' = st /\ ~Good
        BY <3>2, <3>5, <3>8
      <4>2. Real(st) /\ Real(st)'
        BY <2>1, <3>3, <4>1 DEF ProgramPart, Real, Holds
      <4> QED
        BY <2>1, <2>2, <4>1, <4>2 DEF ProgramPart
    <3> QED
      BY <3>7, <3>8
  <2> QED
    BY <1>2, <2>3, <2>4
<1> QED
  BY <1>1, <1>2 DEF Next

-----------------------------------------------------------------------------
(* The steps of the check keep its invariant, and those of the program leave *)
(* what it is about alone.                                                   *)
LEMMA CheckInvNext == CheckInv /\ [Next]_vars => CheckInv'
<1> SUFFICES ASSUME CheckInv, [Next]_vars PROVE CheckInv'
  OBVIOUS
<1>1. Typed'
  BY TypedNext DEF CheckInv
<1>2. CASE CheckStep \/ SolverPanics
  BY <1>1, <1>2, LineKept, TodoKept, TheoryKept, FailedKept, TriedKept, VisitedKept DEF CheckInv
<1>3. CASE Boot \/ Call \/ UNCHANGED vars
  <2>1. UNCHANGED <<src, opts, pc, checkVars>>
    BY <1>3, ProgramFrame DEF vars
  <2>2. LinePart' /\ TodoPart' /\ TheoryPart'
    BY <2>1, Static DEF CheckInv, LinePart, TodoPart, TheoryPart, checkVars
  <2>3. FailedPart'
    BY <2>1, Static DEF CheckInv, FailedPart, TriedHold, checkVars
  <2>4. TriedPart'
    BY <2>1, Static DEF CheckInv, TriedPart, checkVars
  <2>5. VisitedPart'
    BY <2>1, Static DEF CheckInv, VisitedPart, Covered, Whole, checkVars
  <2> QED
    BY <1>1, <2>2, <2>3, <2>4, <2>5 DEF CheckInv
<1> QED
  BY <1>2, <1>3 DEF Next

(* The invariant is inductive.                                               *)
LEMMA IInvNext == IInv /\ [Next]_vars => IInv'
<1> SUFFICES ASSUME IInv, [Next]_vars PROVE IInv'
  OBVIOUS
<1>1. CheckInv'
  BY CheckInvNext DEF IInv
<1>2. CASE Next
  BY <1>1, <1>2, ProgramKept DEF IInv
<1>3. CASE UNCHANGED vars
  <2>1. UNCHANGED <<src, opts, pc, checkVars>> /\ st' = st /\ crash' = crash
    BY <1>3 DEF vars, progVars
  <2> QED
    BY <1>1, <2>1, Static DEF IInv, ProgramPart, Good, checkVars
<1> QED
  BY <1>2, <1>3

(* A check of everything without a failure proves the program safe.          *)
LEMMA IInvSound == IInv => Sound
<1> SUFFICES ASSUME IInv, pc = "done", Everything, NothingSkipped, ~failed
             PROVE  /\ crash # "action"
                    /\ st # NoStruct =>
                         /\ \A c \in Conjs : st \in c.models
                         /\ \A i \in 1..Len(src.props) : Holds(st, i)
  BY DEF Sound
<1>1. Good
  BY DEF Good
<1>2. st # NoStruct => st \in Theory
  BY <1>1, StateInInvariant
<1> QED
  BY <1>1, <1>2 DEF IInv, ProgramPart, Theory

(* Soundness of CheckIsolate: for every isolate, if no option leaves an      *)
(* obligation out and no check failed, the invariants and properties hold    *)
(* and no assertion of an action fails, in whatever order the environment    *)
(* calls the external actions.                                               *)
THEOREM Soundness == Spec => []Sound
<1> QED
  BY IInvInit, IInvNext, IInvSound, PTL DEF Spec

(* The verdict of CheckIsolate, with whatever options, unless only what is   *)
(* declared unprovable is checked: a failure is reported exactly when one of *)
(* the obligations that the options select does not hold.                    *)
THEOREM VerdictsAreExact == Spec => []VerdictExact
<1>1. IInv => VerdictExact
  BY CheckInvExact DEF IInv
<1> QED
  BY <1>1, IInvInit, IInvNext, PTL DEF Spec

=============================================================================
