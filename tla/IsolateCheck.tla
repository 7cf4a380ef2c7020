---------------------------- MODULE IsolateCheck ----------------------------
(***************************************************************************)
(* CheckIsolate (check_isolate_check.go): the proof obligations of one     *)
(* isolate, in the order in which the code discharges them, under every    *)
(* option that selects some of them.  When the check has ended the program *)
(* may be run by its environment, so that what the verdict promises can be *)
(* said of the program's own states.                                       *)
(*                                                                         *)
(* A state of the program is a structure and a formula the set of its      *)
(* models.  A run of an action from one state to another is recorded as if *)
(* no assertion stopped it, with the lines of the assertions that fail on  *)
(* the way: the code computes transition relations in the same way.  One   *)
(* call of CheckFcsInState, whose list of conditions FinalConds models, is *)
(* one step: the conditions that have no translation are passed over in    *)
(* it, and an error of the solver ends it and the program.  Isolates with  *)
(* a proof of their own, temporal properties and postconditions of ranking *)
(* proofs are not modelled.                                                *)
(***************************************************************************)
EXTENDS Naturals, Sequences

CONSTANTS Structs,   \* states of the program
          Lines,     \* file:line of assertions, properties and invariants
          Acts,      \* actions of the isolate
          Sources,   \* the isolates checked, as written
          Options,
          NoLine, NoAct, NoStruct

Formula == SUBSET Structs

(* Of what is opaque there is no condition that translates.                  *)
Prop == [models : Formula, kind : {"checked", "assumed", "dropped"}, line : Lines,
         opaque : BOOLEAN]

(* A conjecture with a proof is replaced by the goals its tactics leave.     *)
Goal == [models : Formula, opaque : BOOLEAN]
Conj == [models : Formula, unprovable : BOOLEAN, explicit : BOOLEAN,
         line : Lines, goals : SUBSET Goal]

InitRun == [post : Structs, fails : SUBSET Lines, first : Lines \cup {NoLine}]
Run == [pre : Structs, post : Structs, fails : SUBSET Lines,
        first : Lines \cup {NoLine}]

Source ==
  [axioms      : Formula,
   props       : Seq(Prop),
   admits      : BOOLEAN,             \* the proofs of the conjectures apply
   conjs       : SUBSET Conj,
   assumedInv  : Formula,             \* the invariants of other isolates
   initAsserts : Seq(SUBSET Lines),   \* by initializer, in order of names
   initRuns    : SUBSET InitRun,      \* of all initializers in sequence
   asserts     : [Acts -> SUBSET Lines],
   calls       : [Acts -> SUBSET Acts],
   public      : SUBSET Acts,
   broken      : SUBSET Acts,         \* Execute ends with an error,
   brokenNamed : SUBSET Acts,         \* given the name of the action as well
   runs        : [Acts -> SUBSET Run]]

OptionsType ==
  [summary : BOOLEAN, unprovable : BOOLEAN, noCheckGuarantees : BOOLEAN,
   action  : Acts \cup {NoAct},       \* Cfg.CheckedAction
   lineno  : Lines \cup {NoLine}]     \* Cfg.CheckLineno

(* What an action reaches through calls, and what it is reached from.        *)
Closed(S, next) == \A a \in S : next[a] \subseteq S
Reach(a, next) == {b \in Acts : \A S \in SUBSET Acts : a \in S /\ Closed(S, next) => b \in S}

FirstFails(r) == IF r.fails = {} THEN r.first = NoLine ELSE r.first \in r.fails

(* A program is compiled from its source: a run fails only at assertions of  *)
(* the actions it can call, and goals are what a sound tactic leaves.        *)
WellFormed(p) ==
  /\ p.public \subseteq Acts
  /\ \A r \in p.initRuns : FirstFails(r)
  /\ \A a \in Acts : \A r \in p.runs[a] :
       FirstFails(r) /\ r.fails \subseteq UNION {p.asserts[b] : b \in Reach(a, p.calls)}
  /\ \A c \in p.conjs :
       /\ p.axioms \cap {s \in Structs : \A g \in c.goals : s \in g.models} \subseteq c.models
       /\ c.unprovable => c.explicit

ASSUME SourceAssumption == Sources \subseteq {p \in Source : WellFormed(p)}
ASSUME OptionsAssumption == Options \subseteq OptionsType
ASSUME NoneAssumption == NoLine \notin Lines /\ NoAct \notin Acts /\ NoStruct \notin Structs

VARIABLES src, opts,
          pc,
          axs,      \* the models of the background theory
          failed,   \* Cfg.Failures > 0
          lineno,   \* Cfg.CheckLineno
          saved,    \* oldCheckedAssert
          todo,     \* the actions whose turn is to come
          cur,      \* the action whose guarantees are checked
          lines,    \* its guarantees still to be checked
          roots,    \* the callers the guarantee is still to be tried from
          tried,
          st,       \* the program: its state
          crash     \* and the assertion that stopped it

checkVars == <<axs, failed, lineno, saved, todo, cur, lines, roots, tried>>
progVars == <<st, crash>>
vars == <<src, opts, pc, checkVars, progVars>>

Init ==
  /\ src \in Sources
  /\ opts \in Options
  /\ pc = "fragment"
  /\ axs = src.axioms
  /\ failed = FALSE
  /\ lineno = opts.lineno
  /\ saved = opts.lineno
  /\ todo = {}
  /\ cur = NoAct
  /\ lines = {}
  /\ roots = {}
  /\ tried = {}
  /\ st = NoStruct
  /\ crash = "none"

-----------------------------------------------------------------------------
(* The parser drops what is declared unprovable unless                       *)
(* AstConfig.CheckUnprovable is set, which no code does.                     *)
CheckUnprovable == FALSE
Conjs == {c \in src.conjs : ~c.unprovable \/ CheckUnprovable}

(* No action has the method this function asks for.                          *)
IsUnprovableAssert(l) == FALSE

IsCheckModUnprovable(c) == c.unprovable = opts.unprovable
IsGuaranteeModUnprovable(l) == IsUnprovableAssert(l) = opts.unprovable

Check == ~opts.summary
CheckedInvariants == {c \in Conjs : IsCheckModUnprovable(c)}

(* The line an option selects; all of them without the option.               *)
Selected(l) == lineno = NoLine \/ l = lineno

GetCheckedActions ==
  IF opts.action = NoAct THEN src.public ELSE {opts.action} \cap src.public

(* What is assumed of a pre-state.                                           *)
GetConjs ==
  {s \in src.assumedInv :
     \A c \in Conjs : ~c.explicit /\ ~c.unprovable => s \in c.models}

(* The transition relations assume every assertion but the checked line.     *)
Enabled(r) == lineno = NoLine \/ r.fails \subseteq {lineno}
Fails(r) == IF lineno = NoLine THEN r.first # NoLine ELSE r.first = lineno

(* Checkers fail when the negated condition is satisfiable; the other way    *)
(* round for what is unprovable.                                             *)
Verdict(satisfiable) == satisfiable # opts.unprovable

-----------------------------------------------------------------------------
(* The solver decides nothing outside of the logic's fragment.               *)
CheckFragment ==
  /\ pc = "fragment"
  /\ pc' \in {"props", "error"}
  /\ UNCHANGED <<src, opts, checkVars, progVars>>

(* Properties, with a pre-state of which nothing is known.  Those that were  *)
(* checked are axioms from here on, as are those that were not.              *)
Holds(s, i) == s \in src.props[i].models
AssumedBefore(s, i) ==
  \A j \in 1..(i - 1) :
    src.props[j].kind = "assumed" /\ ~src.props[j].opaque => Holds(s, j)

PropFails(i) ==
  /\ src.props[i].kind = "checked" /\ ~src.props[i].opaque
  /\ Selected(src.props[i].line)
  /\ \E s \in axs : AssumedBefore(s, i) /\ ~Holds(s, i)

PropsChecked == src.props # << >> /\ opts.action = NoAct /\ ~opts.unprovable /\ Check

CheckProps ==
  /\ pc = "props"
  /\ failed' = (PropsChecked /\ \E i \in 1..Len(src.props) : PropFails(i))
  /\ axs' = {s \in axs : \A i \in 1..Len(src.props) : Holds(s, i)}
  /\ pc' = "proofs"
  /\ UNCHANGED <<src, opts, lineno, saved, todo, cur, lines, roots, tried, progVars>>

(* Conjectures with proofs are replaced by their subgoals, or the check ends *)
(* with an error.                                                            *)
ApplyConjProofs ==
  /\ pc = "proofs"
  /\ pc' = IF src.admits THEN "init" ELSE "error"
  /\ UNCHANGED <<src, opts, checkVars, progVars>>

Goals == UNION {c.goals : c \in {d \in CheckedInvariants : Selected(d.line)}}

InitFails ==
  \E g \in Goals, r \in src.initRuns :
    ~g.opaque /\ Enabled(r) /\ r.post \in axs /\ r.post \notin g.models

InitChecked ==
  CheckedInvariants # {} /\ opts.action = NoAct /\ ~opts.unprovable /\ Check

(* Initialization must establish the invariant *)
CheckInit ==
  /\ pc = "init"
  /\ failed' = (failed \/ (InitChecked /\ InitFails))
  /\ pc' = "initAsserts"
  /\ UNCHANGED <<src, opts, axs, lineno, saved, todo, cur, lines, roots, tried, progVars>>

(* The assertions that are looked for are those of the initializer that is   *)
(* last in the order of names; any of them makes all of them be checked.     *)
InitializerGuarantees ==
  IF src.initAsserts = << >> THEN {}
  ELSE {l \in src.initAsserts[Len(src.initAsserts)] :
          Selected(l) /\ IsGuaranteeModUnprovable(l)}

InitAssertFails == \E r \in src.initRuns : Fails(r)
InitAssertsChecked == InitializerGuarantees # {} /\ ~opts.unprovable /\ Check

CheckInitAsserts ==
  /\ pc = "initAsserts"
  /\ failed' = (failed \/ (InitAssertsChecked /\ InitAssertFails))
  /\ todo' = IF CheckedInvariants # {} /\ Check THEN GetCheckedActions ELSE {}
  /\ pc' = "actions"
  /\ UNCHANGED <<src, opts, axs, lineno, saved, cur, lines, roots, tried, progVars>>

Starts(r) == r.pre \in GetConjs \cap axs

ActionFails(a) ==
  /\ a \notin src.broken
  /\ \E g \in Goals :
       /\ ~g.opaque
       /\ Verdict(\E r \in src.runs[a] : Starts(r) /\ Enabled(r) /\ r.post \in axs \ g.models)

(* External actions must preserve the invariant; for one that cannot be      *)
(* executed there is a warning and no failure.                               *)
CheckAction ==
  /\ pc = "actions"
  /\ \E a \in todo :
       /\ failed' = (failed \/ ActionFails(a))
       /\ todo' = todo \ {a}
  /\ UNCHANGED <<src, opts, pc, axs, lineno, saved, cur, lines, roots, tried, progVars>>

EndActions ==
  /\ pc = "actions" /\ todo = {}
  /\ todo' = Acts
  /\ pc' = "guarantees"
  /\ UNCHANGED <<src, opts, axs, failed, lineno, saved, cur, lines, roots, tried, progVars>>

-----------------------------------------------------------------------------
(* The guarantees: assertions, wherever they are, seen from every external   *)
(* action that reaches them.                                                 *)

callgraph == [b \in Acts |-> {a \in Acts : b \in src.calls[a]}]
Roots == Reach(cur, callgraph) \cap GetCheckedActions

VisitAction ==
  /\ pc = "guarantees"
  /\ \E a \in todo :
       /\ todo' = todo \ {a}
       /\ cur' = a
       /\ lines' = IF opts.noCheckGuarantees THEN {}
                   ELSE {l \in src.asserts[a] : Selected(l) /\ IsGuaranteeModUnprovable(l)}
  /\ pc' = "lines"
  /\ UNCHANGED <<src, opts, axs, failed, lineno, saved, roots, tried, progVars>>

(* A line is skipped when it was tried from every root: an assertion that    *)
(* several actions share is named by its line.                               *)
SkipLine ==
  /\ pc = "lines"
  /\ \E l \in lines :
       /\ ~Check \/ \A r \in Roots : <<r, l>> \in tried
       /\ lines' = lines \ {l}
  /\ UNCHANGED <<src, opts, pc, axs, failed, lineno, saved, todo, cur, roots, tried, progVars>>

TryLine ==
  /\ pc = "lines" /\ Check
  /\ \E l \in lines :
       /\ \E r \in Roots : <<r, l>> \notin tried
       /\ lines' = lines \ {l}
       /\ saved' = lineno
       /\ lineno' = l
  /\ roots' = Roots
  /\ pc' = "roots"
  /\ UNCHANGED <<src, opts, axs, failed, todo, cur, tried, progVars>>

GuaranteeFails(a) ==
  a \notin src.brokenNamed /\ Verdict(\E r \in src.runs[a] : Starts(r) /\ Fails(r))

\* Faulty variant of TryRoot: the parts of the key are swapped.
TryRootSwapped ==
  /\ pc = "roots"
  /\ \E a \in roots :
       /\ tried' = tried \cup {<<lineno, a>>}
       /\ failed' = (failed \/ GuaranteeFails(a))
       /\ roots' = IF GuaranteeFails(a) THEN {} ELSE roots \ {a}
  /\ UNCHANGED <<src, opts, pc, axs, lineno, saved, todo, cur, lines, progVars>>

\* Faulty variant of TryRoot: a root counts as tried from every line.
TryRootOnce ==
  /\ pc = "roots"
  /\ \E a \in roots :
       /\ tried' = tried \cup ({a} \X Lines)
       /\ failed' = (failed \/ GuaranteeFails(a))
       /\ roots' = IF GuaranteeFails(a) THEN {} ELSE roots \ {a}
  /\ UNCHANGED <<src, opts, pc, axs, lineno, saved, todo, cur, lines, progVars>>

\* Faulty variant of TryRoot: a root the guarantee fails from is tried again.
TryRootAgain ==
  /\ pc = "roots"
  /\ \E a \in roots :
       /\ tried' = tried \cup {<<a, lineno>>}
       /\ failed' = (failed \/ GuaranteeFails(a))
       /\ roots' = IF GuaranteeFails(a) THEN roots ELSE roots \ {a}
  /\ UNCHANGED <<src, opts, pc, axs, lineno, saved, todo, cur, lines, progVars>>

(* The first root the guarantee fails from is the last one tried.  A root    *)
(* that cannot be executed counts as tried, with a warning and no failure.   *)
TryRoot ==
  /\ pc = "roots"
  /\ \E a \in roots :
       /\ tried' = tried \cup {<<a, lineno>>}
       /\ failed' = (failed \/ GuaranteeFails(a))
       /\ roots' = IF GuaranteeFails(a) THEN {} ELSE roots \ {a}
  /\ UNCHANGED <<src, opts, pc, axs, lineno, saved, todo, cur, lines, progVars>>

\* Faulty variant of EndLine: the line that was checked stays selected.
EndLineKeepsLine ==
  /\ pc = "roots" /\ roots = {}
  /\ pc' = "lines"
  /\ UNCHANGED <<src, opts, checkVars, progVars>>

EndLine ==
  /\ pc = "roots" /\ roots = {}
  /\ lineno' = saved
  /\ pc' = "lines"
  /\ UNCHANGED <<src, opts, axs, failed, saved, todo, cur, lines, roots, tried, progVars>>

EndLines ==
  /\ pc = "lines" /\ lines = {}
  /\ pc' = "guarantees"
  /\ UNCHANGED <<src, opts, checkVars, progVars>>

Finish ==
  /\ pc = "guarantees" /\ todo = {}
  /\ pc' = "done"
  /\ UNCHANGED <<src, opts, checkVars, progVars>>

(* An error of the solver, for lack of a translation of what is assumed or   *)
(* of an answer, is a panic.                                                 *)
AsksSolver ==
  \/ pc = "props" /\ PropsChecked
  \/ pc = "init" /\ InitChecked
  \/ pc = "initAsserts" /\ InitAssertsChecked
  \/ pc = "actions" /\ todo \ src.broken # {}
  \/ pc = "roots" /\ roots \ src.brokenNamed # {}

SolverPanics ==
  /\ AsksSolver
  /\ pc' = "error"
  /\ UNCHANGED <<src, opts, checkVars, progVars>>

CheckStep ==
  \/ CheckFragment \/ CheckProps \/ ApplyConjProofs \/ CheckInit
  \/ CheckInitAsserts \/ CheckAction \/ EndActions \/ VisitAction \/ SkipLine \/ TryLine
  \/ TryRoot \/ EndLine \/ EndLines \/ Finish

-----------------------------------------------------------------------------
(* The program that was checked, in an environment that calls its external   *)
(* actions.  Axioms, what is assumed of properties and the invariants of     *)
(* other isolates hold of it: they are not this check's to establish.        *)
Real(s) ==
  /\ s \in src.axioms \cap src.assumedInv
  /\ \A i \in 1..Len(src.props) : src.props[i].kind # "checked" => Holds(s, i)

Boot ==
  /\ pc = "done" /\ st = NoStruct /\ crash = "none"
  /\ \E r \in src.initRuns :
       /\ Real(r.post)
       /\ IF r.first = NoLine THEN st' = r.post /\ UNCHANGED crash
                              ELSE crash' = "init" /\ UNCHANGED st
  /\ UNCHANGED <<src, opts, pc, checkVars>>

Call ==
  /\ pc = "done" /\ crash = "none"
  /\ \E a \in src.public : \E r \in src.runs[a] :
       /\ r.pre = st /\ Real(r.post)
       /\ IF r.first = NoLine THEN st' = r.post /\ UNCHANGED crash
                              ELSE crash' = "action" /\ UNCHANGED st
  /\ UNCHANGED <<src, opts, pc, checkVars>>

Next == CheckStep \/ SolverPanics \/ Boot \/ Call

(* The check is sequential and every solver call returns or panics; none has *)
(* to panic.                                                                 *)
Spec == Init /\ [][Next]_vars
FairSpec == Spec /\ WF_vars(CheckStep)

-----------------------------------------------------------------------------
PCs == {"fragment", "props", "proofs", "init", "initAsserts", "actions", "guarantees",
        "lines", "roots", "done", "error"}

(* Every variable has its type. *)
TypeOK ==
  /\ src \in Sources
  /\ opts \in Options
  /\ pc \in PCs
  /\ axs \in Formula
  /\ failed \in BOOLEAN
  /\ lineno \in Lines \cup {NoLine}
  /\ saved \in Lines \cup {NoLine}
  /\ todo \in SUBSET Acts
  /\ cur \in Acts \cup {NoAct}
  /\ lines \in SUBSET Lines
  /\ roots \in SUBSET Acts
  /\ tried \in SUBSET (Acts \X Lines)
  /\ st \in Structs \cup {NoStruct}
  /\ crash \in {"none", "init", "action"}

(* No option leaves an obligation out.                                       *)
Everything ==
  ~opts.summary /\ ~opts.unprovable /\ ~opts.noCheckGuarantees
    /\ opts.action = NoAct /\ opts.lineno = NoLine

(* And nothing was passed over: every condition translates, and every action *)
(* can be executed.  The code only warns of the latter, and says nothing of  *)
(* the former.                                                               *)
NothingSkipped ==
  /\ \A i \in 1..Len(src.props) : src.props[i].kind = "checked" => ~src.props[i].opaque
  /\ \A c \in Conjs : \A g \in c.goals : ~g.opaque
  /\ src.public \cap (src.broken \cup src.brokenNamed) = {}

(* A check without a failure, of which nothing was left out or passed over,  *)
(* is a proof: in no state the program can get into, whatever external       *)
(* actions are called in whatever order, is one of the isolate's invariants  *)
(* or properties false, and no assertion fails in an action.                 *)
Sound ==
  pc = "done" /\ Everything /\ NothingSkipped /\ ~failed =>
    /\ crash # "action"
    /\ st # NoStruct =>
         /\ \A c \in Conjs : st \in c.models
         /\ \A i \in 1..Len(src.props) : Holds(st, i)

(* The obligations, each stated on its own; what is passed over is none.     *)
Theory == {s \in src.axioms : \A i \in 1..Len(src.props) : Holds(s, i)}
Wanted(l) == opts.lineno = NoLine \/ l = opts.lineno
Considered(r) == opts.lineno = NoLine \/ r.fails \subseteq {opts.lineno}
FromInvariant(r) == r.pre \in GetConjs \cap Theory

PropsHold ==
  \A i \in 1..Len(src.props) :
    src.props[i].kind = "checked" /\ ~src.props[i].opaque /\ Wanted(src.props[i].line) =>
      \A s \in src.axioms : AssumedBefore(s, i) => Holds(s, i)
InitEstablishes ==
  \A c \in Conjs : Wanted(c.line) => \A g \in c.goals, r \in src.initRuns :
    ~g.opaque /\ Considered(r) /\ r.post \in Theory => r.post \in g.models
InitAssertsHold ==
  \A r \in src.initRuns : r.first = NoLine \/ ~Wanted(r.first)
ActionsPreserve ==
  \A a \in GetCheckedActions \ src.broken, c \in Conjs : Wanted(c.line) =>
    \A g \in c.goals, r \in src.runs[a] :
      ~g.opaque /\ FromInvariant(r) /\ Considered(r) /\ r.post \in Theory
        => r.post \in g.models
GuaranteesHold ==
  \A a \in GetCheckedActions \ src.brokenNamed : \A r \in src.runs[a] :
    FromInvariant(r) => r.first = NoLine \/ ~Wanted(r.first)

(* The options leave out what they are documented to leave out: a failure is *)
(* reported exactly when an obligation that is selected, and that the solver *)
(* can be asked about, does not hold, however the assertions are shared by   *)
(* actions and lines, and whatever roots they were tried from before.  Those *)
(* of the initializers count only if the last of these has one, which is     *)
(* what the code does and not what it says.                                  *)
VerdictExact ==
  pc = "done" /\ ~opts.summary /\ ~opts.unprovable =>
    (~failed <=>
       /\ opts.action = NoAct => PropsHold /\ InitEstablishes
       /\ InitializerGuarantees # {} => InitAssertsHold
       /\ ActionsPreserve
       /\ opts.noCheckGuarantees \/ GuaranteesHold)

(* The check ends.                                                           *)
Terminates == <>(pc \in {"done", "error"})
=============================================================================
