# GoIvy: TLA+ models, model checking and proofs

GoIvy is a Go port of Ivy: a compiler for the Ivy language, a checker that
reduces the proof obligations of isolates to Z3 queries, interactive proof
tools (analysis graphs, UPDR, sessions about counterexamples to induction,
concept graphs), code generators, and a web application with a Go server and a
TypeScript front end. These modules model the parts that decide whether a
verdict can be trusted and whether the server stays alive: how a check goes
through its obligations and its solver, and how checks are run, interrupted
and stopped.

Paths below are relative to `src/goivy/`; `file.go:12` is a line of the source.

1. Inventory of the system
2. Modules, and how they correspond to the code
3. Runs, bounds and fairness
4. Proofs
5. Where code and documentation disagree
6. What is not modelled
7. Plan

## 1. Inventory

### How the parts work together

    page ── requests, cancelled, late or lost ──▶ HTTP handler

    HTTP handler ──do──▶ backend goroutine ──▶ session ──▶ check ─────┐
      │ request context        (one thread)   caches, sheets          │
      └──▶ watcher ── interrupts ───────────────────────────▶ Z3 ◀──┐ │
                                                                     │ ▼
    goivy_check ──▶ CheckModule ──▶ CheckIsolate ──▶ CheckFcsInState ─┤
                        │                                             ▼
                        └──▶ mc / vmt / bmc ──────▶ GetSmallModelWithCond

A handler of the web server calls an operation of the session through
`GoBackend.do`: it hands a closure to the one goroutine that owns the session
and its Z3 contexts, and waits. A check of the session builds an analysis graph
(`MakeCheckArt`) and asks, for each conjecture, whether its negation can be met
after an action; the same question, for one state and a list of conditions, is
what `goivy_check` asks for every obligation of every isolate. All these
questions end in `GetSmallModelWithCond`, with one Z3 solver.

### Components

| component | state it keeps | operations | what is hard | what makes it correct |
| --- | --- | --- | --- | --- |
| backend goroutine (`webui/webui_backend_go.go`) | `doChan`, a halter, a ticket for each call | `do`, the select loop, `Close` | callers, loop and `Close` interleave; an error ends the loop | a call is atomic and answered; nothing runs after `Close` |
| check of a session (`webui/webui_session.go`, `trace.go`, `bmc.go`) | request context, watcher, heartbeat, event channel | `RunCheckWithOptions`, `watchCheckCancellation`, the modes | cancellation races the check, its own end and the next check | verdict right, cancellation acts on its own check, nothing left behind |
| solver for final conditions (`z3bridge_solver_model.go`, checkers in `check.go`) | assertion stack of a Z3 solver, flags of the checkers | `GetSmallModelWithCond` | one solver pushed and popped, or a fresh one for each condition; minimization | each verdict is that of its own condition; models are counterexamples |
| isolate checking (`check_isolate_check.go`, `check.go`, `actions_update.go`) | failures, selected line, tried guarantees, background theory | `CheckIsolate` and what it calls | obligations shared by actions, filters of options, order of assumptions | no failure means a proof |
| module checking (`check_isolate_check.go`, `check.go`, `mc_toaiger.go`, `check_vmt.go`) | configuration and copies of it, macro finder | `CheckModule`, `MCIsolate`, `startLoaded` | five methods, one configuration for many isolates and files | OK means every selected line was proved |
| UPDR (`tactics.go`, `iupdr/`) | frames, facts, goal stack | `UPDR.Apply`, `RefineOrReverse`, `RecalculateFacts` | refine or reverse, goals across frames, frames kept between checks | frames over-approximate, an invariant is inductive, it ends |
| bounded model checking (`bmc.go`) | analysis graph | `BMCCheckIsolate` | errors and bounds | every depth up to the bound is searched |
| analysis graph (`art.go`, `art_phase7.go`) | states, transitions, coverings | `Add`, `Execute`, `Cover`, `BMC` | covering against later strengthening | a state over-approximates its predecessor's image |
| proof goals, tactics (`proof_checker.go`, `proof_goal.go`, `tactics_ivy_tactics.go`) | stack of goals | `Apply`, `Vcgen`, `Sorry`, `CheckSubgoals` | what a tactic drops, failures counted by difference | no goal disappears unreported |
| session: load, caches, sheets, interpolants (`webui/webui_session.go`) | module, options, two Z3 caches, sheets, interpolants | `LoadFileContentWithIsolate`, `invalidateCachedModelStateLocked`, sheet calls | what survives a reload, a failed load | nothing cached outlives what it was computed from |
| Python bridge (`webui/webui_backend_py.go`) | a Python process and its port | each operation is an HTTP request to it; `Close` | process dies, answers late | an answer belongs to its request |
| HTTP server, event stream (`webui/webui_server.go`, `webui_handlers.go`) | none of its own; one event channel per session | routes, `apiEvents` | full channel, two streams of one session | who follows a session learns how its check ended |
| concept graphs and CTI sessions (`webui/webui_concept.go`, `webui_ui_cti.go`) | conjectures, counterexample; nodes, edges, constraints, undo stack | weaken, strengthen, split, gather, undo, `Recompute` | undo, stale facts | facts hold in the state shown |
| WASM engine (`webengine/engine.go`) | a backend | one method per operation of the session | none: one thread | as the session |
| front end (`webui/frontend/src/services`) | active check, depth of the overlay, editor text | `runCheck`, `checkInduction`, `cancelActiveCheck`, `weakenInvariant`, `ctiConceptAction` | functions that await requests interleave; cancelled requests are still served | a verdict is about the text shown; the overlay goes away; edits do what the user chose |
| liveness to safety, ranking, VMT (`check_l2s*.go`, `check_ranking.go`, `check_vmt.go`, `temporal.go`) | none | formula transformations | the monitor's save and freeze | a lasso is found if there is one |
| model checking by AIGER (`mc_*.go`) | circuit | `ToAiger`, external checker | finite abstraction | circuit refines the isolate |
| action semantics (`actions_*.go`) | none | updates, composition | renaming of symbols | formula denotes the runs |
| congruence closure, union-find, unit resolution (`congclos.go`, `unionfind.go`, `unitres.go`) | classes, watch lists | `Union`, `Find`, propagate | pure | least congruence |
| ordered containers (`ivyutils_dmap.go`, `ivyutils_insmap.go`, `ivyutils_omap.go`) | map and order | set, delete, range | delete while ranging | order of insertion or of keys |
| Z3 bridge (`z3bridge_*.go`, `smt/`) | contexts, caches of sorts and declarations | translation | sharing of contexts | translation keeps meaning |
| parsers, lexer (`parser_*.go`, `lexer.go`) | tables | parse | generated | grammar |
| compiler, isolates, inference, fragment (`compiler*.go`, `isolate.go`, `typeinfer_infer.go`, `fragment.go`) | module under construction | passes | term rewriting | meaning kept |
| syntax, terms, modules (`ast*.go`, `logic_*.go`, `module.go`) | none | constructors | data | well-formed |
| code generators (`ivy2golang`, `ivy2cpp`, `ivy2go`, `gogen`) | text | emit | size | generated code runs the module |
| Zlisp, REPL, launchers (`zlisp`, `ivyrepl`, `ivylaunch`, `alpha.go`) | interpreter | eval | another language | - |
| vendored Z3, Python Ivy (`z3vendor`, `pyivy`) | - | - | third-party | taken as it is |

`PROJECT.json` has the same list, with each component's status, and the hazards:
places where an interleaving, a stale value, a partial failure or a filter could
make a verdict wrong, each at its line and with the properties about it.

## 2. Modules, and how they correspond to the code

| module | models | for TLC | proofs |
| --- | --- | --- | --- |
| `RequestService` | what the backend goroutine promises (abstract) | | |
| `SameSingleThread` | `sameSingleThread`, `GoBackend.do`, `Close` | `MCSameSingleThread` | `SameSingleThreadProofs` |
| `FinalConds` | `GetSmallModelWithCond` and its checkers | `MCFinalConds` | `FinalCondsProofs` |
| `IsolateCheck` | `CheckIsolate` | `MCIsolateCheck` | `IsolateCheckProofs` |
| `ModuleCheck` | `CheckModule`, `MCIsolate`, `startLoaded` | `MCModuleCheck` | `ModuleCheckProofs` |
| `CheckSession` | checks of the web session and their cancellation | `MCCheckSession` | `CheckSessionProofs` |
| `Updr` | the UPDR tactic, as pdr checks of a session run it | `MCUpdr` | `UpdrProofs` |
| `InvariantEdit` | the page and the session while an invariant is edited and checked | `MCInvariantEdit` | `InvariantEditLists`, `InvariantEditProofs` |

Each layer takes the layer below as a step: `RequestService` is why
`CheckSession` may run its checks one after another; `CheckSession` has one
answer of Z3 for each query that a call of `FinalConds` details;
`IsolateCheck` takes one `CheckFcsInState` as a step; `ModuleCheck` takes one
isolate as a step; `Updr` details the mode pdr that `CheckSession` leaves out;
`InvariantEdit` takes a request as a step of the backend goroutine, and the
verdict of an induction check as what `CheckSession` says it is when nothing is
interrupted. Operators named *Faulty variant* stand before the definition
they vary: each is a plausible bug, which the property it is paired with in
`PROJECT.json` detects; no specification uses them.

**SameSingleThread.** A ticket stands for a call of `do` and for the goroutine
that made it. `Do` and `Return` are the two halves of `do`, before and after
the closure; `TakeTicket`, `FinishClosure` and `Answer` are one turn of the
loop; `TakeStop`, `DeferReqStop` and `DeferDone` are its way out, in the order
of its deferred function; `Close` and `CloseReturn` are `Close`. What a closure
does is left open: the backend state is the sequence of the closures applied,
read at the start of a closure and written at its end, so that overlapping
closures would show. Under the refinement mapping a call is *applied* when its
closure has ended and *replied* when `do` has returned; `RequestService` says
that calls are applied one at a time, each between its call and its return, none
after an error or a stop.

**FinalConds.** A formula is the set of its models, so a solver is a stack of
sets, and `Sat`/`Unsat` ask whether the top is empty. `AssumeCond`, `SkipCond`
and `CheckCond` are the loop over the conditions, `Sat` and `Unsat` what the
checkers are told and what they answer, `TrySize`, `Fits` and `TooSmall` the
minimization by sorts and then relations. A bound that has no translation ends
the work on its sort or relation without a word (`LeaveMeasure`, the `break` at
`z3bridge_solver_model.go:1376` and `:1398`), so `ModelIsSmallest` speaks of the
measures that could be bounded, whichever these are; Z3 may have no model to give
after all (`ModelMissing`). `CallType` has every option that
changes the control flow: incremental or fresh solvers, unprovable mode, stop at
the first failure, a formula or a condition without translation. Z3 may answer
*unknown* to any query (`GiveUp`).

**IsolateCheck.** States are structures, formulas sets of structures. A run of an
action carries the lines of assertions that fail on its way and which comes
first, recorded as if none stopped it, since the code computes transition
relations that way and then selects by line (`Enabled`, `Fails`). `CheckProps`,
`ApplyConjProofs`, `CheckInit`, `CheckInitAsserts`, `CheckAction` and the three
loops of guarantees (`VisitAction`, `TryLine`/`SkipLine`, `TryRoot`) are the
phases of `CheckIsolate` in their order; where the code goes through a map or a
sorted list whose order does not matter, any order is taken. A condition that is
`opaque` has no translation and is passed over, as in `SkipCond` of `FinalConds`;
an action that is `broken` makes `Execute` fail, for which there is a warning and
no failure (`check_isolate_check.go:364` for its turn in `CheckAction`,
`brokenNamed` and `:549` for that in `TryRoot`). `CheckFragment` may end the check
with an error, and so may the solver (`SolverPanics`): `check.go:618` and `:645`
throw away a solver, not its error, and an error of the search for a model is a
panic (`actions_phase4.go:292`). After the check the
program may be run (`Boot`, `Call`): soundness then speaks of its real states
and not of the obligations. Left out: isolates with a proof of their own,
temporal properties, the trace and diagnose modes, postconditions of ranking
proofs. `Sound` has the premise `NothingSkipped`, and promises nothing about
assertions in initializers, because the code looks for them only in the
initializer that sorts last (`check_isolate_check.go:609`; the comment at
`:271-273` keeps this on purpose).

**ModuleCheck.** An isolate is what can go wrong with it: the lines of its
invariants and assertions, which of them do not hold (`bad`; `badInit` in an
initializer), which the solver cannot be asked about (`skipped`) and which a proof
drops (`sorry`), and its attributes. A file without isolates is checked as one
isolate without a name, so it is a file with one. `Start` loads a file, which may
fail or be asked for nothing (`none.ivy:0`). `Create` sets the macro finder aside
and copies the module, `CheckIC` is the default method, which may end with an
error after some failures, `BeginMC`, `MCAll` and `MCEach` are `MCIsolate` for the
methods mc, vmt and bmc, whole or line by line, `Restore` and `Finish` close the
loop. `Looked` and `Target` say what each method looks at, as coded: bmc never at
initializers, the default method at those of all of them if the last has one that
is selected. A step that cannot be executed ends a bounded check as if nothing had
been found (`stops`; `bmc.go:118`, `check_isolate_check.go:1158`). `Exempt` and
`InitExempt` list what an OK says nothing of. The configuration lives on between
files, as in a process that checks several.

**CheckSession.** A job is a mode and the fate of each of its queries: decided,
among these one whose model does not convert to a trace (`badmodel`,
`trace.go:1135-1142`); given up; endless; a panic; not asked, for want of a
translation or of a state with a history (`skipped`,
`z3bridge_solver_model.go:1318`, `trace.go:1032-1041`). `NoTrace` is what all
callers of `CheckVC` take for *no counterexample*. `Begin` to `BuildArt` prepare; `Ask` and an answer
are one query, in the first pass over the conjectures (`list`), in the
reconstruction of a trace, in the fallback after a panic, or in the loops of the
other modes (`direct`). Each check has a watcher that is fresh, parked at its
select, woken or gone, and nobody waits for it: a woken watcher may interrupt a
later check. Z3 is idle, running or interrupted; an interrupt that meets no query
is forgotten (`z3vendor/z3/src/util/rlimit.cpp:41-49`). The contexts of a
session are treated as the one that the check uses. Left out: mode pdr, the
heartbeat and the events, the sheet made for a failed check, and the query that
minimizes selected relations, which does not change the result.

**Updr.** A formula is the set of its models, a fact is such a set, a node of the
analysis graph is the set of facts known at it. `Begin` is `runUPDR`, which makes
an initial state only for an empty graph; `FindInvariant`, `AddFrame` and
`NoFrame` are the head of the loop over the frames; a turn of the loop over the
goals is `Refuted`, `GoalLimit` or `Pursue`, which takes a diagram and refines
(`Refine`), reverses (`Reverse`) or can do neither (`Stay`); `Propagate` is one
frame of the propagation. The action is one relation, the big action of the
code. `Execute` computes a state from a copy of its predecessor (`art.go:967`),
and the copy, not the predecessor, is what the new state points back to; a copy
is made of everything behind it too. So `graph[i]` is a sequence: state `i` last,
its own copies of the states before it in front. A goal's position is a pair: whose
copies, and which of them. Any interpolant between the image and the diagram may
be returned, and `hard` lists the kinds of query the solver may leave undecided
in a program. Left out: frames that are states of another check's trace, and the
node before the first that initializers add.

**InvariantEdit.** The functions of the page are records with a program counter,
one for each check (`run`), one for `weakenInvariant` (`weak`) and one for the
Strengthen of `ctiConceptAction` (`str`); each `await` ends a step. A request is
put in `queue` by `Send`, served by the session in one step (`Load`, `Check`,
`List`, `Weaken`, `Strengthen`; `Look` stands for the requests that only show
something) and answered through `reply`. `StartCheck`, `AfterLoad` and
`AfterCheck` are common to `checkInduction` and `runCheck`, which goes on with
`AfterViews` and `AfterToggles`; `Finish` is the end of the result and the
`finally`, `Report` and `CloseReport` are `reportRunContextError`, as is
`CloseStrengthen`. A load may fail before the module is in place, whether the text
compiles or not, or after, and it does without the module for induction if that
cannot be made (`webui_session.go:531`). `Cancel` is
`cancelActiveCheck`: what carries the abort signal is rejected at once and its
request belongs to nobody from then on; it may be served later or never (`Lose`).
The requests for toggles carry no signal (`checkService.ts:451`), so such a check
ends later. `Free` says when the user can reach a button: no overlay and no
dialog. The session has the conjectures of the compiled module (`labeled`), those
of `CTIUI` (`cti`), the module for induction of a wrapper file
(`webui_session.go:166-253`), and the counterexample (`haveCTI`, `current`). The
fields `wanted`, `checked`, `removed` and `reloaded` are history. Left out:
modes other than induction, the selection of facts behind a new conjecture, and
what server events do to the page.

## 3. Runs, bounds and fairness

Runs that pass:

| run | instance | distinct states | shows |
| --- | --- | --- | --- |
| `single_thread` | 3 calls, 2 `Close` | 5 064 | tickets are served, replies are the caller's own, quiet after `Close`, calls and `Close` return if closures end, implements `RequestService` |
| `final_conds` | lists of up to 3 conditions over 2 structures; minimization over 4 | 197 106 | verdicts exact, models are counterexamples and smallest in what could be bounded, the search ends |
| `isolate_check` | 3 actions, 2 lines, 2 structures | 2 637 654 | soundness of the verdict; exactness under options; termination |
| `module_check` | 1 file of up to 2 isolates, or 2 or 3 files of 1 | 229 775 | OK is a proof but for named exceptions; BOUNDED exact; macro finder restored |
| `check_session` | 3 checks, 2 queries each | 114 993 | verdicts right under stray interrupts; cancellation is the check's own; no goroutine left |
| `updr` | 16 programs of 4 structures, 3 frames, 9 turns, 2 runs on one graph | 44 572 | frames over-approximate; a proof covers the depth it searched; a counterexample is never a proof; progress; termination |
| `invariant_edit` | 2 checks, 2 edits, 3 texts, 3 conjectures | 1 166 398 | lists agree; counterexamples and verdicts are current; what is removed was chosen; the overlay matches the work and goes away |

Runs that fail by design are in section 5.

Why the bounds are enough for the cases that matter:

- *single_thread*: with three calls an error comes first, in the middle or last,
  one call runs while one is blocked and one has not begun. Two `Close` are
  needed because the second finds a halter that is already closed
  (`webui_backend_conform_test.go:46`).
- *final_conds*: a condition is wrong through what came before it; three of
  them give an assumption or a check before, between and after. Two structures
  tell formula, assumption and condition apart. Minimization needs two measures,
  the second under the bound of the first, and models that are smallest in one
  and not in the other.
- *isolate_check*: `e1` and `e2` both reach `f`, so an assertion has two roots,
  and a line is shared by two actions; two structures are the invariant and its
  outside. Every pair of runs, with every set of failing lines and every first
  one, is tried. Properties and goals without a translation and actions that
  cannot be executed come in sources of their own, next to ones that can.
- *module_check*: what one isolate or one file leaves behind meets the next one;
  two lines let a check by lines fail at the first or at the second. Each
  exception of `OkIsProved` has an isolate that needs it: without any one of them
  the run fails.
- *check_session*: two late watchers can disturb the third check. Two queries
  put an interrupt during the first, between them, or during the second.
- *updr*: the bad structure is one, two and three steps away, or never reached,
  or not excluded at all; with three frames a goal is reversed past a copy of a
  copy, and nine turns let it reach the initial state and return. In some
  programs a diagram describes two structures, the action can fail, or a kind of
  query stays undecided. The second run starts from what the first has left, in
  every way a run can end. The code's bounds are 100 frames and 1000 turns.
- *invariant_edit*: two checks, so that a cancelled one can end, or its requests
  be served, during the next; two edits, so that a Strengthen, a Weaken or a new
  text comes between a list and its use; a text that is inductive only after it
  is strengthened, a wrapper, and one that does not compile. Whether requests
  keep their order on the way to the backend is chosen once, since browsers may
  use several connections: `VerdictOfEditor` promises something only if they do.

Fairness. `SameSingleThread`: weak fairness of the steps of goroutines that are
not blocked, since Go's scheduler is preemptive, but not of `FinishClosure`: a
closure is an operation of a session, and no scheduler makes one end that waits
for Z3 (`check_session_cancel` is about such a query). `CallsReturn` and
`CloseReturns` have `ClosuresEnd` as their premise, so what they say is that
nothing else keeps a caller or `Close` waiting. Strong fairness of the cases of
the select and of each sender, because a select with several ready cases picks
pseudo-randomly and blocked senders queue. Nobody has to call `do` or `Close`.
`FinalConds`, `IsolateCheck` and `Updr` are sequential: weak fairness of the next
step says that Go runs on and that Z3 answers, *unknown* at worst; of the program
after a check, of starting another run, and of a panic of the solver, nothing is
assumed.
`CheckSession`: weak fairness of the check and of each watcher; clients need not
leave. Queries that never end are part of the model: `CheckReturns` excludes
them in its premise, and `CancelEndsCheck` is about them. `InvariantEdit`: the
backend serves what has arrived and the page's event loop runs on; the user need
not do anything, not even close a dialog, and a request that was given up may be
lost. `CHECK_DEADLOCK` is
off in each configuration because a check, a call and a server do end.

## 4. Proofs

Each theorem holds for all values of the constants that satisfy the named
assumptions of its module: that `NoLine`, `NoTicket`, `None` and their like are
not members of the sets they extend, that jobs and calls have their types, and in
`IsolateCheck` that sources are compiled from programs (`WellFormed`: runs fail
only at assertions of the actions they can reach, a goal list left by a tactic
implies its conjecture). No set is assumed to be finite but that of the checks of a
page, whose number `OverlayMatches` compares with the depth of the overlay.

**SameSingleThreadProofs** (390 obligations): `TypeCorrect`, `TicketsServed`
(`TakenIsServed` and `NoLostUpdate`), `RepliesAreOwn`, `QuietAfterCloseHolds`,
`ErrorIsLastHolds`, `Implementation`. The inductive invariant adds to the types:
which ticket is in hand in which state of the loop, and that the backend state
has not changed since the closure read it (`HandInv`); that answered, applied and
waiting tickets agree with the steps of their calls (`TicketInv`); and that
`Done` is closed by the last step of the goroutine and an error that was answered
has taken it out of its loop (`HaltInv`). The refinement is step simulation:
`FinishClosure` is the abstract application, `DeferDone` the abstract stop, most
other steps stutter.

**FinalCondsProofs** (1193): `TypeCorrect`, `VerdictsAreExact`,
`ModelsAreCounterexamples`, `ResultIsThatOfCheckers`, `ModelsAreSmallest`. The
invariant says that in incremental mode, between
conditions, the solver's one scope holds exactly the formula and the assumptions
so far, that this is also what a fresh solver gets from the list `assumes`, and
that while a condition is decided the top scope is all this together with it;
`ReplayGrows` and `SolverHolds` are the two lemmas that make both modes the same.
For the result of a call that stops at its first failure: none of the conditions
before `k` failed, and once the loop is left with a model the condition `k` did
(`ResultInv`). While a model is minimized, its scope stays within the failed
condition. Minimization bounds one measure after another, so the scope is what is
smallest in the measures that were bounded so far, ties included, and no model in
it is below the bound being tried (`SizeInv`); `OneMoreMeasure` is the step from
one measure to the next, and a measure that is left as it is changes nothing in
the order of the others.

**IsolateCheckProofs** (909): `TypeCorrect`, `VerdictsAreExact`, `Soundness`. In
each phase of the check it has failed if and only if an obligation of this or of
an earlier phase does not hold, among those whose turn is over and that the solver
could be asked about (`FailedPart`).
After its first phase it works with the axioms and all properties as its theory,
whether they held or not (`TheoryPart`). For guarantees, the key of the `tried`
set carries the proof in both directions: only lines that are selected, from
roots that are checked, are tried (`TriedPart`), and while nothing has failed
every selected line of an action that was visited was tried from every root that
reaches it (`VisitedPart`). The line option is back to its old value between
guarantees (`LinePart`). At the end this is `VerdictExact`, for any options.
Soundness is the special case without options that leave something out and with
nothing passed over (`NothingSkipped`), followed
by the usual argument about invariants: every state of the program is in the
theory, initial states meet the goals, every action preserves them, and by
`CallersReach` (an action that reaches another by calls is reached from it in the
call graph) the roots that were tried include every action whose runs can fail at
an assertion. So every reachable state satisfies the invariant and no call
crashes (`ProgramPart`).

**ModuleCheckProofs** (1172): `TypeCorrect`, `OkMeansProved`, `BoundedIsExact`,
`MacroFinderScoped`. Unless a failure was counted, every isolate before `i` is
proved but for what `Exempt` and `InitExempt` name, and on lines that are no longer
in `toCheck` the method found nothing (`ProgressPart`); `SomeBounded` is set if and only if an isolate whose method has
begun is bounded (`BoundedPart`); on an isolate that asks for it the macro finder
is off, and its saved value is the option's (`MacroPart`).

**CheckSessionProofs** (762): `TypeCorrect`, `VerdictIsRight`,
`CancellationIsOwn`. Each watcher interrupts at most once and not before its
request is cancelled (`WatchPart`); then what each pass over the queries has
seen (`SeenPart`): in the first pass every query before `k` that was asked was
refuted by Z3; a check in its fallback, if Z3 can decide all its queries, has been
interrupted already, and without a second watcher the same holds of the second
pass if no model is lost on its way to a trace. That is why an induction check
withstands one stray interrupt but not two.

**UpdrProofs** (1286): `TypeCorrect`, `FramesAreSound`, `ProgressAlways`,
`KeptCounterexample`, `NoProofOfCounterexample`, `ProofToDepth`. The graph only
grows (`GraphStepGrows`), a new fact holds after what is known at the node's own
predecessor, and each node's copies are a path of over-approximations
(`FramesStep`): that is `FramesAreSound`. For the others the invariant follows the
stack: goals stay where they are until they are refuted (`GoalsKept`); a goal at
a node without a predecessor that is not refuted can never be, since only nodes
with a predecessor learn facts from interpolants (`InitialKept`), and while the
run goes on the goal of the frame just added lies at the bottom of what was
pushed after it (`OnTop`). When the loop over the goals is left, each frame added
by the run has lost its bad goal, so the frame excludes the bad structures (`Cleared`), unless the solver gave no
diagram and the goal is still there (`Abandoned`). With `FramesAreSound` this
gives the depth of a proof.

**InvariantEditLists** (614) has the lemmas about lists. `Kept` is the loop of
`ExecuteAction` that copies what stays, `CutOut` that of `CTIUI.Weaken`, which cuts
the rest out from the last one on: `CutOutIsKept` says that they compute the same
list. The second loop is followed backwards; at each place what it has made so far
is the untouched beginning of the list and then what the first loop makes of the
rest (`Half`, `Spliced`). `RemovedOfBeginning` says that what positions remove
depends on nothing behind them.

**InvariantEditProofs** (2248): `CounterexampleCurrent`, `OverlayIsRight`,
`TypeCorrect`, `ListsStayAligned`, `WeakenRemovesChosen`, `VerdictIsOfEditor`. Every
load and every edit drops the counterexample and every check computes it from the
conjectures as they are, so of the types only the fields of the session are needed
(`CTIInv`). For the overlay: at most one function works, its check has the overlay
open and is the active one, and a check that was given up either waits for its
toggles or is done (`OverlayInv`); the lemmas `...Becomes` say that a step
concerns one check, so that a late end of one does not disturb another.
Types need to know who waits for what: a request on its way has a sender that
waits for this kind of request and has no answer yet, each sender has one at most,
and what a cancelled check has left behind can only be one of its four kinds
(`Requests`). On top of these, `WeakenExact` holds because, until the weakening is
served, the list in the dialog is the beginning of the session's, which only
Strengthen changes, at its end (`WeakPart`). `VerdictOfEditor` holds because the
overlay keeps everybody else from sending: while a check waits for its load, that
is the last request in the queue, so when it has been served nothing else is left,
and the session is that of the check's text until its verdict (`Judged`). Only
this one needs requests in order. The proof also shows that *pass* is true of the
text, whatever was loaded before, wrappers included.

All invariants and all safety properties that the passing runs check are stated
by theorems. The strengthened invariants were themselves checked by TLC on the
instances above before they were proved. Only model-checked: everything under
fairness (termination, `WatcherLeaves`, `CheckReturns`, `OverlayEnds`, the
liveness of the goroutine), since the proof system does not handle `ENABLED`.

Recursion. No RECURSIVE operator is used: reachability through calls is defined
by closed sets, loops over lists by recursive functions. The library's induction
theorem takes a predicate as its parameter, which no prover here can instantiate.
In its place `LeastNat` of `InvariantEditLists` (from the well-foundedness of the
natural numbers) gives the least counterexample, and `UpTo` a set that contains 0
and each successor; both take a set.

## 5. Where code and documentation disagree

Each of these runs checks a sentence of the repository's documentation and finds
the code doing otherwise; `PROJECT.json` has the quotations.

| run | property | counterexample |
| --- | --- | --- |
| `check_session_inconclusive` | `PassIsProved` | a query Z3 gives up on counts as refuted, and the check passes (`trace.go:1110`) |
| `check_session_cancel` | `CancelEndsCheck` | an interrupt between two queries is lost, the next one runs for as long as it likes (`webui_session.go:5073`) |
| `updr_unsafe` | `ProvedIsSafe` | frames are refined through copies that coverings never see: an unsafe program has an "invariant" (`art.go:972`) |
| `updr_counterexample` | `CounterexampleReported` | goals reach a copy of the initial state and are compared with the state itself: the counterexample ends as an error (`tactics.go:574`) |
| `invariant_edit_reach` | `EditsReachCheck` | a conjecture that was added is not part of the next check, which first loads the text of the editor (`checkService.ts:692`) |

The passing runs show what holds nonetheless. Each of their promises names the
cases in which the code passes without a proof, as far as they are modelled:

| promise | speaks only of checks in which |
| --- | --- |
| `Sound` | no option leaves an obligation out, every condition has a translation and every external action can be executed (`NothingSkipped`); nothing is said of assertions in initializers |
| `VerdictExact` | `summary` and `unprovable` are off; an obligation that was passed over is none; those of initializers count only if the last one has a selected one |
| `OkIsProved` | lines are not exempt: those in `Exempt` and `InitExempt`, by method and options; every query of a bounded check gets its answer (what becomes of the others is in `CheckSession`), and the file of unchecked properties is not modelled |
| `VerdictRight` (pass) | the check is `Undisturbed`: every query was asked, was decided, kept its model until the trace, and no interrupt came in between |
| `ProvedToDepth` | says what a proof of UPDR is still good for |

Met while reading, without a run of their own:

- A condition that has no translation for Z3 is skipped and counts as passed
  (`z3bridge_solver_model.go:1318`), though `check.go:423` promises "true if all
  checks pass" (modelled in `SkipCond` and `AssumeCond`, as `opaque` in
  `IsolateCheck`, `skipped` in `ModuleCheck` and `CheckSession`).
- An action that cannot be executed is skipped with a warning, and the check goes
  on to OK (`check_isolate_check.go:364`, `:549`; `broken` in `IsolateCheck`). A
  bounded check that cannot execute a step ends as one that found nothing
  (`bmc.go:118`, `:145`; `stops` in `ModuleCheck`, `NoStep` in `CheckSession`).
- A counterexample whose model does not convert, or a state without a history, is
  no counterexample (`trace.go:1032`, `:1135`; `NoTrace`).
- Assertions of initializers are not looked at by bmc, and by the default method
  only if the initializer that sorts last has one (`check_isolate_check.go:609`;
  `InitExempt`).
- A sort or a relation whose bound has no translation is left as large as it is in
  a "small" model (`z3bridge_solver_model.go:1376`, `:1398`; `LeaveMeasure`).
- Nothing bounds a closure of the backend goroutine, and `Close` waits for it
  (`webui_backend_go.go:844`; `ClosuresEnd`).
- The method mc leaves out every invariant when lines are selected: the line is
  set as "file:line" and compared with "file: line n: " (`mc_toaiger.go:93`; in
  `Exempt`).
- `weakenInvariant` sends positions in a list that it fetched without covering
  the page. A check started before the list has come loads the editor's text
  into the session, and conjectures that were not in the list are removed
  (`checkService.ts:841`; the premise `~weak.reloaded` of `WeakenExact`).
- `setCheckControlsRunning(false)` in the `finally` of `runCheck` is not guarded
  by `app._activeCheck === active`: a cancelled check that still waits for its
  toggles hides the Cancel button of the next one when it ends, and shows its own
  result (`checkService.ts:451-476`).
- The answer of `Unsat` is not looked at, though `z3bridge_solver_model.go:1235`
  describes it like that of `Sat` (modelled so in `Unsat`).
- With the option `unprovable` only assertions marked as unprovable are to be
  checked, but the parser has dropped the marks (`ivycheck_params.go:84`): the
  check does nothing and reports OK (modelled so in `CheckUnprovable` and
  `ICFinds`; in `Exempt`).
- Method vmt "writes VMT file and exits" (`check_vmt.go:446`); it returns, and the
  check goes on to OK (`check_isolate_check.go:1138`; in `Exempt`).
- A `sorry` is recorded in the copy of the configuration made for an isolate and
  read from the original (`check.go:1357`, `module_config.go:122`): it is not
  reported.
- UPDR never compares the initial frame with the bad states: a module whose
  initial states violate a conjecture is only found out through the next frame,
  if at all (`tactics.go:534-550`; program `{3}` of `MCUpdr`).
- A failed check of another mode leaves its trace as the session's analysis graph
  (`webui_session.go:2425`), and a later pdr check takes the states of that trace
  as its frames.
- `Failures` is not reset when a configuration is used again
  (`check.go:1322`): a failure of one file fails the next.
- `CheckedActionFound` is set on the copy (`check.go:745`) and read on the
  original (`check_isolate_check.go:1201`), so a check with the option action
  that finds no failure ends as "not exported".
- Mode concrete is described as checking the initial state; it checks relative
  inductiveness, as induction does. A comment at `webui_session.go:5127` says
  that induction checks initiation, which it does not.
- The documentation of `Result` (`webui_session.go:4849`) lists no "cancelled".

## 6. What is not modelled

- *Terms, formulas, translation, parsing, compiling, code generation*: pure
  functions on unbounded syntax. Their specification is the logic itself, and a
  model would repeat them. Formulas appear here as sets of models.
- *External programs*: Z3, the AIGER checkers, Python. Z3 is modelled by its
  answers, its assertion stack and its interrupt flag, as the Go code uses them.
- *HTTP routing, JSON, logging, layout of graphs*: no state that a property
  could be about; the concurrency of requests is that of the callers of `do`.
- *Planned, not yet there*: the components of the next section.

## 7. Plan

Done: the seven modules above, in the order of the importance of what they
decide. Next, in this order:

1. `ProofGoals`: the stack of goals, the tactics that drop goals (`Vcgen`,
   `Sorry`), failure counts by difference and assumed invariants in
   `CheckSubgoals`; it replaces `admits` and `goals` of `IsolateCheck`. To be
   proved: no goal disappears that was neither checked nor counted.
2. The rest of the session: caches, sheets, isolates and interpolants, next to
   the conjectures of `InvariantEdit`. Properties: nothing cached outlives the
   module it was computed from, sheets refer to existing states.
3. `CheckEvents`: heartbeat, event channel with a full buffer, subscribers, and
   what events do to the page; then the bridge to the Python backend.
4. `ArtGraph` with `Cover`, `Execute` and `BMC`, shared by UPDR and bounded
   checking.
5. Pure structures as functions against a reference definition: union-find,
   congruence closure, unit resolution, ordered containers.
6. Compositions: the abstract verdict of a check, implemented by `CheckSession`
   with `FinalConds` as its query, and by `ModuleCheck` with `IsolateCheck` as
   its step.
7. More proofs: that `Updr` and `CheckSession` implement an abstract verdict, once
   item 6 has stated it.
