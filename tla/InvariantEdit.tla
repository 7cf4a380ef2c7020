---------------------------- MODULE InvariantEdit ----------------------------
(***************************************************************************)
(* Editing an invariant in the web application: the page (checkService.ts) *)
(* and the session behind it (webui_session.go, webui_ui_cti.go).          *)
(*                                                                         *)
(* The page loads the text of its editor, checks induction, and adds and   *)
(* removes conjectures.  Each of these is a function that awaits one       *)
(* request after another, and the user may start another one in between,   *)
(* unless an overlay covers the page: beginRunContext counts the functions *)
(* that want it.  Cancel rejects what a check is waiting for; the request  *)
(* itself may still reach the backend, which serves one at a time.         *)
(*                                                                         *)
(* The session keeps the conjectures twice, labeled in the compiled module *)
(* and as clauses in CTIUI, and a second module for induction when the     *)
(* file only interprets the symbols of an included one (a wrapper).        *)
(*                                                                         *)
(* Left out: checks other than induction and what Z3 cannot decide (see    *)
(* CheckSession), the selection of facts that makes a new conjecture, and  *)
(* what events from the server do to the page.                             *)
(***************************************************************************)
EXTENDS Naturals, Sequences, FiniteSets, SequencesExt

CONSTANTS Conjs,       \* conjectures
          Selectable,  \* those that a selection of facts may give
          Texts,       \* what the editor may hold
          Invariants,  \* Invariants[t]: the conjectures of text t, in order
          Wrappers,    \* the texts that are wrappers
          Compiling,   \* the texts that compile
          States, Steps, Meaning,  \* Steps[t]: the program; Meaning[c]: where c holds
          Runs,        \* checks of the page
          MaxEdits,    \* how often the user edits the text or the invariant
          None

ASSUME TextAssumption ==
  /\ Invariants \in [Texts -> Seq(Conjs)]
  /\ Wrappers \subseteq Texts /\ Compiling \subseteq Texts /\ Selectable \subseteq Conjs
  /\ Steps \in [Texts -> SUBSET (States \X States)]
  /\ Meaning \in [Conjs -> SUBSET States]
ASSUME NoneAssumption ==
  /\ None \notin Conjs /\ None \notin Texts
  /\ None \notin Runs \cup {"weaken", "strengthen"}
ASSUME EditsAssumption == MaxEdits \in Nat
ASSUME RunsAssumption == IsFiniteSet(Runs) /\ "weaken" \notin Runs /\ "strengthen" \notin Runs

Ops == Runs \cup {"weaken", "strengthen"}

VARIABLES
  editor,   \* the text in the editor
  wanted,   \* history: the conjectures that the user means to have
  active,   \* _activeCheck
  run,      \* the checks of the page
  depth,    \* _runContextDepth
  weak,     \* weakenInvariant
  str,      \* ctiConceptAction with cti_strengthen
  edits,
  inOrder,  \* do requests arrive in the order in which they were sent?
  queue,    \* requests on their way or waiting for the backend
  reply,    \* answers on their way to the page
  session

page == <<editor, wanted, active, run, depth, weak, str, edits>>
vars == <<page, inOrder, queue, reply, session>>

NoModel == [text |-> None, induction |-> None, labeled |-> << >>, cti |-> << >>,
            haveCTI |-> FALSE, current |-> None]

Loaded(t) == [text |-> t, induction |-> IF t \in Wrappers THEN t ELSE None,
              labeled |-> Invariants[t], cti |-> Invariants[t],
              haveCTI |-> FALSE, current |-> None]

NoWeaken == [pc |-> "idle", list |-> << >>, chosen |-> {}, removed |-> << >>,
             reloaded |-> FALSE]

NoStrengthen == [pc |-> "idle", conj |-> None]

Init ==
  /\ editor \in Texts
  /\ wanted = ToSet(Invariants[editor])
  /\ active = None
  /\ run = [r \in Runs |-> [pc |-> "idle", text |-> None, result |-> "none",
                            shown |-> "none", cancelled |-> FALSE, open |-> FALSE,
                            wanted |-> {}, checked |-> {}]]
  /\ depth = 0
  /\ weak = NoWeaken
  /\ str = NoStrengthen
  /\ edits = 0
  /\ inOrder \in BOOLEAN
  /\ queue = << >>
  /\ reply = [o \in Ops |-> "none"]
  /\ session \in {NoModel} \cup {Loaded(t) : t \in {editor} \cap Compiling}

-----------------------------------------------------------------------------
(* The session *)

InductionConjs(s) == IF s.induction = None THEN s.labeled ELSE Invariants[s.induction]

HoldsAll(L, s) == \A c \in L : s \in Meaning[c]

(* A step of the program leads from the conjectures L out of c.              *)
Broken(t, L, c) ==
  \E e \in Steps[t] : HoldsAll(L, e[1]) /\ e[2] \notin Meaning[c]

Inductive(t, L) == \A c \in L : ~Broken(t, L, c)

(* ExecuteAction goes through the conjectures and keeps those at the other   *)
(* positions;                                                                *)
Kept(s, I) ==
  LET kept[i \in 0..Len(s)] ==
        IF i = 0 THEN << >>
        ELSE IF i \in I THEN kept[i - 1] ELSE Append(kept[i - 1], s[i])
  IN kept[Len(s)]

Removed(s, I) == Kept(s, DOMAIN s \ I)

\* Faulty variant of CutOut: the first one first, so that the others move.
CutOutAscending(s, I) ==
  LET cut[i \in 0..Len(s)] ==
        IF i = 0 THEN s
        ELSE IF i \in I /\ i <= Len(cut[i - 1]) THEN RemoveAt(cut[i - 1], i) ELSE cut[i - 1]
  IN cut[Len(s)]

(* CTIUI.Weaken cuts them out one by one, the last one first.                *)
CutOut(s, I) ==
  LET cut[i \in 0..Len(s)] ==
        IF i = Len(s) THEN s
        ELSE IF i + 1 \in I THEN RemoveAt(cut[i + 1], i + 1) ELSE cut[i + 1]
  IN cut[0]

Answer(q, a) == reply' = IF q.from = None THEN reply ELSE [reply EXCEPT ![q.from] = a]

\* Faulty variant of Load: the module for induction of the last text stays.
LoadKeepsInduction(q) ==
  /\ q.kind = "load"
  /\ \/ /\ q.text \in Compiling
        /\ session' = [Loaded(q.text) EXCEPT !.induction =
                         IF q.text \in Wrappers THEN @ ELSE session.induction]
        /\ Answer(q, "ok")
     \/ /\ q.text \notin Compiling
        /\ session' = [NoModel EXCEPT !.induction = session.induction]
        /\ Answer(q, "error")
  /\ weak' = [weak EXCEPT !.reloaded = weak.pc # "idle"]
  /\ UNCHANGED run

(* A load clears the session before it compiles.  It may fail before the     *)
(* module is in place, whether the text compiles or not, and after.  A       *)
(* module for induction that cannot be made is done without.                 *)
Load(q) ==
  /\ q.kind = "load"
  /\ \/ /\ q.text \in Compiling
        /\ \/ session' = Loaded(q.text)
           \/ session' = [Loaded(q.text) EXCEPT !.induction = None]
        /\ \E a \in {"ok", "error"} : Answer(q, a)
     \/ session' = NoModel /\ Answer(q, "error")
  /\ weak' = [weak EXCEPT !.reloaded = weak.pc # "idle"]
  /\ UNCHANGED run

(* The conjectures are tried in order; the first one that fails becomes the  *)
(* counterexample to induction, unless Z3 gives up.                          *)
Verdict(q) ==
  LET L == InductionConjs(session)
      failing == {i \in DOMAIN L : Broken(session.text, ToSet(L), L[i])}
  IN \/ /\ failing = {}
        /\ Answer(q, "pass")
        /\ UNCHANGED session
     \/ /\ L # << >>
        /\ Answer(q, "fail")
        /\ UNCHANGED session
     \/ \E i \in failing :
          /\ \A j \in failing : i <= j
          /\ Answer(q, "fail")
          /\ session' = [session EXCEPT !.haveCTI = TRUE, !.current = L[i]]

Check(q) ==
  /\ q.kind = "check"
  /\ \/ /\ session.text = None
        /\ Answer(q, "error")
        /\ UNCHANGED session
     \/ session.text # None /\ Verdict(q)
     \/ q.from = None /\ UNCHANGED <<reply, session>>
  /\ run' = IF q.from = None THEN run
            ELSE [run EXCEPT ![q.from].checked = ToSet(InductionConjs(session))]
  /\ UNCHANGED weak

(* What the page fetches to show a verdict changes nothing here.             *)
Look(q) ==
  /\ q.kind \in {"views", "toggles"}
  /\ \E a \in {"ok", "error"} : Answer(q, a)
  /\ UNCHANGED <<session, run, weak>>

List(q) ==
  /\ q.kind = "list"
  /\ Answer(q, "ok")
  /\ weak' = [weak EXCEPT !.list = session.labeled, !.reloaded = FALSE]
  /\ UNCHANGED <<session, run>>

\* Faulty variant of Weaken: the counterexample stays.
WeakenKeepsCTI(q) ==
  /\ q.kind = "weaken"
  /\ IF session.text = None
     THEN Answer(q, "error") /\ UNCHANGED <<session, weak>>
     ELSE /\ session' = [session EXCEPT !.labeled = Kept(@, weak.chosen),
                                        !.cti = CutOut(@, weak.chosen)]
          /\ weak' = [weak EXCEPT !.removed = Removed(session.labeled, weak.chosen)]
          /\ Answer(q, "ok")
  /\ UNCHANGED run

Weaken(q) ==
  /\ q.kind = "weaken"
  /\ IF session.text = None
     THEN Answer(q, "error") /\ UNCHANGED <<session, weak>>
     ELSE /\ session' = [session EXCEPT !.labeled = Kept(@, weak.chosen),
                                        !.cti = CutOut(@, weak.chosen),
                                        !.haveCTI = FALSE]
          /\ weak' = [weak EXCEPT !.removed = Removed(session.labeled, weak.chosen)]
          /\ Answer(q, "ok")
  /\ UNCHANGED run

\* Faulty variant of Strengthen: a new conjecture becomes the first.
StrengthenFirst(q) ==
  /\ q.kind = "strengthen"
  /\ IF session.text = None
     THEN Answer(q, "error") /\ UNCHANGED session
     ELSE /\ session' = [session EXCEPT !.labeled = <<str.conj>> \o @,
                                        !.cti = <<str.conj>> \o @,
                                        !.haveCTI = FALSE]
          /\ Answer(q, "ok")
  /\ UNCHANGED <<run, weak>>

Strengthen(q) ==
  /\ q.kind = "strengthen"
  /\ IF session.text = None
     THEN Answer(q, "error") /\ UNCHANGED session
     ELSE /\ session' = [session EXCEPT !.labeled = Append(@, str.conj),
                                        !.cti = Append(@, str.conj),
                                        !.haveCTI = FALSE]
          /\ Answer(q, "ok")
  /\ UNCHANGED <<run, weak>>

Serve ==
  \E i \in DOMAIN queue :
    /\ inOrder => i = 1
    /\ queue' = RemoveAt(queue, i)
    /\ LET q == queue[i]
       IN Load(q) \/ Check(q) \/ Look(q) \/ List(q) \/ Weaken(q) \/ Strengthen(q)
    /\ UNCHANGED <<editor, wanted, active, depth, str, edits, inOrder>>

(* A request that the page has given up may never arrive.                    *)
Lose ==
  \E i \in DOMAIN queue :
    /\ queue[i].from = None
    /\ queue' = RemoveAt(queue, i)
    /\ UNCHANGED <<page, inOrder, reply, session>>

-----------------------------------------------------------------------------
(* The page *)

Send(o, kind, t) == queue' = Append(queue, [from |-> o, kind |-> kind, text |-> t])

Receive(o, a) == reply[o] = a /\ reply' = [reply EXCEPT ![o] = "none"]

Dialog ==
  weak.pc = "dialog" \/ str.pc = "dialog" \/ \E r \in Runs : run[r].pc = "dialog"

(* Nothing covers the page.                                                  *)
Free == depth = 0 /\ ~Dialog

Edit == edits < MaxEdits /\ edits' = edits + 1

EditText(t) ==
  /\ Free /\ Edit
  /\ editor' = t
  /\ wanted' = ToSet(Invariants[t])
  /\ UNCHANGED <<active, run, depth, weak, str, inOrder, queue, reply, session>>

(* runCheck and checkInduction begin alike: they load what the editor holds. *)
StartCheck(r) ==
  /\ Free /\ active = None
  /\ run[r].pc = "idle" /\ r = CHOOSE q \in Runs : run[q].pc = "idle"
  /\ active' = r
  /\ run' = [run EXCEPT ![r] = [@ EXCEPT !.pc = "load", !.text = editor, !.open = TRUE,
                                         !.wanted = wanted]]
  /\ depth' = depth + 1
  /\ Send(r, "load", editor)
  /\ UNCHANGED <<editor, wanted, weak, str, edits, inOrder, reply, session>>

\* Faulty variant of Close: not once only.
CloseTwice(r) == depth' = depth - 1

(* finishRunContextOnce                                                      *)
Close(r) == depth' = IF run[r].open THEN depth - 1 ELSE depth

Goto(r, l) == run' = [run EXCEPT ![r].pc = l]

\* Faulty variant of Finish: whatever check is active is forgotten.
FinishForgets(r, result) ==
  /\ run' = [run EXCEPT ![r] = [@ EXCEPT !.pc = "done", !.result = "none",
                                         !.shown = result, !.open = FALSE]]
  /\ Close(r)
  /\ active' = None

(* The result is shown, and the blocks catch and finally are gone through.   *)
Finish(r, result) ==
  /\ run' = [run EXCEPT ![r] = [@ EXCEPT !.pc = "done", !.result = "none",
                                         !.shown = result, !.open = FALSE]]
  /\ Close(r)
  /\ active' = IF active = r THEN None ELSE active

(* An error is reported in a dialog, before the finally.                     *)
Report(r) ==
  /\ Receive(r, "error")
  /\ run' = [run EXCEPT ![r] = [@ EXCEPT !.pc = "dialog", !.open = FALSE]]
  /\ Close(r)
  /\ UNCHANGED <<active, queue>>

AfterLoad(r) ==
  /\ run[r].pc = "load"
  /\ \/ /\ Receive(r, "ok")
        /\ Goto(r, "check")
        /\ Send(r, "check", None)
        /\ UNCHANGED <<active, depth>>
     \/ Report(r)

AfterCheck(r) ==
  /\ run[r].pc = "check"
  /\ \E a \in {"pass", "fail", "error"} :
       /\ Receive(r, a)
       /\ \/ Finish(r, a) /\ UNCHANGED queue          \* checkInduction
          \/ /\ run' = [run EXCEPT ![r] = [@ EXCEPT !.pc = "views", !.result = a]]
             /\ Send(r, "views", None)                \* runCheck
             /\ UNCHANGED <<active, depth>>

AfterViews(r) ==
  /\ run[r].pc = "views"
  /\ \/ /\ Receive(r, "ok")
        /\ \/ Finish(r, run[r].result) /\ UNCHANGED queue
           \/ /\ run[r].result = "fail"
              /\ Goto(r, "toggles")
              /\ Send(r, "toggles", None)
              /\ UNCHANGED <<active, depth>>
     \/ Report(r)

\* Faulty variant of AfterToggles: an error is not expected.
AfterTogglesOk(r) ==
  /\ run[r].pc = "toggles"
  /\ Receive(r, "ok")
  /\ Finish(r, run[r].result)
  /\ UNCHANGED queue

(* Errors of toggles are swallowed.                                          *)
AfterToggles(r) ==
  /\ run[r].pc = "toggles"
  /\ \E a \in {"ok", "error"} : Receive(r, a)
  /\ Finish(r, run[r].result)
  /\ UNCHANGED queue

CloseReport(r) ==
  /\ run[r].pc = "dialog"
  /\ Finish(r, "error")
  /\ UNCHANGED <<queue, reply>>

RunStep(r) ==
  /\ AfterLoad(r) \/ AfterCheck(r) \/ AfterViews(r) \/ AfterToggles(r)
  /\ UNCHANGED <<editor, wanted, weak, str, edits, inOrder, session>>

(* The button is on the overlay.  The check's requests carry a signal, but   *)
(* for its toggles: when one is rejected the function ends at once.          *)
Cancel ==
  LET r == active IN
  /\ depth > 0 /\ r # None
  /\ active' = None
  /\ Close(r)
  /\ \/ /\ run[r].pc \in {"load", "check", "views"}
        /\ run' = [run EXCEPT ![r] = [@ EXCEPT !.pc = "done", !.result = "none",
                                               !.shown = "cancelled",
                                               !.cancelled = TRUE, !.open = FALSE]]
        /\ queue' = [i \in DOMAIN queue |->
                       [queue[i] EXCEPT !.from = IF @ = r THEN None ELSE @]]
        /\ reply' = [reply EXCEPT ![r] = "none"]
     \/ /\ run[r].pc = "toggles"
        /\ run' = [run EXCEPT ![r] = [@ EXCEPT !.cancelled = TRUE, !.open = FALSE]]
        /\ UNCHANGED <<queue, reply>>
  /\ UNCHANGED <<editor, wanted, weak, str, edits, inOrder, session>>

(* weakenInvariant does not ask for the overlay.                             *)
StartWeaken ==
  /\ Free /\ Edit /\ weak.pc = "idle"
  /\ weak' = [NoWeaken EXCEPT !.pc = "listing"]
  /\ Send("weaken", "list", None)
  /\ UNCHANGED <<editor, wanted, active, run, depth, str, inOrder, reply, session>>

AfterList ==
  /\ weak.pc = "listing"
  /\ Receive("weaken", "ok")
  /\ weak' = [weak EXCEPT !.pc = "dialog"]
  /\ UNCHANGED <<editor, wanted, active, run, depth, str, edits, inOrder, queue, session>>

(* The dialog lies under the overlay.                                        *)
Choose(I) ==
  /\ weak.pc = "dialog" /\ depth = 0
  /\ IF I = {}
     THEN weak' = NoWeaken /\ UNCHANGED queue
     ELSE /\ weak' = [weak EXCEPT !.pc = "removing", !.chosen = I]
          /\ Send("weaken", "weaken", None)
  /\ UNCHANGED <<editor, wanted, active, run, depth, str, edits, inOrder, reply, session>>

AfterWeaken ==
  /\ weak.pc = "removing"
  /\ \/ Receive("weaken", "ok") /\ wanted' = wanted \ ToSet(Removed(weak.list, weak.chosen))
     \/ Receive("weaken", "error") /\ UNCHANGED wanted
  /\ weak' = NoWeaken
  /\ UNCHANGED <<editor, active, run, depth, str, edits, inOrder, queue, session>>

(* The preview that the user confirms first changes nothing.                 *)
StartStrengthen(c) ==
  /\ Free /\ Edit
  /\ str' = [pc |-> "adding", conj |-> c]
  /\ depth' = depth + 1
  /\ Send("strengthen", "strengthen", None)
  /\ UNCHANGED <<editor, wanted, active, run, weak, inOrder, reply, session>>

AfterStrengthen ==
  /\ str.pc = "adding"
  /\ \/ /\ Receive("strengthen", "ok")
        /\ wanted' = wanted \cup {str.conj}
        /\ str' = NoStrengthen
     \/ /\ Receive("strengthen", "error")
        /\ str' = [NoStrengthen EXCEPT !.pc = "dialog"]
        /\ UNCHANGED wanted
  /\ depth' = depth - 1
  /\ UNCHANGED <<editor, active, run, weak, edits, inOrder, queue, session>>

(* runWithContext reports an error after it has given the overlay back.      *)
CloseStrengthen ==
  /\ str.pc = "dialog"
  /\ str' = NoStrengthen
  /\ UNCHANGED <<editor, wanted, active, run, depth, weak, edits, inOrder, queue, reply,
                 session>>

Answered == (\E r \in Runs : RunStep(r)) \/ AfterList \/ AfterWeaken \/ AfterStrengthen

Next ==
  \/ Serve \/ Lose
  \/ Answered
  \/ \E r \in Runs : StartCheck(r)
  \/ \E r \in Runs :
       CloseReport(r) /\ UNCHANGED <<editor, wanted, weak, str, edits, inOrder, session>>
  \/ Cancel
  \/ \E t \in Texts : EditText(t)
  \/ StartWeaken
  \/ \E I \in SUBSET (DOMAIN weak.list) : Choose(I)
  \/ \E c \in Selectable : StartStrengthen(c)
  \/ CloseStrengthen

Spec == Init /\ [][Next]_vars

(* The backend serves every request and the page reads every answer.         *)
FairSpec == Spec /\ WF_vars(Serve) /\ WF_vars(Answered)

-----------------------------------------------------------------------------
(* Properties *)

CheckType ==
  [pc : {"idle", "load", "check", "views", "toggles", "dialog", "done"},
   text : Texts \cup {None}, result : {"none", "pass", "fail", "error"},
   shown : {"none", "pass", "fail", "error", "cancelled"},
   cancelled : BOOLEAN, open : BOOLEAN,
   wanted : SUBSET Conjs, checked : SUBSET Conjs]
WeakenType ==
  [pc : {"idle", "listing", "dialog", "removing"}, list : Seq(Conjs),
   chosen : SUBSET Nat, removed : Seq(Conjs), reloaded : BOOLEAN]
RequestType ==
  [from : Ops \cup {None}, text : Texts \cup {None},
   kind : {"load", "check", "views", "toggles", "list", "weaken", "strengthen"}]
SessionType ==
  [text : Texts \cup {None}, induction : Texts \cup {None}, labeled : Seq(Conjs),
   cti : Seq(Conjs), haveCTI : BOOLEAN, current : Conjs \cup {None}]

(* Type correctness of the page, the requests and the session.               *)
TypeOK ==
  /\ editor \in Texts /\ wanted \subseteq Conjs
  /\ active \in Runs \cup {None}
  /\ run \in [Runs -> CheckType]
  /\ depth \in Nat
  /\ weak \in WeakenType /\ weak.chosen \subseteq DOMAIN weak.list
  /\ str \in [pc : {"idle", "adding", "dialog"}, conj : Conjs \cup {None}]
  /\ edits \in 0..MaxEdits /\ inOrder \in BOOLEAN
  /\ queue \in Seq(RequestType)
  /\ reply \in [Ops -> {"none", "ok", "pass", "fail", "error"}]
  /\ session \in SessionType

(* The two lists of conjectures agree, in their order too: one is numbered   *)
(* in the dialog and checked, the other is assumed in the advice on a        *)
(* counterexample and saved.                                                 *)
ListsAligned == session.labeled = session.cti

(* A counterexample to induction that the session shows, and that advice is  *)
(* given about, is one to the conjectures as they are now.                   *)
CounterexampleIsCurrent ==
  session.haveCTI =>
    LET L == ToSet(InductionConjs(session))
    IN session.current \in L /\ Broken(session.text, L, session.current)

(* The overlay is there for exactly as long as a function that asked for it  *)
(* is working and has not been cancelled.  The active check, which can be    *)
(* cancelled and keeps others from starting, is one that works or reports an *)
(* error, never one that has ended or was cancelled.                         *)
Working(r) ==
  run[r].pc \in {"load", "check", "views", "toggles"} /\ ~run[r].cancelled

OverlayMatches ==
  /\ depth = Cardinality({r \in Runs : Working(r)}) + (IF str.pc = "adding" THEN 1 ELSE 0)
  /\ \A r \in Runs : run[r].open <=> Working(r)
  /\ \A r \in Runs : active = r <=> Working(r) \/ run[r].pc = "dialog"

(* If requests arrive in order, "the server checks exactly what the user     *)
(* sees, not a stale cache": a verdict is about the text that was in the     *)
(* editor when the check was started.                                        *)
VerdictOfEditor ==
  inOrder => \A r \in Runs :
    LET L == ToSet(Invariants[run[r].text])
    IN run[r].shown \in {"pass", "fail"} =>
         /\ run[r].checked = L
         /\ run[r].shown = "pass" => Inductive(run[r].text, L)

(* Unless a text was loaded after the list was made, exactly the conjectures *)
(* that the user chose are removed.                                          *)
WeakenExact ==
  weak.pc = "removing" /\ reply["weaken"] = "ok" /\ ~weak.reloaded
    => weak.removed = Removed(weak.list, weak.chosen)

(* The overlay does not stay: the user gets the page back.                   *)
OverlayEnds == (depth > 0) ~> (depth = 0)

-----------------------------------------------------------------------------
(* What a document says of the program (tcl_gui_behavior_inventory_codex.md:465) *)

(* "Accept and verify the conjecture is appended and later appears in Check  *)
(* induction": what is checked is the invariant as the user has edited it.   *)
EditsReachCheck ==
  \A r \in Runs : run[r].shown \in {"pass", "fail"} => run[r].checked = run[r].wanted
=============================================================================
