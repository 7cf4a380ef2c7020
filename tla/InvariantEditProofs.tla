------------------------- MODULE InvariantEditProofs -------------------------
(***************************************************************************)
(* Proofs about InvariantEdit, for any texts, conjectures and programs,    *)
(* any number of checks and any order of the requests.                     *)
(***************************************************************************)
EXTENDS InvariantEditLists, FiniteSetTheorems, TLAPS

-----------------------------------------------------------------------------
(* The counterexample of the session.  Of the types only this is needed:     *)
(* the session is a record with its six fields.                              *)
SessionShape ==
  session = [text |-> session.text, induction |-> session.induction,
             labeled |-> session.labeled, cti |-> session.cti,
             haveCTI |-> session.haveCTI, current |-> session.current]

CTIInv == SessionShape /\ CounterexampleIsCurrent

LEMMA CTIFrame == CTIInv /\ UNCHANGED session => CTIInv'
BY DEF CTIInv, SessionShape, CounterexampleIsCurrent, InductionConjs, Broken, HoldsAll

LEMMA CTIInit == Init => CTIInv
BY DEF Init, NoModel, Loaded, CTIInv, SessionShape, CounterexampleIsCurrent

(* Without a counterexample there is nothing to show.                        *)
LEMMA CTINone ==
  ASSUME NEW t, NEW i, NEW l, NEW c, NEW u,
         session' = [text |-> t, induction |-> i, labeled |-> l, cti |-> c,
                     haveCTI |-> FALSE, current |-> u]
  PROVE  CTIInv'
BY DEF CTIInv, SessionShape, CounterexampleIsCurrent

LEMMA CTIVerdict ==
  ASSUME CTIInv, NEW q, Verdict(q)
  PROVE  CTIInv'
<1> DEFINE L == InductionConjs(session)
<1>1. CASE UNCHANGED session
  BY <1>1, CTIFrame
<1>2. ASSUME NEW i \in DOMAIN L, Broken(session.text, ToSet(L), L[i]),
             session' = [session EXCEPT !.haveCTI = TRUE, !.current = L[i]]
      PROVE  CTIInv'
  <2>1. session' = [text |-> session.text, induction |-> session.induction,
                    labeled |-> session.labeled, cti |-> session.cti,
                    haveCTI |-> TRUE, current |-> L[i]]
    BY <1>2 DEF CTIInv, SessionShape
  <2>2. /\ SessionShape' /\ session'.text = session.text /\ session'.current = L[i]
        /\ session'.induction = session.induction /\ session'.labeled = session.labeled
    BY <2>1 DEF SessionShape
  <2>3. InductionConjs(session)' = L
    BY <2>2 DEF InductionConjs
  <2>4. L[i] \in ToSet(L)
    BY <1>2 DEF ToSet
  <2>5. Broken(session'.text, ToSet(L), session'.current)
    BY <1>2, <2>2
  <2> QED
    BY <2>2, <2>3, <2>4, <2>5 DEF CTIInv, CounterexampleIsCurrent
<1> QED
  BY <1>1, <1>2 DEF Verdict

LEMMA CTINext == CTIInv /\ [Next]_vars => CTIInv'
<1> SUFFICES ASSUME CTIInv, [Next]_vars PROVE CTIInv'
  OBVIOUS
<1>1. ASSUME NEW q, Load(q) \/ Check(q) \/ Look(q) \/ List(q) \/ Weaken(q) \/ Strengthen(q)
      PROVE  CTIInv'
  <2>1. CASE Load(q)
    BY <2>1, CTINone DEF Load, Loaded, NoModel
  <2>2. CASE Check(q)
    BY <2>2, CTIVerdict, CTIFrame DEF Check
  <2>3. CASE Look(q) \/ List(q)
    BY <2>3, CTIFrame DEF Look, List
  <2>4. CASE Weaken(q)
    <3>1. CASE UNCHANGED session
      BY <3>1, CTIFrame
    <3>2. CASE session' = [session EXCEPT !.labeled = Kept(@, weak.chosen),
                                          !.cti = CutOut(@, weak.chosen),
                                          !.haveCTI = FALSE]
      <4>1. session' = [text |-> session.text, induction |-> session.induction,
                        labeled |-> Kept(session.labeled, weak.chosen),
                        cti |-> CutOut(session.cti, weak.chosen),
                        haveCTI |-> FALSE, current |-> session.current]
        BY <3>2 DEF CTIInv, SessionShape
      <4> QED
        BY <4>1, CTINone
    <3> QED
      BY <2>4, <3>1, <3>2 DEF Weaken
  <2>5. CASE Strengthen(q)
    <3>1. CASE UNCHANGED session
      BY <3>1, CTIFrame
    <3>2. CASE session' = [session EXCEPT !.labeled = Append(@, str.conj),
                                          !.cti = Append(@, str.conj),
                                          !.haveCTI = FALSE]
      <4>1. session' = [text |-> session.text, induction |-> session.induction,
                        labeled |-> Append(session.labeled, str.conj),
                        cti |-> Append(session.cti, str.conj),
                        haveCTI |-> FALSE, current |-> session.current]
        BY <3>2 DEF CTIInv, SessionShape
      <4> QED
        BY <4>1, CTINone
    <3> QED
      BY <2>5, <3>1, <3>2 DEF Strengthen
  <2> QED
    BY <1>1, <2>1, <2>2, <2>3, <2>4, <2>5
<1>2. CASE Serve
  BY <1>1, <1>2 DEF Serve
<1>3. CASE UNCHANGED session
  BY <1>3, CTIFrame
<1> QED
  BY <1>2, <1>3 DEF Next, Answered, RunStep, Lose, AfterList, AfterWeaken, AfterStrengthen,
                    StartCheck, Cancel, EditText, StartWeaken, Choose, StartStrengthen,
                    CloseStrengthen, vars

(* A counterexample that the session shows is one to its conjectures as they *)
(* are now, in whatever order requests arrive (webui_session.go:2425,        *)
(* webui_ui_cti.go:512, :837).                                               *)
THEOREM CounterexampleCurrent == Spec => []CounterexampleIsCurrent
<1>1. CTIInv => CounterexampleIsCurrent
  BY DEF CTIInv
<1> QED
  BY <1>1, CTIInit, CTINext, PTL DEF Spec

-----------------------------------------------------------------------------
(* The overlay and the active check.                                         *)
Pcs == {"idle", "load", "check", "views", "toggles", "dialog", "done"}
Fields == {"pc", "text", "result", "shown", "cancelled", "open", "wanted", "checked"}

(* Of the types only this is needed.                                         *)
CheckShape(R) ==
  /\ DOMAIN R = Fields
  /\ R.pc \in Pcs /\ R.cancelled \in BOOLEAN /\ R.open \in BOOLEAN

RunShape == run = [r \in Runs |-> run[r]] /\ \A r \in Runs : CheckShape(run[r])

(* At most one function works, and it is the one that has the overlay.       *)
OverlayInv ==
  /\ RunShape
  /\ depth = IF str.pc = "adding" \/ (\E r \in Runs : Working(r)) THEN 1 ELSE 0
  /\ str.pc = "adding" => \A r \in Runs : ~Working(r)
  /\ \A r \in Runs : run[r].open <=> Working(r)
  /\ active \in Runs \cup {None}
  /\ \A r \in Runs : active = r <=> Working(r) \/ run[r].pc = "dialog"
  /\ \A r \in Runs : run[r].cancelled => run[r].pc \in {"toggles", "done"}

(* What a step does to a check, as far as the overlay is concerned.          *)
Becomes(r, l, o, c) ==
  /\ RunShape'
  /\ run'[r].pc = l /\ run'[r].open = o /\ run'[r].cancelled = c
  /\ \A q \in Runs \ {r} : run'[q] = run[q]

LEMMA OverlayIsMatched == OverlayInv => OverlayMatches
<1> SUFFICES ASSUME OverlayInv PROVE OverlayMatches
  OBVIOUS
<1> DEFINE W == {r \in Runs : Working(r)}
<1>1. CASE W = {}
  BY <1>1, FS_EmptySet DEF OverlayInv, OverlayMatches
<1>2. ASSUME NEW r \in W PROVE OverlayMatches
  <2>1. W = {r}
    BY <1>2 DEF OverlayInv
  <2>2. Cardinality(W) = 1
    BY <2>1, FS_Singleton
  <2> QED
    BY <1>2, <2>2 DEF OverlayInv, OverlayMatches
<1> QED
  BY <1>1, <1>2

LEMMA OverlayInit == Init => OverlayInv
<1> SUFFICES ASSUME Init PROVE OverlayInv
  OBVIOUS
<1>1. ASSUME NEW r \in Runs
      PROVE  /\ CheckShape(run[r])
             /\ run[r].pc = "idle" /\ run[r].cancelled = FALSE /\ run[r].open = FALSE
  BY DEF Init, CheckShape, Fields, Pcs
<1>2. run = [r \in Runs |-> run[r]]
  BY DEF Init
<1>3. RunShape
  BY <1>1, <1>2 DEF RunShape
<1>4. \A r \in Runs : ~Working(r)
  BY <1>1 DEF Working
<1> QED
  BY <1>1, <1>3, <1>4, NoneAssumption DEF Init, NoStrengthen, OverlayInv

LEMMA SetRun ==
  ASSUME RunShape, NEW r \in Runs, NEW R, CheckShape(R), run' = [run EXCEPT ![r] = R]
  PROVE  Becomes(r, R.pc, R.open, R.cancelled)
<1>1. run' = [q \in Runs |-> IF q = r THEN R ELSE run[q]]
  BY DEF RunShape
<1> QED
  BY <1>1 DEF RunShape, Becomes

(* The steps of a check.                                                     *)
LEMMA GotoBecomes ==
  ASSUME RunShape, NEW r \in Runs, NEW l \in Pcs,
         run' = [run EXCEPT ![r] = [@ EXCEPT !.pc = l]]
  PROVE  Becomes(r, l, run[r].open, run[r].cancelled)
<1> DEFINE R == [run[r] EXCEPT !.pc = l]
<1>1. CheckShape(run[r])
  BY DEF RunShape
<1>2. CheckShape(R) /\ R.pc = l /\ R.open = run[r].open /\ R.cancelled = run[r].cancelled
  BY <1>1 DEF CheckShape, Fields, Pcs
<1>3. run' = [run EXCEPT ![r] = R]
  OBVIOUS
<1> HIDE DEF R
<1>4. Becomes(r, R.pc, R.open, R.cancelled)
  BY <1>2, <1>3, SetRun
<1> QED
  BY <1>2, <1>4

LEMMA StartBecomes ==
  ASSUME RunShape, NEW r \in Runs,
         run' = [run EXCEPT ![r] = [@ EXCEPT !.pc = "load",
                                             !.text = editor,
                                             !.open = TRUE,
                                             !.wanted = wanted]]
  PROVE  Becomes(r, "load", TRUE, run[r].cancelled)
<1> DEFINE R == [run[r] EXCEPT !.pc = "load",
                         !.text = editor,
                         !.open = TRUE,
                         !.wanted = wanted]
<1>1. CheckShape(run[r])
  BY DEF RunShape
<1>2. CheckShape(R) /\ R.pc = "load" /\ R.open = TRUE /\ R.cancelled = run[r].cancelled
  BY <1>1 DEF CheckShape, Fields, Pcs
<1>3. run' = [run EXCEPT ![r] = R]
  OBVIOUS
<1> HIDE DEF R
<1>4. Becomes(r, R.pc, R.open, R.cancelled)
  BY <1>2, <1>3, SetRun
<1> QED
  BY <1>2, <1>4

LEMMA FinishBecomes ==
  ASSUME RunShape, NEW r \in Runs, NEW a,
         run' = [run EXCEPT ![r] = [@ EXCEPT !.pc = "done",
                                             !.result = "none",
                                             !.shown = a,
                                             !.open = FALSE]]
  PROVE  Becomes(r, "done", FALSE, run[r].cancelled)
<1> DEFINE R == [run[r] EXCEPT !.pc = "done",
                         !.result = "none",
                         !.shown = a,
                         !.open = FALSE]
<1>1. CheckShape(run[r])
  BY DEF RunShape
<1>2. CheckShape(R) /\ R.pc = "done" /\ R.open = FALSE /\ R.cancelled = run[r].cancelled
  BY <1>1 DEF CheckShape, Fields, Pcs
<1>3. run' = [run EXCEPT ![r] = R]
  OBVIOUS
<1> HIDE DEF R
<1>4. Becomes(r, R.pc, R.open, R.cancelled)
  BY <1>2, <1>3, SetRun
<1> QED
  BY <1>2, <1>4

LEMMA ReportBecomes ==
  ASSUME RunShape, NEW r \in Runs,
         run' = [run EXCEPT ![r] = [@ EXCEPT !.pc = "dialog",
                                             !.open = FALSE]]
  PROVE  Becomes(r, "dialog", FALSE, run[r].cancelled)
<1> DEFINE R == [run[r] EXCEPT !.pc = "dialog",
                         !.open = FALSE]
<1>1. CheckShape(run[r])
  BY DEF RunShape
<1>2. CheckShape(R) /\ R.pc = "dialog" /\ R.open = FALSE /\ R.cancelled = run[r].cancelled
  BY <1>1 DEF CheckShape, Fields, Pcs
<1>3. run' = [run EXCEPT ![r] = R]
  OBVIOUS
<1> HIDE DEF R
<1>4. Becomes(r, R.pc, R.open, R.cancelled)
  BY <1>2, <1>3, SetRun
<1> QED
  BY <1>2, <1>4

LEMMA ViewsBecomes ==
  ASSUME RunShape, NEW r \in Runs, NEW a,
         run' = [run EXCEPT ![r] = [@ EXCEPT !.pc = "views",
                                             !.result = a]]
  PROVE  Becomes(r, "views", run[r].open, run[r].cancelled)
<1> DEFINE R == [run[r] EXCEPT !.pc = "views",
                         !.result = a]
<1>1. CheckShape(run[r])
  BY DEF RunShape
<1>2. CheckShape(R) /\ R.pc = "views" /\ R.open = run[r].open /\ R.cancelled = run[r].cancelled
  BY <1>1 DEF CheckShape, Fields, Pcs
<1>3. run' = [run EXCEPT ![r] = R]
  OBVIOUS
<1> HIDE DEF R
<1>4. Becomes(r, R.pc, R.open, R.cancelled)
  BY <1>2, <1>3, SetRun
<1> QED
  BY <1>2, <1>4

LEMMA CancelBecomes ==
  ASSUME RunShape, NEW r \in Runs,
         run' = [run EXCEPT ![r] = [@ EXCEPT !.pc = "done",
                                             !.result = "none",
                                             !.shown = "cancelled",
                                             !.cancelled = TRUE,
                                             !.open = FALSE]]
  PROVE  Becomes(r, "done", FALSE, TRUE)
<1> DEFINE R == [run[r] EXCEPT !.pc = "done",
                         !.result = "none",
                         !.shown = "cancelled",
                         !.cancelled = TRUE,
                         !.open = FALSE]
<1>1. CheckShape(run[r])
  BY DEF RunShape
<1>2. CheckShape(R) /\ R.pc = "done" /\ R.open = FALSE /\ R.cancelled = TRUE
  BY <1>1 DEF CheckShape, Fields, Pcs
<1>3. run' = [run EXCEPT ![r] = R]
  OBVIOUS
<1> HIDE DEF R
<1>4. Becomes(r, R.pc, R.open, R.cancelled)
  BY <1>2, <1>3, SetRun
<1> QED
  BY <1>2, <1>4

LEMMA GiveUpBecomes ==
  ASSUME RunShape, NEW r \in Runs,
         run' = [run EXCEPT ![r] = [@ EXCEPT !.cancelled = TRUE,
                                             !.open = FALSE]]
  PROVE  Becomes(r, run[r].pc, FALSE, TRUE)
<1> DEFINE R == [run[r] EXCEPT !.cancelled = TRUE,
                         !.open = FALSE]
<1>1. CheckShape(run[r])
  BY DEF RunShape
<1>2. CheckShape(R) /\ R.pc = run[r].pc /\ R.open = FALSE /\ R.cancelled = TRUE
  BY <1>1 DEF CheckShape, Fields, Pcs
<1>3. run' = [run EXCEPT ![r] = R]
  OBVIOUS
<1> HIDE DEF R
<1>4. Becomes(r, R.pc, R.open, R.cancelled)
  BY <1>2, <1>3, SetRun
<1> QED
  BY <1>2, <1>4

LEMMA CheckedBecomes ==
  ASSUME RunShape, NEW r \in Runs, NEW k,
         run' = [run EXCEPT ![r] = [@ EXCEPT !.checked = k]]
  PROVE  Becomes(r, run[r].pc, run[r].open, run[r].cancelled)
<1> DEFINE R == [run[r] EXCEPT !.checked = k]
<1>1. CheckShape(run[r])
  BY DEF RunShape
<1>2. CheckShape(R) /\ R.pc = run[r].pc /\ R.open = run[r].open /\ R.cancelled = run[r].cancelled
  BY <1>1 DEF CheckShape, Fields, Pcs
<1>3. run' = [run EXCEPT ![r] = R]
  OBVIOUS
<1> HIDE DEF R
<1>4. Becomes(r, R.pc, R.open, R.cancelled)
  BY <1>2, <1>3, SetRun
<1> QED
  BY <1>2, <1>4

LEMMA OverlayFrame ==
  OverlayInv /\ UNCHANGED <<run, depth, active, str>> => OverlayInv'
BY DEF OverlayInv, RunShape, Working

(* The page and the session know a little more about a check.                *)
LEMMA OverlaySame ==
  ASSUME OverlayInv, NEW r \in Runs, UNCHANGED <<depth, active, str>>,
         Becomes(r, run[r].pc, run[r].open, run[r].cancelled)
  PROVE  OverlayInv'
<1>1. \A q \in Runs : /\ run'[q].pc = run[q].pc /\ run'[q].open = run[q].open
                      /\ run'[q].cancelled = run[q].cancelled
  BY DEF Becomes
<1>2. \A q \in Runs : Working(q)' <=> Working(q)
  BY <1>1 DEF Working
<1> QED
  BY <1>1, <1>2 DEF OverlayInv, Becomes

(* A check that works goes on.                                               *)
LEMMA OverlayAdvance ==
  ASSUME OverlayInv, NEW r \in Runs, NEW l \in {"check", "views", "toggles"},
         run[r].pc \in {"load", "check", "views"}, UNCHANGED <<depth, active, str>>,
         Becomes(r, l, run[r].open, run[r].cancelled)
  PROVE  OverlayInv'
<1>1. Working(r) /\ ~run[r].cancelled
  BY DEF OverlayInv, Working
<1>2. Working(r)' /\ run'[r].open /\ ~run'[r].cancelled /\ run'[r].pc # "dialog"
  BY <1>1 DEF OverlayInv, Working, Becomes
<1>3. \A q \in Runs : Working(q)' <=> Working(q)
  BY <1>1, <1>2 DEF Working, Becomes
<1>4. \A q \in Runs : Working(q)' \/ run'[q].pc = "dialog" <=> Working(q) \/ run[q].pc = "dialog"
  BY <1>1, <1>2, <1>3 DEF Becomes
<1>5. \A q \in Runs : run'[q].open <=> run[q].open
  BY <1>1, <1>2 DEF OverlayInv, Becomes
<1>6. \A q \in Runs : run'[q].cancelled => run'[q].pc \in {"toggles", "done"}
  BY <1>2 DEF OverlayInv, Becomes
<1> QED
  BY <1>3, <1>4, <1>5, <1>6 DEF OverlayInv, Becomes

(* At most one check works or reports, and it has the overlay or a dialog.   *)
LEMMA OneActive ==
  ASSUME OverlayInv, NEW r \in Runs, Working(r) \/ run[r].pc = "dialog"
  PROVE  \A q \in Runs \ {r} : ~Working(q) /\ run[q].pc # "dialog"
BY DEF OverlayInv

(* A check ends, or is given up while it waits for its toggles.              *)
LEMMA OverlayEnd ==
  ASSUME OverlayInv, NEW r \in Runs, NEW l, NEW c \in BOOLEAN,
         l = "done" \/ (l = "toggles" /\ c), Becomes(r, l, FALSE, c), Close(r),
         active' = IF active = r THEN None ELSE active, str' = str
  PROVE  OverlayInv'
<1>1. ~Working(r)' /\ run'[r].pc # "dialog" /\ ~run'[r].open
  BY DEF Becomes, Working
<1>2. \A q \in Runs \ {r} : Working(q)' <=> Working(q)
  BY DEF Becomes, Working
<1>3. \A q \in Runs : run'[q].open <=> Working(q)'
  BY <1>1, <1>2 DEF OverlayInv, Becomes
<1>4. \A q \in Runs : run'[q].cancelled => run'[q].pc \in {"toggles", "done"}
  BY DEF OverlayInv, Becomes
<1>5. active' \in Runs \cup {None}
  BY DEF OverlayInv
<1>6. \A q \in Runs : active' = q <=> Working(q)' \/ run'[q].pc = "dialog"
  BY <1>1, <1>2, NoneAssumption DEF OverlayInv, Becomes
<1>7. depth' = IF str'.pc = "adding" \/ (\E q \in Runs : Working(q)') THEN 1 ELSE 0
  <2>1. CASE Working(r)
    <3>1. run[r].open /\ depth = 1 /\ str.pc # "adding"
      BY <2>1 DEF OverlayInv
    <3>2. depth' = 0
      BY <3>1 DEF Close
    <3>3. \A q \in Runs : ~Working(q)'
      BY <1>1, <1>2, <2>1, OneActive
    <3> QED
      BY <3>1, <3>2, <3>3
  <2>2. CASE ~Working(r)
    <3>1. depth' = depth
      BY <2>2 DEF OverlayInv, Close
    <3>2. (\E q \in Runs : Working(q)') <=> (\E q \in Runs : Working(q))
      BY <1>1, <1>2, <2>2
    <3> QED
      BY <3>1, <3>2 DEF OverlayInv
  <2> QED
    BY <2>1, <2>2
<1>8. str'.pc = "adding" => \A q \in Runs : ~Working(q)'
  BY <1>1, <1>2 DEF OverlayInv
<1> QED
  BY <1>3, <1>4, <1>5, <1>6, <1>7, <1>8 DEF OverlayInv, Becomes

(* A check reports an error.                                                 *)
LEMMA OverlayReport ==
  ASSUME OverlayInv, NEW r \in Runs, run[r].pc \in {"load", "check", "views"},
         Becomes(r, "dialog", FALSE, run[r].cancelled), Close(r),
         UNCHANGED <<active, str>>
  PROVE  OverlayInv'
<1>1. Working(r) /\ ~run[r].cancelled
  BY DEF OverlayInv, Working
<1>2. ~Working(r)' /\ run'[r].pc = "dialog" /\ ~run'[r].open /\ ~run'[r].cancelled
  BY <1>1 DEF Becomes, Working
<1>3. \A q \in Runs \ {r} : ~Working(q)
  BY <1>1, OneActive
<1>4. \A q \in Runs : ~Working(q)'
  BY <1>2, <1>3 DEF Becomes, Working
<1>5. depth' = 0 /\ str.pc # "adding"
  <2>1. run[r].open /\ depth = 1 /\ str.pc # "adding"
    BY <1>1 DEF OverlayInv
  <2> QED
    BY <2>1 DEF Close
<1>6. \A q \in Runs : run'[q].open <=> Working(q)'
  BY <1>2, <1>3, <1>4 DEF OverlayInv, Becomes
<1>7. \A q \in Runs : active' = q <=> Working(q)' \/ run'[q].pc = "dialog"
  BY <1>1, <1>2, <1>4 DEF OverlayInv, Becomes
<1>8. \A q \in Runs : run'[q].cancelled => run'[q].pc \in {"toggles", "done"}
  BY <1>2 DEF OverlayInv, Becomes
<1> QED
  BY <1>4, <1>5, <1>6, <1>7, <1>8 DEF OverlayInv, Becomes

(* A check begins.                                                           *)
LEMMA OverlayStart ==
  ASSUME OverlayInv, NEW r \in Runs, StartCheck(r)
  PROVE  OverlayInv'
<1>1. Becomes(r, "load", TRUE, run[r].cancelled)
  BY StartBecomes DEF StartCheck, OverlayInv
<1>2. /\ depth = 0 /\ depth' = 1 /\ active = None /\ active' = r /\ str' = str
      /\ run[r].pc = "idle"
  BY DEF StartCheck, Free, OverlayInv
<1>3. str.pc # "adding" /\ \A q \in Runs : ~Working(q) /\ run[q].pc # "dialog"
  BY <1>2, NoneAssumption DEF OverlayInv
<1>4. Working(r)' /\ run'[r].open /\ ~run'[r].cancelled /\ run'[r].pc # "dialog"
  BY <1>1, <1>2 DEF Becomes, Working, OverlayInv
<1>5. \A q \in Runs \ {r} : ~Working(q)' /\ run'[q].pc # "dialog"
  BY <1>1, <1>3 DEF Becomes, Working
<1>6. \A q \in Runs : run'[q].open <=> Working(q)'
  BY <1>1, <1>3, <1>4, <1>5 DEF OverlayInv, Becomes
<1>7. \A q \in Runs : active' = q <=> Working(q)' \/ run'[q].pc = "dialog"
  BY <1>2, <1>4, <1>5
<1>8. \A q \in Runs : run'[q].cancelled => run'[q].pc \in {"toggles", "done"}
  BY <1>1, <1>4 DEF OverlayInv, Becomes
<1> QED
  BY <1>1, <1>2, <1>3, <1>4, <1>6, <1>7, <1>8 DEF OverlayInv, Becomes

LEMMA OverlayRun ==
  ASSUME OverlayInv, NEW r \in Runs, RunStep(r)
  PROVE  OverlayInv'
<1> RunShape /\ str' = str
  BY DEF OverlayInv, RunStep
<1>1. ASSUME NEW a, Finish(r, a) PROVE OverlayInv'
  <2>1. Becomes(r, "done", FALSE, run[r].cancelled) /\ run[r].cancelled \in BOOLEAN
    BY <1>1, FinishBecomes DEF Finish, RunShape, CheckShape
  <2> QED
    BY <1>1, <2>1, OverlayEnd DEF Finish
<1>2. ASSUME Report(r), run[r].pc \in {"load", "check", "views"} PROVE OverlayInv'
  <2>1. Becomes(r, "dialog", FALSE, run[r].cancelled)
    BY <1>2, ReportBecomes DEF Report
  <2> QED
    BY <1>2, <2>1, OverlayReport DEF Report
<1>3. CASE AfterLoad(r)
  <2>1. CASE Goto(r, "check") /\ UNCHANGED <<active, depth>>
    <3>1. Becomes(r, "check", run[r].open, run[r].cancelled)
      BY <2>1, GotoBecomes DEF Goto, Pcs
    <3> QED
      BY <1>3, <2>1, <3>1, OverlayAdvance DEF AfterLoad
  <2> QED
    BY <1>2, <1>3, <2>1 DEF AfterLoad
<1>4. CASE AfterCheck(r)
  <2>1. ASSUME NEW a, run' = [run EXCEPT ![r] = [@ EXCEPT !.pc = "views", !.result = a]],
               UNCHANGED <<active, depth>>
        PROVE  OverlayInv'
    <3>1. Becomes(r, "views", run[r].open, run[r].cancelled)
      BY <2>1, ViewsBecomes
    <3> QED
      BY <1>4, <2>1, <3>1, OverlayAdvance DEF AfterCheck
  <2> QED
    BY <1>1, <1>4, <2>1 DEF AfterCheck
<1>5. CASE AfterViews(r)
  <2>1. CASE Goto(r, "toggles") /\ UNCHANGED <<active, depth>>
    <3>1. Becomes(r, "toggles", run[r].open, run[r].cancelled)
      BY <2>1, GotoBecomes DEF Goto, Pcs
    <3> QED
      BY <1>5, <2>1, <3>1, OverlayAdvance DEF AfterViews
  <2> QED
    BY <1>1, <1>2, <1>5, <2>1 DEF AfterViews
<1>6. CASE AfterToggles(r)
  BY <1>1, <1>6 DEF AfterToggles
<1> QED
  BY <1>3, <1>4, <1>5, <1>6 DEF RunStep

LEMMA OverlayCancel == ASSUME OverlayInv, Cancel PROVE OverlayInv'
<1> DEFINE r == active
<1>1. r \in Runs /\ active' = None /\ Close(r) /\ str' = str /\ RunShape
  BY DEF Cancel, OverlayInv
<1>2. CASE run' = [run EXCEPT ![r] = [@ EXCEPT !.pc = "done", !.result = "none",
                                               !.shown = "cancelled",
                                               !.cancelled = TRUE, !.open = FALSE]]
  <2>1. Becomes(r, "done", FALSE, TRUE)
    BY <1>1, <1>2, CancelBecomes
  <2> QED
    BY <1>1, <2>1, OverlayEnd
<1>3. CASE /\ run[r].pc = "toggles"
           /\ run' = [run EXCEPT ![r] = [@ EXCEPT !.cancelled = TRUE, !.open = FALSE]]
  <2>1. Becomes(r, "toggles", FALSE, TRUE)
    BY <1>1, <1>3, GiveUpBecomes
  <2> QED
    BY <1>1, <2>1, OverlayEnd
<1> QED
  BY <1>2, <1>3 DEF Cancel

LEMMA OverlayServe == ASSUME OverlayInv, Serve PROVE OverlayInv'
<1>1. UNCHANGED <<depth, active, str>> /\ RunShape
  BY DEF Serve, OverlayInv
<1>2. CASE UNCHANGED run
  BY <1>1, <1>2, OverlayFrame
<1>3. ASSUME NEW q, NEW k, run' = [run EXCEPT ![q.from].checked = k]
      PROVE  OverlayInv'
  <2>1. CASE q.from \in Runs
    <3>1. Becomes(q.from, run[q.from].pc, run[q.from].open, run[q.from].cancelled)
      BY <1>1, <1>3, <2>1, CheckedBecomes
    <3> QED
      BY <1>1, <2>1, <3>1, OverlaySame
  <2>2. CASE q.from \notin Runs
    <3>1. run' = run
      BY <1>1, <1>3, <2>2 DEF RunShape
    <3> QED
      BY <1>1, <3>1, OverlayFrame
  <2> QED
    BY <2>1, <2>2
<1>4. \/ UNCHANGED run
      \/ \E q, k : run' = [run EXCEPT ![q.from].checked = k]
  <2>1. ASSUME NEW q, Load(q) \/ Check(q) \/ Look(q) \/ List(q) \/ Weaken(q) \/ Strengthen(q)
        PROVE  \/ UNCHANGED run
               \/ run' = [run EXCEPT ![q.from].checked = ToSet(InductionConjs(session))]
    BY <2>1 DEF Load, Check, Look, List, Weaken, Strengthen
  <2> QED
    BY <2>1 DEF Serve
<1> QED
  BY <1>2, <1>3, <1>4

(* When the user closes the report of an error nobody works for cti_strengthen. *)
LEMMA OverlayClosed ==
  ASSUME OverlayInv, CloseStrengthen
  PROVE  OverlayInv'
<1>1. UNCHANGED <<run, depth, active>> /\ str.pc # "adding" /\ str'.pc # "adding"
  BY DEF CloseStrengthen, NoStrengthen
<1>2. \A r \in Runs : Working(r)' <=> Working(r)
  BY <1>1 DEF Working
<1> QED
  BY <1>1, <1>2 DEF OverlayInv, RunShape

LEMMA OverlayStrengthen ==
  ASSUME OverlayInv,
         \/ \E c \in Selectable : StartStrengthen(c)
         \/ AfterStrengthen \/ CloseStrengthen
  PROVE  OverlayInv'
<1> SUFFICES ASSUME ~CloseStrengthen PROVE OverlayInv'
  BY OverlayClosed
<1>1. \A r \in Runs : ~Working(r)
  BY NoneAssumption DEF OverlayInv, StartStrengthen, AfterStrengthen, Free
<1>2. /\ UNCHANGED <<run, active>>
      /\ depth' = IF str'.pc = "adding" THEN 1 ELSE 0
  <2>1. CASE \E c \in Selectable : StartStrengthen(c)
    BY <2>1 DEF StartStrengthen, Free
  <2>2. CASE AfterStrengthen
    BY <2>2 DEF AfterStrengthen, NoStrengthen, OverlayInv
  <2> QED
    BY <2>1, <2>2
<1>3. \A r \in Runs : ~Working(r)'
  BY <1>1, <1>2 DEF Working
<1> QED
  BY <1>1, <1>2, <1>3 DEF OverlayInv, RunShape

LEMMA OverlayNext == OverlayInv /\ [Next]_vars => OverlayInv'
<1> SUFFICES ASSUME OverlayInv, [Next]_vars PROVE OverlayInv'
  OBVIOUS
<1>1. CASE Serve
  BY <1>1, OverlayServe
<1>2. ASSUME NEW r \in Runs, RunStep(r) PROVE OverlayInv'
  BY <1>2, OverlayRun
<1>3. ASSUME NEW r \in Runs, StartCheck(r) PROVE OverlayInv'
  BY <1>3, OverlayStart
<1>4. ASSUME NEW r \in Runs, CloseReport(r), str' = str PROVE OverlayInv'
  <2>1. Becomes(r, "done", FALSE, run[r].cancelled) /\ run[r].cancelled \in BOOLEAN
    BY <1>4, FinishBecomes DEF CloseReport, Finish, OverlayInv, RunShape, CheckShape
  <2> QED
    BY <1>4, <2>1, OverlayEnd DEF CloseReport, Finish
<1>5. CASE Cancel
  BY <1>5, OverlayCancel
<1>6. CASE (\E c \in Selectable : StartStrengthen(c)) \/ AfterStrengthen \/ CloseStrengthen
  BY <1>6, OverlayStrengthen
<1>7. CASE UNCHANGED <<run, depth, active, str>>
  BY <1>7, OverlayFrame
<1>8. Lose \/ AfterList \/ AfterWeaken \/ StartWeaken \/ UNCHANGED vars
        => UNCHANGED <<run, depth, active, str>>
  BY DEF Lose, AfterList, AfterWeaken, StartWeaken, vars, page
<1>9. ASSUME NEW t, EditText(t) PROVE UNCHANGED <<run, depth, active, str>>
  BY <1>9 DEF EditText
<1>10. ASSUME NEW I, Choose(I) PROVE UNCHANGED <<run, depth, active, str>>
  BY <1>10 DEF Choose
<1> QED
  BY <1>1, <1>2, <1>3, <1>4, <1>5, <1>6, <1>7, <1>8, <1>9, <1>10 DEF Next, Answered

(* However checks are cancelled, fail or end late: the overlay is there      *)
(* exactly while a function that asked for it works, and the active check is *)
(* one that works or reports (runContextService.ts:14-41,                    *)
(* checkService.ts:350-478).                                                 *)
THEOREM OverlayIsRight == Spec => []OverlayMatches
BY OverlayInit, OverlayNext, OverlayIsMatched, PTL DEF Spec

-----------------------------------------------------------------------------
(* Requests and their answers.                                               *)
CheckPcs == {"load", "check", "views", "toggles"}

(* What a request that is on its way says of who sent it; those of a check   *)
(* that was cancelled have no sender.                                        *)
Fits(q) ==
  /\ q.from # None => reply[q.from] = "none"
  /\ q.from \in Runs =>
       /\ q.kind = run[q.from].pc /\ q.kind \in CheckPcs
       /\ q.kind = "load" => q.text = run[q.from].text
  /\ q.from = "weaken" => <<q.kind, weak.pc>> \in {<<"list", "listing">>, <<"weaken", "removing">>}
  /\ q.from = "strengthen" => q.kind = "strengthen" /\ str.pc = "adding"
  /\ q.from = None => q.kind \in CheckPcs
  /\ q.kind = "load" => q.text \in Texts

(* Everybody waits for one answer at a time.                                 *)
Requests ==
  /\ \A i \in DOMAIN queue : Fits(queue[i])
  /\ \A i, j \in DOMAIN queue : queue[i].from = queue[j].from /\ queue[i].from # None => i = j
  /\ \A r \in Runs : reply[r] # "none" => run[r].pc \in CheckPcs
  /\ reply["weaken"] # "none" => weak.pc \in {"listing", "removing"}
  /\ reply["strengthen"] # "none" => str.pc = "adding"

SmallPart ==
  /\ str.pc = "adding" => str.conj \in Conjs
  /\ weak.pc # "removing" => weak.chosen = {}

Typed == TypeOK /\ Requests /\ SmallPart /\ OverlayInv

Answers == {"none", "ok", "pass", "fail", "error"}

(* What is known of an entry of the queue.                                   *)
LEMMA QueueEntry ==
  ASSUME Typed, NEW i \in DOMAIN queue
  PROVE  queue[i] \in RequestType /\ Fits(queue[i])
BY DEF Typed, TypeOK, Requests

LEMMA TextTyped ==
  /\ \A t \in Texts : Loaded(t) \in SessionType
  /\ NoModel \in SessionType
  /\ \A t \in Texts : Invariants[t] \in Seq(Conjs) /\ ToSet(Invariants[t]) \subseteq Conjs
<1>1. ASSUME NEW t \in Texts
      PROVE  Invariants[t] \in Seq(Conjs) /\ ToSet(Invariants[t]) \subseteq Conjs
  <2>1. Invariants[t] \in Seq(Conjs)
    BY TextAssumption
  <2> QED
    BY <2>1 DEF ToSet
<1> QED
  BY <1>1 DEF Loaded, NoModel, SessionType

LEMMA InductionTyped ==
  ASSUME session \in SessionType
  PROVE  InductionConjs(session) \in Seq(Conjs) /\ ToSet(InductionConjs(session)) \subseteq Conjs
<1>1. InductionConjs(session) \in Seq(Conjs)
  BY TextTyped DEF InductionConjs, SessionType
<1> QED
  BY <1>1 DEF ToSet

(* What serving a request does to the rest.                                  *)
ServesTyped(q) ==
  /\ session' \in SessionType
  /\ weak' \in WeakenType /\ weak'.pc = weak.pc /\ weak'.chosen = weak.chosen
  /\ weak'.chosen \subseteq DOMAIN weak'.list
  /\ run' \in [Runs -> CheckType]
  /\ \A r \in Runs : /\ run'[r].pc = run[r].pc /\ run'[r].text = run[r].text
                     /\ run'[r].result = run[r].result /\ run'[r].shown = run[r].shown
                     /\ run'[r].cancelled = run[r].cancelled
                     /\ r # q.from => run'[r] = run[r]
  /\ \E a \in Answers \ {"none"} : Answer(q, a)

LEMMA LoadTyped ==
  ASSUME Typed, NEW q \in RequestType, Fits(q), Load(q)
  PROVE  ServesTyped(q)
<1>1. q.text \in Texts
  BY DEF Load, Fits
<1>2. session' \in SessionType /\ \E a \in Answers \ {"none"} : Answer(q, a)
  <2>1. [Loaded(q.text) EXCEPT !.induction = None] \in SessionType
    BY <1>1, TextTyped DEF SessionType
  <2> QED
    BY <1>1, <2>1, TextTyped DEF Load, Answers
<1>3. (weak.pc # "idle") \in BOOLEAN
  OBVIOUS
<1> DEFINE b == weak.pc # "idle"
<1>4. weak' = [weak EXCEPT !.reloaded = b] /\ run' = run
  BY DEF Load
<1> HIDE DEF b
<1>5. /\ weak' \in WeakenType /\ weak'.pc = weak.pc /\ weak'.chosen = weak.chosen
      /\ weak'.list = weak.list
  BY <1>3, <1>4 DEF Typed, TypeOK, WeakenType, b
<1> QED
  BY <1>2, <1>4, <1>5 DEF ServesTyped, Typed, TypeOK

LEMMA CheckTyped ==
  ASSUME Typed, NEW q \in RequestType, Fits(q), Check(q)
  PROVE  ServesTyped(q)
<1> DEFINE L == InductionConjs(session)
<1>1. L \in Seq(Conjs) /\ ToSet(L) \subseteq Conjs
  BY InductionTyped DEF Typed, TypeOK
<1>2. session' \in SessionType
  <2>1. ASSUME NEW i \in DOMAIN L,
               session' = [session EXCEPT !.haveCTI = TRUE, !.current = L[i]]
        PROVE  session' \in SessionType
    <3>1. L[i] \in Conjs
      BY <1>1, <2>1
    <3> HIDE DEF L
    <3> QED
      BY <2>1, <3>1 DEF Typed, TypeOK, SessionType
  <2>2. CASE session' = session
    BY <2>2 DEF Typed, TypeOK
  <2> QED
    BY <2>1, <2>2 DEF Check, Verdict
<1>3. \E a \in Answers \ {"none"} : Answer(q, a)
  <2>1. ASSUME NEW a \in {"pass", "fail", "error"}, Answer(q, a)
        PROVE  \E b \in Answers \ {"none"} : Answer(q, b)
    BY <2>1 DEF Answers
  <2>2. CASE q.from = None /\ reply' = reply
    BY <2>2 DEF Answers, Answer
  <2> QED
    BY <2>1, <2>2 DEF Check, Verdict
<1>4. weak' = weak
  BY DEF Check
<1>5. /\ run' \in [Runs -> CheckType]
      /\ \A r \in Runs : /\ run'[r].pc = run[r].pc /\ run'[r].text = run[r].text
                         /\ run'[r].result = run[r].result /\ run'[r].shown = run[r].shown
                         /\ run'[r].cancelled = run[r].cancelled
                         /\ r # q.from => run'[r] = run[r]
  <2>1. CASE run' = run
    BY <2>1 DEF Typed, TypeOK
  <2>2. CASE run' = [run EXCEPT ![q.from].checked = ToSet(L)]
    <3> DEFINE k == ToSet(L)
    <3>1. k \in SUBSET Conjs
      BY <1>1
    <3> HIDE DEF k
    <3>2. run' = [run EXCEPT ![q.from].checked = k]
      BY <2>2 DEF k
    <3>3. run \in [Runs -> CheckType]
      BY DEF Typed, TypeOK
    <3>4. \A r \in Runs :
            run'[r] = IF r = q.from THEN [run[r] EXCEPT !.checked = k] ELSE run[r]
      BY <3>2, <3>3
    <3>5. \A c \in CheckType : LET d == [c EXCEPT !.checked = k]
                               IN /\ d \in CheckType /\ d.pc = c.pc /\ d.text = c.text
                                  /\ d.result = c.result /\ d.shown = c.shown
                                  /\ d.cancelled = c.cancelled
      BY <3>1 DEF CheckType
    <3>6. run' = [r \in Runs |-> run'[r]]
      BY <3>2, <3>3
    <3>7. \A r \in Runs : run[r] \in CheckType
      BY <3>3
    <3>8. \A r \in Runs : run'[r] \in CheckType
      BY <3>4, <3>5, <3>7
    <3> QED
      BY <3>4, <3>5, <3>6, <3>7, <3>8
  <2> QED
    BY <2>1, <2>2 DEF Check
<1> QED
  BY <1>2, <1>3, <1>4, <1>5 DEF ServesTyped, Typed, TypeOK

LEMMA OthersTyped ==
  ASSUME Typed, NEW q \in RequestType, Fits(q), Look(q) \/ List(q) \/ Weaken(q) \/ Strengthen(q)
  PROVE  ServesTyped(q)
<1>1. run' = run /\ run \in [Runs -> CheckType]
  BY DEF Look, List, Weaken, Strengthen, Typed, TypeOK
<1>2. \E a \in Answers \ {"none"} : Answer(q, a)
  BY DEF Look, List, Weaken, Strengthen, Answers
<1>3. /\ session \in SessionType /\ weak \in WeakenType /\ weak.chosen \subseteq DOMAIN weak.list
      /\ session.labeled \in Seq(Conjs) /\ session.cti \in Seq(Conjs)
  BY DEF Typed, TypeOK, SessionType
<1>4. CASE session' = session /\ weak' = weak
  BY <1>1, <1>2, <1>3, <1>4 DEF ServesTyped
<1>5. CASE List(q)
  <2>1. weak.pc = "listing" /\ weak.chosen = {}
    BY <1>5 DEF List, Fits, CheckPcs, Typed, SmallPart, RequestType, Ops
  <2>2. weak' = [weak EXCEPT !.list = session.labeled, !.reloaded = FALSE] /\ session' = session
    BY <1>5 DEF List
  <2>3. /\ weak' \in WeakenType /\ weak'.pc = weak.pc /\ weak'.chosen = weak.chosen
        /\ weak'.chosen \subseteq DOMAIN weak'.list
    BY <1>3, <2>1, <2>2 DEF WeakenType
  <2> QED
    BY <1>1, <1>2, <1>3, <2>2, <2>3 DEF ServesTyped
<1>6. CASE Weaken(q) /\ session.text # None
  <2> DEFINE l == Kept(session.labeled, weak.chosen)
             c == CutOut(session.cti, weak.chosen)
             d == Removed(session.labeled, weak.chosen)
  <2>1. l \in Seq(Conjs) /\ c \in Seq(Conjs) /\ d \in Seq(Conjs)
    BY <1>3, KeptSeq, CutOutIsKept DEF Removed
  <2> HIDE DEF l, c, d
  <2>2. /\ session' = [session EXCEPT !.labeled = l, !.cti = c, !.haveCTI = FALSE]
        /\ weak' = [weak EXCEPT !.removed = d]
    BY <1>6 DEF Weaken, l, c, d
  <2>3. session' \in SessionType
    BY <1>3, <2>1, <2>2 DEF SessionType
  <2>4. /\ weak' \in WeakenType /\ weak'.pc = weak.pc /\ weak'.chosen = weak.chosen
        /\ weak'.list = weak.list
    BY <1>3, <2>1, <2>2 DEF WeakenType
  <2> QED
    BY <1>1, <1>2, <1>3, <2>3, <2>4 DEF ServesTyped
<1>7. CASE Strengthen(q) /\ session.text # None
  <2>1. str.conj \in Conjs
    BY <1>7 DEF Strengthen, Fits, CheckPcs, Typed, SmallPart, RequestType, Ops
  <2> DEFINE l == Append(session.labeled, str.conj)
             c == Append(session.cti, str.conj)
  <2>2. l \in Seq(Conjs) /\ c \in Seq(Conjs)
    BY <1>3, <2>1, AppendProperties
  <2> HIDE DEF l, c
  <2>3. session' = [session EXCEPT !.labeled = l, !.cti = c, !.haveCTI = FALSE] /\ weak' = weak
    BY <1>7 DEF Strengthen, l, c
  <2>4. session' \in SessionType
    BY <1>3, <2>2, <2>3 DEF SessionType
  <2> QED
    BY <1>1, <1>2, <1>3, <2>3, <2>4 DEF ServesTyped
<1> QED
  BY <1>4, <1>5, <1>6, <1>7 DEF Look, Weaken, Strengthen

LEMMA ServeTyped ==
  ASSUME Typed, NEW q \in RequestType, Fits(q),
         Load(q) \/ Check(q) \/ Look(q) \/ List(q) \/ Weaken(q) \/ Strengthen(q)
  PROVE  ServesTyped(q)
BY LoadTyped, CheckTyped, OthersTyped

-----------------------------------------------------------------------------
(* Nobody who has an answer, or is not waiting, has a request on its way.    *)
LEMMA NoneQueued ==
  ASSUME Typed, NEW o \in Ops,
         \/ reply[o] # "none"
         \/ o \in Runs /\ run[o].pc \notin CheckPcs
         \/ o = "weaken" /\ weak.pc \notin {"listing", "removing"}
         \/ o = "strengthen" /\ str.pc # "adding"
  PROVE  \A i \in DOMAIN queue : queue[i].from # o
<1> SUFFICES ASSUME NEW i \in DOMAIN queue, queue[i].from = o PROVE FALSE
  OBVIOUS
<1>1. Fits(queue[i])
  BY QueueEntry
<1>2. o # None
  BY NoneAssumption DEF Ops
<1> QED
  BY <1>1, <1>2 DEF Fits

(* A request is served.                                                      *)
LEMMA ServedRequests ==
  ASSUME Typed, NEW i \in DOMAIN queue, queue' = RemoveAt(queue, i),
         ServesTyped(queue[i]), str' = str
  PROVE  Requests' /\ queue' \in Seq(RequestType) /\ reply' \in [Ops -> Answers]
<1> DEFINE q == queue[i]
           n == Len(queue) - 1
           f == [k \in 1..n |-> IF k < i THEN k ELSE k + 1]
<1>1. queue \in Seq(RequestType) /\ i \in 1..Len(queue) /\ Len(queue) \in Nat
  BY DEF Typed, TypeOK
<1>2. /\ queue' \in Seq(RequestType) /\ DOMAIN queue' = 1..n
      /\ \A k \in 1..n : queue'[k] = queue[f[k]]
  <2>1. /\ queue' \in Seq(RequestType) /\ Len(queue') = n
        /\ \A k \in 1..n : queue'[k] = IF k < i THEN queue[k] ELSE queue[k + 1]
    BY <1>1, RemovedAt
  <2>2. DOMAIN queue' = 1..n
    BY <2>1
  <2>3. \A k \in 1..n : queue'[k] = queue[f[k]]
    BY <2>1
  <2> QED
    BY <2>1, <2>2, <2>3
<1>3. \A k \in 1..n : f[k] \in DOMAIN queue /\ f[k] # i
  BY <1>1
<1>4. \A k, l \in 1..n : f[k] = f[l] => k = l
  BY <1>1
<1> HIDE DEF f
<1>5. q \in RequestType /\ Fits(q)
  BY QueueEntry
<1>6. PICK a \in Answers \ {"none"} : Answer(q, a)
  BY DEF ServesTyped
<1>7. reply \in [Ops -> Answers] /\ None \notin Ops
  BY NoneAssumption DEF Typed, TypeOK, Answers, Ops
<1>8. /\ reply' \in [Ops -> Answers]
      /\ \A o \in Ops : reply'[o] = IF o = q.from THEN a ELSE reply[o]
  BY <1>6, <1>7 DEF Answer
<1>9. \A k \in DOMAIN queue' : queue'[k] \in RequestType /\ Fits(queue[k])'
  <2>1. ASSUME NEW p \in RequestType, Fits(p), p.from # None => p.from # q.from
        PROVE  Fits(p)'
    <3>1. p.from # None => reply'[p.from] = "none"
      BY <1>8, <2>1 DEF Fits, RequestType
    <3>2. weak'.pc = weak.pc /\ \A r \in Runs : run'[r].pc = run[r].pc /\ run'[r].text = run[r].text
      BY DEF ServesTyped
    <3> QED
      BY <2>1, <3>1, <3>2 DEF Fits
  <2>2. ASSUME NEW k \in 1..n
        PROVE  LET p == queue[f[k]]
               IN /\ queue'[k] = p /\ p \in RequestType /\ Fits(p)
                  /\ p.from # None => p.from # q.from
    <3>1. f[k] \in DOMAIN queue /\ f[k] # i
      BY <1>3
    <3> QED
      BY <1>2, <3>1, QueueEntry DEF Typed, Requests
  <2> QED
    BY <1>2, <2>1, <2>2
<1>10. \A k, l \in 1..n : queue'[k].from = queue'[l].from /\ queue'[k].from # None => k = l
  BY <1>2, <1>3, <1>4 DEF Typed, Requests
<1>11. \A r \in Runs : reply'[r] # "none" => run'[r].pc \in CheckPcs
  BY <1>5, <1>8 DEF Typed, Requests, Fits, ServesTyped, Ops
<1>12. reply'["weaken"] # "none" => weak'.pc \in {"listing", "removing"}
  BY <1>5, <1>8 DEF Typed, Requests, Fits, ServesTyped, Ops
<1>13. reply'["strengthen"] # "none" => str'.pc = "adding"
  BY <1>5, <1>8 DEF Typed, Requests, Fits, Ops
<1> QED
  BY <1>2, <1>8, <1>9, <1>10, <1>11, <1>12, <1>13 DEF Requests

(* Somebody who is not waiting for the session goes on, and asks it for      *)
(* something or not.                                                         *)
Asks(o) ==
  \/ queue' = queue
  \/ \E q \in RequestType : queue' = Append(queue, q) /\ q.from = o /\ Fits(q)'

LEMMA MovedRequests ==
  ASSUME Typed, NEW o \in Ops, \A i \in DOMAIN queue : queue[i].from # o,
         Asks(o), reply'[o] = "none", \A p \in Ops \ {o} : reply'[p] = reply[p],
         \A r \in Runs \ {o} : run'[r].pc = run[r].pc /\ run'[r].text = run[r].text,
         o # "weaken" => weak'.pc = weak.pc, o # "strengthen" => str'.pc = str.pc
  PROVE  Requests' /\ queue' \in Seq(RequestType)
<1>1. queue \in Seq(RequestType) /\ Len(queue) \in Nat
  BY DEF Typed, TypeOK
<1>2. ASSUME NEW q \in RequestType, Fits(q), q.from # o PROVE Fits(q)'
  BY <1>2 DEF Fits, RequestType
<1>3. \A i \in DOMAIN queue : queue[i] \in RequestType /\ Fits(queue[i])
  BY QueueEntry
<1>4. /\ queue' \in Seq(RequestType)
      /\ \A i \in DOMAIN queue' : Fits(queue[i])'
      /\ \A i, j \in DOMAIN queue' :
           queue'[i].from = queue'[j].from /\ queue'[i].from # None => i = j
  <2>1. CASE queue' = queue
    BY <1>1, <1>2, <1>3, <2>1 DEF Typed, Requests
  <2>2. CASE queue' # queue
    <3>0. PICK q \in RequestType : queue' = Append(queue, q) /\ q.from = o /\ Fits(q)'
      BY <2>2 DEF Asks
    <3>1. /\ queue' \in Seq(RequestType) /\ DOMAIN queue' = 1..(Len(queue) + 1)
          /\ \A i \in DOMAIN queue : queue'[i] = queue[i]
          /\ queue'[Len(queue) + 1] = q /\ DOMAIN queue = 1..Len(queue)
      BY <1>1, <3>0, AppendProperties
    <3>2. \A i \in DOMAIN queue' : i \in DOMAIN queue \/ i = Len(queue) + 1
      BY <1>1, <3>1
    <3>3. \A i \in DOMAIN queue' : Fits(queue[i])'
      BY <1>2, <1>3, <3>0, <3>1, <3>2
    <3>4. ASSUME NEW i \in DOMAIN queue', NEW j \in DOMAIN queue',
                 queue'[i].from = queue'[j].from, queue'[i].from # None
          PROVE  i = j
      <4>1. i \in DOMAIN queue <=> j \in DOMAIN queue
        BY <3>0, <3>1, <3>2, <3>4
      <4> QED
        BY <3>1, <3>2, <3>4, <4>1 DEF Typed, Requests
    <3> QED
      BY <3>1, <3>3, <3>4
  <2> QED
    BY <2>1, <2>2
<1>5. /\ \A r \in Runs : reply'[r] # "none" => run'[r].pc \in CheckPcs
      /\ reply'["weaken"] # "none" => weak'.pc \in {"listing", "removing"}
      /\ reply'["strengthen"] # "none" => str'.pc = "adding"
  BY DEF Typed, Requests, Ops
<1> QED
  BY <1>4, <1>5 DEF Requests

LEMMA LoseTyped == ASSUME Typed, OverlayInv', Lose PROVE Typed'
<1>1. PICK i \in DOMAIN queue : queue[i].from = None /\ queue' = RemoveAt(queue, i)
  BY DEF Lose
<1>2. UNCHANGED <<page, inOrder, reply, session>>
  BY DEF Lose
<1>3. ServesTyped(queue[i])
  <2>1. Answer(queue[i], "ok") /\ "ok" \in Answers \ {"none"}
    BY <1>1, <1>2 DEF Answer, Answers
  <2> QED
    BY <1>2, <2>1 DEF ServesTyped, Typed, TypeOK, page
<1>4. Requests' /\ queue' \in Seq(RequestType)
  BY <1>1, <1>2, <1>3, ServedRequests DEF page
<1> QED
  BY <1>2, <1>4 DEF Typed, TypeOK, SmallPart, page

LEMMA ServeKeepsTyped == ASSUME Typed, OverlayInv', Serve PROVE Typed'
<1>1. PICK i \in DOMAIN queue :
        /\ queue' = RemoveAt(queue, i)
        /\ \/ Load(queue[i]) \/ Check(queue[i]) \/ Look(queue[i]) \/ List(queue[i])
           \/ Weaken(queue[i]) \/ Strengthen(queue[i])
  BY DEF Serve
<1>2. UNCHANGED <<editor, wanted, active, depth, str, edits, inOrder>>
  BY DEF Serve
<1>3. ServesTyped(queue[i])
  BY <1>1, QueueEntry, ServeTyped
<1>4. Requests' /\ queue' \in Seq(RequestType) /\ reply' \in [Ops -> Answers]
  BY <1>1, <1>2, <1>3, ServedRequests
<1>5. TypeOK'
  BY <1>2, <1>3, <1>4 DEF Typed, TypeOK, ServesTyped, Answers
<1>6. SmallPart'
  BY <1>2, <1>3 DEF Typed, SmallPart, ServesTyped
<1> QED
  BY <1>4, <1>5, <1>6 DEF Typed

-----------------------------------------------------------------------------
(* The steps of a check.                                                     *)
Sets(r, R) ==
  /\ R \in CheckType
  /\ run' \in [Runs -> CheckType] /\ run'[r] = R
  /\ \A q \in Runs \ {r} : run'[q] = run[q]

LEMMA CheckSet ==
  ASSUME Typed, NEW r \in Runs, NEW R \in CheckType, run' = [run EXCEPT ![r] = R]
  PROVE  Sets(r, R)
BY DEF Sets, Typed, TypeOK

(* Where a check goes, what it remembers and what it shows.                  *)
RunIs(r, l, u, a) ==
  /\ run' \in [Runs -> CheckType]
  /\ run'[r].pc = l /\ run'[r].result = u /\ run'[r].shown = a
  /\ run'[r].text = run[r].text /\ run'[r].checked = run[r].checked
  /\ \A q \in Runs \ {r} : run'[q] = run[q]

LEMMA GotoIs ==
  ASSUME Typed, NEW r \in Runs, NEW l \in Pcs, Goto(r, l)
  PROVE  RunIs(r, l, run[r].result, run[r].shown)
<1> DEFINE R == [run[r] EXCEPT !.pc = l]
<1>1. run[r] \in CheckType
  BY DEF Typed, TypeOK
<1>2. /\ R \in CheckType /\ R.pc = l /\ R.result = run[r].result /\ R.shown = run[r].shown
      /\ R.text = run[r].text /\ R.checked = run[r].checked
  BY <1>1 DEF CheckType, Pcs
<1>3. run' = [run EXCEPT ![r] = R]
  BY DEF Goto
<1> HIDE DEF R
<1> QED
  BY <1>2, <1>3, CheckSet DEF Sets, RunIs

LEMMA FinishIs ==
  ASSUME Typed, NEW r \in Runs, NEW a \in {"none", "pass", "fail", "error"},
         run' = [run EXCEPT ![r] = [@ EXCEPT !.pc = "done", !.result = "none",
                                             !.shown = a, !.open = FALSE]]
  PROVE  RunIs(r, "done", "none", a)
<1> DEFINE R == [run[r] EXCEPT !.pc = "done", !.result = "none",
                                             !.shown = a, !.open = FALSE]
<1>1. run[r] \in CheckType
  BY DEF Typed, TypeOK
<1>2. /\ R \in CheckType /\ R.pc = "done" /\ R.result = "none" /\ R.shown = a
      /\ R.text = run[r].text /\ R.checked = run[r].checked
  BY <1>1 DEF CheckType
<1>3. run' = [run EXCEPT ![r] = R]
  OBVIOUS
<1> HIDE DEF R
<1> QED
  BY <1>2, <1>3, CheckSet DEF Sets, RunIs

LEMMA ReportIs ==
  ASSUME Typed, NEW r \in Runs,
         run' = [run EXCEPT ![r] = [@ EXCEPT !.pc = "dialog", !.open = FALSE]]
  PROVE  RunIs(r, "dialog", run[r].result, run[r].shown)
<1> DEFINE R == [run[r] EXCEPT !.pc = "dialog", !.open = FALSE]
<1>1. run[r] \in CheckType
  BY DEF Typed, TypeOK
<1>2. /\ R \in CheckType /\ R.pc = "dialog" /\ R.result = run[r].result /\ R.shown = run[r].shown
      /\ R.text = run[r].text /\ R.checked = run[r].checked
  BY <1>1 DEF CheckType
<1>3. run' = [run EXCEPT ![r] = R]
  OBVIOUS
<1> HIDE DEF R
<1> QED
  BY <1>2, <1>3, CheckSet DEF Sets, RunIs

LEMMA ViewsIs ==
  ASSUME Typed, NEW r \in Runs, NEW a \in {"none", "pass", "fail", "error"},
         run' = [run EXCEPT ![r] = [@ EXCEPT !.pc = "views", !.result = a]]
  PROVE  RunIs(r, "views", a, run[r].shown)
<1> DEFINE R == [run[r] EXCEPT !.pc = "views", !.result = a]
<1>1. run[r] \in CheckType
  BY DEF Typed, TypeOK
<1>2. /\ R \in CheckType /\ R.pc = "views" /\ R.result = a /\ R.shown = run[r].shown
      /\ R.text = run[r].text /\ R.checked = run[r].checked
  BY <1>1 DEF CheckType
<1>3. run' = [run EXCEPT ![r] = R]
  OBVIOUS
<1> HIDE DEF R
<1> QED
  BY <1>2, <1>3, CheckSet DEF Sets, RunIs

LEMMA CancelIs ==
  ASSUME Typed, NEW r \in Runs,
         run' = [run EXCEPT ![r] = [@ EXCEPT !.pc = "done", !.result = "none",
                                             !.shown = "cancelled",
                                             !.cancelled = TRUE, !.open = FALSE]]
  PROVE  RunIs(r, "done", "none", "cancelled")
<1> DEFINE R == [run[r] EXCEPT !.pc = "done", !.result = "none",
                                             !.shown = "cancelled",
                                             !.cancelled = TRUE, !.open = FALSE]
<1>1. run[r] \in CheckType
  BY DEF Typed, TypeOK
<1>2. /\ R \in CheckType /\ R.pc = "done" /\ R.result = "none" /\ R.shown = "cancelled"
      /\ R.text = run[r].text /\ R.checked = run[r].checked
  BY <1>1 DEF CheckType
<1>3. run' = [run EXCEPT ![r] = R]
  OBVIOUS
<1> HIDE DEF R
<1> QED
  BY <1>2, <1>3, CheckSet DEF Sets, RunIs

LEMMA GiveUpIs ==
  ASSUME Typed, NEW r \in Runs,
         run' = [run EXCEPT ![r] = [@ EXCEPT !.cancelled = TRUE, !.open = FALSE]]
  PROVE  RunIs(r, run[r].pc, run[r].result, run[r].shown)
<1> DEFINE R == [run[r] EXCEPT !.cancelled = TRUE, !.open = FALSE]
<1>1. run[r] \in CheckType
  BY DEF Typed, TypeOK
<1>2. /\ R \in CheckType /\ R.pc = run[r].pc /\ R.result = run[r].result /\ R.shown = run[r].shown
      /\ R.text = run[r].text /\ R.checked = run[r].checked
  BY <1>1 DEF CheckType
<1>3. run' = [run EXCEPT ![r] = R]
  OBVIOUS
<1> HIDE DEF R
<1> QED
  BY <1>2, <1>3, CheckSet DEF Sets, RunIs

(* What a check does next when it has its answer.                            *)
Advances(r) ==
  \/ /\ run[r].pc = "load" /\ reply[r] = "ok" /\ Send(r, "check", None)
     /\ RunIs(r, "check", run[r].result, run[r].shown)
  \/ /\ run[r].pc = "check" /\ reply[r] \in {"pass", "fail", "error"} /\ Send(r, "views", None)
     /\ RunIs(r, "views", reply[r], run[r].shown)
  \/ /\ run[r].pc = "views" /\ reply[r] = "ok" /\ Send(r, "toggles", None)
     /\ RunIs(r, "toggles", run[r].result, run[r].shown)
Ends(r) ==
  \/ /\ run[r].pc = "check" /\ reply[r] \in {"pass", "fail", "error"}
     /\ RunIs(r, "done", "none", reply[r])
  \/ /\ run[r].pc \in {"views", "toggles"}
     /\ RunIs(r, "done", "none", run[r].result)
Reports(r) ==
  run[r].pc \in {"load", "views"} /\ RunIs(r, "dialog", run[r].result, run[r].shown)

GoesOn(r) ==
  /\ reply[r] # "none" /\ reply' = [reply EXCEPT ![r] = "none"]
  /\ \/ Advances(r)
     \/ (Ends(r) \/ Reports(r)) /\ queue' = queue

LEMMA GoesOnRun ==
  ASSUME Typed, NEW r \in Runs, RunStep(r)
  PROVE  GoesOn(r)
<1>1. run[r] \in CheckType /\ run[r].result \in {"none", "pass", "fail", "error"}
  BY DEF Typed, TypeOK, CheckType
<1>2. ASSUME NEW a \in {"pass", "fail", "error"}, Finish(r, a)
      PROVE  RunIs(r, "done", "none", a)
  BY <1>2, FinishIs DEF Finish
<1>3. ASSUME Finish(r, run[r].result)
      PROVE  RunIs(r, "done", "none", run[r].result)
  BY <1>1, <1>3, FinishIs DEF Finish
<1>4. ASSUME Report(r), run[r].pc \in {"load", "views"} PROVE GoesOn(r)
  BY <1>4, ReportIs DEF Report, Receive, GoesOn, Reports
<1>5. CASE AfterLoad(r)
  <2>1. CASE Receive(r, "ok") /\ Goto(r, "check") /\ Send(r, "check", None)
    <3>1. run[r].pc = "load" /\ reply[r] = "ok" /\ reply' = [reply EXCEPT ![r] = "none"]
      BY <1>5, <2>1 DEF AfterLoad, Receive
    <3>2. RunIs(r, "check", run[r].result, run[r].shown)
      BY <2>1, GotoIs DEF Pcs
    <3>3. Advances(r)
      BY <2>1, <3>1, <3>2 DEF Advances
    <3> QED
      BY <3>1, <3>3 DEF GoesOn
  <2> QED
    BY <1>4, <1>5, <2>1 DEF AfterLoad
<1>6. CASE AfterCheck(r)
  <2>1. PICK a \in {"pass", "fail", "error"} :
          /\ Receive(r, a)
          /\ \/ Finish(r, a) /\ UNCHANGED queue
             \/ /\ run' = [run EXCEPT ![r] = [@ EXCEPT !.pc = "views", !.result = a]]
                /\ Send(r, "views", None)
    BY <1>6 DEF AfterCheck
  <2>2. /\ run[r].pc = "check" /\ reply[r] = a /\ reply[r] # "none"
        /\ reply' = [reply EXCEPT ![r] = "none"]
    BY <1>6, <2>1 DEF AfterCheck, Receive
  <2>3. CASE Finish(r, a) /\ UNCHANGED queue
    BY <1>2, <2>2, <2>3 DEF GoesOn, Ends
  <2>4. CASE /\ run' = [run EXCEPT ![r] = [@ EXCEPT !.pc = "views", !.result = a]]
             /\ Send(r, "views", None)
    <3>1. RunIs(r, "views", a, run[r].shown)
      BY <2>4, ViewsIs
    <3>2. Advances(r)
      BY <2>2, <2>4, <3>1 DEF Advances
    <3> QED
      BY <2>2, <3>2 DEF GoesOn
  <2> QED
    BY <2>1, <2>3, <2>4
<1>7. CASE AfterViews(r)
  <2>1. CASE Receive(r, "ok") /\ Goto(r, "toggles") /\ Send(r, "toggles", None)
    <3>1. run[r].pc = "views" /\ reply[r] = "ok" /\ reply' = [reply EXCEPT ![r] = "none"]
      BY <1>7, <2>1 DEF AfterViews, Receive
    <3>2. RunIs(r, "toggles", run[r].result, run[r].shown)
      BY <2>1, GotoIs DEF Pcs
    <3>3. Advances(r)
      BY <2>1, <3>1, <3>2 DEF Advances
    <3> QED
      BY <3>1, <3>3 DEF GoesOn
  <2>2. CASE Receive(r, "ok") /\ Finish(r, run[r].result) /\ UNCHANGED queue
    BY <1>3, <1>7, <2>2 DEF AfterViews, Receive, GoesOn, Ends
  <2> QED
    BY <1>4, <1>7, <2>1, <2>2 DEF AfterViews
<1>8. CASE AfterToggles(r)
  BY <1>3, <1>8 DEF AfterToggles, Receive, GoesOn, Ends
<1> QED
  BY <1>5, <1>6, <1>7, <1>8 DEF RunStep

LEMMA RunKeepsTyped == ASSUME Typed, OverlayInv', NEW r \in Runs, RunStep(r) PROVE Typed'
<1>1. UNCHANGED <<editor, wanted, weak, str, edits, inOrder, session>>
  BY DEF RunStep
<1>2. GoesOn(r)
  BY GoesOnRun
<1>3. \A i \in DOMAIN queue : queue[i].from # r
  BY <1>2, NoneQueued DEF GoesOn, Ops
<1>4. run' \in [Runs -> CheckType] /\ \A q \in Runs \ {r} : run'[q] = run[q]
  BY <1>2 DEF GoesOn, Advances, Ends, Reports, RunIs
<1>5. reply \in [Ops -> Answers] /\ r \in Ops /\ r # "weaken" /\ r # "strengthen"
  BY RunsAssumption DEF Typed, TypeOK, Answers, Ops
<1>6. /\ reply' \in [Ops -> Answers] /\ reply'[r] = "none"
      /\ \A p \in Ops \ {r} : reply'[p] = reply[p]
  BY <1>2, <1>5 DEF GoesOn, Answers
<1>7. Asks(r)
  <2>1. ASSUME NEW k \in CheckPcs \ {"load"}, run'[r].pc = k, Send(r, k, None) PROVE Asks(r)
    <3> DEFINE q == [from |-> r, kind |-> k, text |-> None]
    <3>1. q \in RequestType
      BY <1>5, <2>1 DEF RequestType, CheckPcs
    <3>2. Fits(q)'
      BY <1>5, <1>6, <2>1, NoneAssumption DEF Fits
    <3> QED
      BY <2>1, <3>1, <3>2 DEF Asks, Send
  <2>2. CASE queue' = queue
    BY <2>2 DEF Asks
  <2> QED
    BY <1>2, <2>1, <2>2 DEF GoesOn, Advances, RunIs, CheckPcs
<1>8. Requests' /\ queue' \in Seq(RequestType)
  BY <1>1, <1>3, <1>4, <1>5, <1>6, <1>7, MovedRequests
<1>9. depth' \in Nat /\ active' \in Runs \cup {None}
  BY DEF OverlayInv
<1> QED
  BY <1>1, <1>4, <1>6, <1>8, <1>9 DEF Typed, TypeOK, SmallPart, Answers

LEMMA StartKeepsTyped == ASSUME Typed, OverlayInv', NEW r \in Runs, StartCheck(r) PROVE Typed'
<1>1. UNCHANGED <<editor, wanted, weak, str, edits, inOrder, reply, session>>
  BY DEF StartCheck
<1> DEFINE R == [run[r] EXCEPT !.pc = "load", !.text = editor, !.open = TRUE,
                               !.wanted = wanted]
<1>2. run' = [run EXCEPT ![r] = R] /\ run[r].pc = "idle" /\ Send(r, "load", editor)
  BY DEF StartCheck
<1>3. run[r] \in CheckType /\ editor \in Texts /\ wanted \in SUBSET Conjs
  BY DEF Typed, TypeOK
<1>4. R \in CheckType /\ R.pc = "load" /\ R.text = editor
  BY <1>3 DEF CheckType
<1> HIDE DEF R
<1>5. Sets(r, R)
  BY <1>2, <1>4, CheckSet
<1>6. r \in Ops /\ r # "weaken" /\ r # "strengthen" /\ r # None
  BY RunsAssumption, NoneAssumption DEF Ops
<1>7. reply[r] = "none" /\ \A i \in DOMAIN queue : queue[i].from # r
  BY <1>2, <1>6, NoneQueued DEF Typed, Requests, CheckPcs
<1>8. Asks(r)
  <2>1. PICK q : q = [from |-> r, kind |-> "load", text |-> editor]
    OBVIOUS
  <2>2. q \in RequestType
    BY <1>3, <1>6, <2>1 DEF RequestType
  <2>3. Fits(q)'
    BY <1>1, <1>3, <1>4, <1>5, <1>6, <1>7, <2>1 DEF Fits, Sets, CheckPcs
  <2>4. queue' = Append(queue, q) /\ q.from = r
    BY <1>2, <2>1 DEF Send
  <2> QED
    BY <2>2, <2>3, <2>4 DEF Asks
<1>9. Requests' /\ queue' \in Seq(RequestType)
  BY <1>1, <1>5, <1>6, <1>7, <1>8, MovedRequests DEF Sets
<1>10. depth' \in Nat /\ active' \in Runs \cup {None}
  BY DEF OverlayInv
<1> QED
  BY <1>1, <1>5, <1>9, <1>10 DEF Typed, TypeOK, SmallPart, Sets

LEMMA CloseKeepsTyped ==
  ASSUME Typed, OverlayInv', NEW r \in Runs, CloseReport(r),
         UNCHANGED <<editor, wanted, weak, str, edits, inOrder, session>>
  PROVE  Typed'
<1>1. /\ RunIs(r, "done", "none", "error") /\ run[r].pc = "dialog"
      /\ UNCHANGED <<queue, reply>>
  BY FinishIs DEF CloseReport, Finish
<1>2. r \in Ops /\ r # "weaken" /\ r # "strengthen"
  BY RunsAssumption DEF Ops
<1>3. reply[r] = "none" /\ \A i \in DOMAIN queue : queue[i].from # r
  BY <1>1, <1>2, NoneQueued DEF Typed, Requests, CheckPcs
<1>4. Requests' /\ queue' \in Seq(RequestType)
  BY <1>1, <1>2, <1>3, MovedRequests DEF RunIs, Asks
<1>5. depth' \in Nat /\ active' \in Runs \cup {None}
  BY DEF OverlayInv
<1> QED
  BY <1>1, <1>4, <1>5 DEF Typed, TypeOK, SmallPart, RunIs

(* What is still on its way for a check that is cancelled has no sender now. *)
LEMMA CancelRequests ==
  ASSUME Typed, NEW r \in Runs, run[r].pc \in {"load", "check", "views"},
         queue' = [i \in DOMAIN queue |->
                    [queue[i] EXCEPT !.from = IF @ = r THEN None ELSE @]],
         reply' = [reply EXCEPT ![r] = "none"],
         \A q \in Runs \ {r} : run'[q] = run[q], UNCHANGED <<weak, str>>
  PROVE  Requests' /\ queue' \in Seq(RequestType) /\ reply' \in [Ops -> Answers]
<1>1. queue \in Seq(RequestType) /\ reply \in [Ops -> Answers] /\ r \in Ops
  BY DEF Typed, TypeOK, Answers, Ops
<1>2. /\ DOMAIN queue' = DOMAIN queue /\ queue' \in Seq(RequestType)
      /\ \A i \in DOMAIN queue :
           /\ queue'[i] \in RequestType
           /\ queue'[i].from = IF queue[i].from = r THEN None ELSE queue[i].from
           /\ queue'[i].kind = queue[i].kind /\ queue'[i].text = queue[i].text
  <2>1. \A q \in RequestType : LET p == [q EXCEPT !.from = IF @ = r THEN None ELSE @]
                               IN /\ p \in RequestType /\ p.kind = q.kind /\ p.text = q.text
                                  /\ p.from = IF q.from = r THEN None ELSE q.from
    BY DEF RequestType
  <2>2. DOMAIN queue = 1..Len(queue) /\ Len(queue) \in Nat
    BY <1>1
  <2>3. \A i \in DOMAIN queue : queue[i] \in RequestType
    BY <1>1
  <2>4. \A i \in DOMAIN queue :
          queue'[i] = [queue[i] EXCEPT !.from = IF @ = r THEN None ELSE @]
    OBVIOUS
  <2>5. \A i \in DOMAIN queue :
          /\ queue'[i] \in RequestType
          /\ queue'[i].from = IF queue[i].from = r THEN None ELSE queue[i].from
          /\ queue'[i].kind = queue[i].kind /\ queue'[i].text = queue[i].text
    BY <2>1, <2>3, <2>4
  <2>6. DOMAIN queue' = DOMAIN queue /\ queue' = [i \in 1..Len(queue) |-> queue'[i]]
    BY <2>2
  <2>7. queue' \in Seq(RequestType)
    <3> DEFINE n == Len(queue)
    <3>1. n \in Nat /\ queue' \in [1..n -> RequestType]
      BY <2>2, <2>5, <2>6
    <3> HIDE DEF n
    <3> QED
      BY <3>1, SeqDef
  <2> QED
    BY <2>5, <2>6, <2>7
<1>3. reply' \in [Ops -> Answers] /\ \A o \in Ops : reply'[o] = IF o = r THEN "none" ELSE reply[o]
  BY <1>1 DEF Answers
<1>4. ASSUME NEW q \in RequestType, NEW p \in RequestType, Fits(q),
             p.kind = q.kind, p.text = q.text,
             p.from = IF q.from = r THEN None ELSE q.from
      PROVE  Fits(p)'
  <2>1. CASE q.from = r
    BY <1>4, <2>1, NoneAssumption, RunsAssumption DEF Fits
  <2>2. CASE q.from # r
    BY <1>3, <1>4, <2>2 DEF Fits, RequestType
  <2> QED
    BY <2>1, <2>2
<1>5. \A i \in DOMAIN queue : queue[i] \in RequestType /\ Fits(queue[i])
  BY QueueEntry
<1>6. \A i \in DOMAIN queue' : Fits(queue[i])'
  <2>1. \A i \in DOMAIN queue' : i \in DOMAIN queue /\ queue'[i] \in RequestType
    BY <1>2
  <2> QED
    BY <1>2, <1>4, <1>5, <2>1
<1>7. ASSUME NEW i \in DOMAIN queue', NEW j \in DOMAIN queue',
             queue'[i].from = queue'[j].from, queue'[i].from # None
      PROVE  i = j
  <2>1. i \in DOMAIN queue /\ j \in DOMAIN queue
    BY <1>2
  <2>2. /\ queue'[i].from = IF queue[i].from = r THEN None ELSE queue[i].from
        /\ queue'[j].from = IF queue[j].from = r THEN None ELSE queue[j].from
    BY <1>2, <2>1
  <2>3. queue[i].from = queue[j].from /\ queue[i].from # None
    BY <1>7, <2>2, NoneAssumption
  <2> QED
    BY <2>1, <2>3 DEF Typed, Requests
<1>8. /\ \A q \in Runs : reply'[q] # "none" => run'[q].pc \in CheckPcs
      /\ reply'["weaken"] # "none" => weak'.pc \in {"listing", "removing"}
      /\ reply'["strengthen"] # "none" => str'.pc = "adding"
  BY <1>3 DEF Typed, Requests, Ops
<1> QED
  BY <1>2, <1>3, <1>6, <1>7, <1>8 DEF Requests

LEMMA CancelKeepsTyped == ASSUME Typed, OverlayInv', Cancel PROVE Typed'
<1> DEFINE r == active
<1>1. r \in Runs /\ UNCHANGED <<editor, wanted, weak, str, edits, inOrder, session>>
  BY DEF Cancel, Typed, TypeOK
<1>2. depth' \in Nat /\ active' \in Runs \cup {None}
  BY DEF OverlayInv
<1>3. CASE run[r].pc \in {"load", "check", "views"}
  <2>1. /\ run' = [run EXCEPT ![r] = [@ EXCEPT !.pc = "done", !.result = "none",
                                                 !.shown = "cancelled",
                                                 !.cancelled = TRUE, !.open = FALSE]]
        /\ queue' = [i \in DOMAIN queue |->
                      [queue[i] EXCEPT !.from = IF @ = r THEN None ELSE @]]
        /\ reply' = [reply EXCEPT ![r] = "none"]
    BY <1>3 DEF Cancel
  <2>2. RunIs(r, "done", "none", "cancelled")
    BY <1>1, <2>1, CancelIs
  <2>3. Requests' /\ queue' \in Seq(RequestType) /\ reply' \in [Ops -> Answers]
    BY <1>1, <1>3, <2>1, <2>2, CancelRequests DEF RunIs
  <2> QED
    BY <1>1, <1>2, <2>2, <2>3 DEF Typed, TypeOK, SmallPart, RunIs, Answers
<1>4. CASE run[r].pc = "toggles"
  <2>1. /\ run' = [run EXCEPT ![r] = [@ EXCEPT !.cancelled = TRUE, !.open = FALSE]]
        /\ UNCHANGED <<queue, reply>>
    BY <1>4 DEF Cancel
  <2>2. RunIs(r, run[r].pc, run[r].result, run[r].shown)
    BY <1>1, <2>1, GiveUpIs
  <2>3. /\ run' \in [Runs -> CheckType]
        /\ \A q \in Runs : run'[q].pc = run[q].pc /\ run'[q].text = run[q].text
    BY <2>2 DEF RunIs
  <2>4. Requests'
    BY <1>1, <2>1, <2>3 DEF Typed, Requests, Fits
  <2> QED
    BY <1>1, <1>2, <2>1, <2>3, <2>4 DEF Typed, TypeOK, SmallPart
<1> QED
  BY <1>3, <1>4 DEF Cancel

-----------------------------------------------------------------------------
(* Edits of the text and of the invariant.                                   *)
LEMMA EditCounted == ASSUME Typed, Edit PROVE edits' \in 0..MaxEdits
BY EditsAssumption DEF Typed, TypeOK, Edit

LEMMA TextKeepsTyped ==
  ASSUME Typed, OverlayInv', NEW t \in Texts, EditText(t)
  PROVE  Typed'
<1>1. /\ editor' = t /\ wanted' = ToSet(Invariants[t]) /\ edits' \in 0..MaxEdits
      /\ UNCHANGED <<active, run, depth, weak, str, inOrder, queue, reply, session>>
  BY EditCounted DEF EditText
<1>2. wanted' \subseteq Conjs
  BY <1>1, TextTyped
<1>3. Requests'
  BY <1>1 DEF Typed, Requests, Fits
<1> QED
  BY <1>1, <1>2, <1>3 DEF Typed, TypeOK, SmallPart

LEMMA WeakenKeepsTyped ==
  ASSUME Typed, OverlayInv',
         \/ StartWeaken \/ AfterList \/ AfterWeaken
         \/ \E I \in SUBSET (DOMAIN weak.list) : Choose(I)
  PROVE  Typed'
<1>1. UNCHANGED <<editor, active, run, depth, str, inOrder, session>>
  BY DEF StartWeaken, AfterList, AfterWeaken, Choose
<1>2. weak \in WeakenType /\ NoWeaken \in WeakenType /\ weak.list \in Seq(Conjs)
  BY DEF Typed, TypeOK, WeakenType, NoWeaken
<1>3. "weaken" \in Ops /\ "weaken" # "strengthen" /\ "weaken" \notin Runs /\ "weaken" # None
  BY RunsAssumption, NoneAssumption DEF Ops
<1>4. reply \in [Ops -> Answers]
  BY DEF Typed, TypeOK, Answers
<1>5. \A l \in {"listing", "dialog", "removing"} :
        LET w == [weak EXCEPT !.pc = l]
        IN w \in WeakenType /\ w.pc = l /\ w.list = weak.list /\ w.chosen = weak.chosen
  BY <1>2 DEF WeakenType
<1>6. ASSUME NEW k \in {"list", "weaken"}, Send("weaken", k, None), reply' = reply,
             weak'.pc = IF k = "list" THEN "listing" ELSE "removing",
             weak.pc \notin {"listing", "removing"}
      PROVE  Requests' /\ queue' \in Seq(RequestType)
  <2>1. reply["weaken"] = "none" /\ \A i \in DOMAIN queue : queue[i].from # "weaken"
    BY <1>3, <1>6, NoneQueued DEF Typed, Requests
  <2>2. PICK q : q = [from |-> "weaken", kind |-> k, text |-> None]
    OBVIOUS
  <2>3. q \in RequestType /\ queue' = Append(queue, q) /\ q.from = "weaken"
    BY <1>3, <1>6, <2>2 DEF RequestType, Send
  <2>4. Fits(q)'
    BY <1>3, <1>6, <2>1, <2>2 DEF Fits
  <2>5. Asks("weaken")
    BY <2>3, <2>4 DEF Asks
  <2> QED
    BY <1>1, <1>3, <1>6, <2>1, <2>5, MovedRequests
<1>7. ASSUME NEW a \in Answers \ {"none"}, Receive("weaken", a), queue' = queue
      PROVE  Requests' /\ queue' \in Seq(RequestType) /\ reply' \in [Ops -> Answers]
  <2>1. /\ reply' \in [Ops -> Answers] /\ reply'["weaken"] = "none"
        /\ \A p \in Ops \ {"weaken"} : reply'[p] = reply[p]
    BY <1>3, <1>4, <1>7 DEF Receive, Answers
  <2>2. \A i \in DOMAIN queue : queue[i].from # "weaken"
    BY <1>3, <1>7, NoneQueued DEF Receive
  <2> QED
    BY <1>1, <1>3, <1>7, <2>1, <2>2, MovedRequests DEF Asks
<1>8. CASE StartWeaken
  <2>1. /\ weak.pc = "idle" /\ weak' = [NoWeaken EXCEPT !.pc = "listing"]
        /\ Send("weaken", "list", None) /\ reply' = reply /\ wanted' = wanted
        /\ edits' \in 0..MaxEdits
    BY <1>8, EditCounted DEF StartWeaken
  <2>2. weak' \in WeakenType /\ weak'.pc = "listing" /\ weak'.chosen = {} /\ weak'.list = << >>
    BY <1>2, <2>1 DEF WeakenType, NoWeaken
  <2>3. Requests' /\ queue' \in Seq(RequestType)
    BY <1>6, <2>1, <2>2
  <2> QED
    BY <1>1, <2>1, <2>2, <2>3 DEF Typed, TypeOK, SmallPart
<1>9. CASE AfterList
  <2>1. /\ weak.pc = "listing" /\ Receive("weaken", "ok") /\ weak' = [weak EXCEPT !.pc = "dialog"]
        /\ UNCHANGED <<wanted, edits, queue>>
    BY <1>9 DEF AfterList
  <2>2. weak' \in WeakenType /\ weak'.pc = "dialog" /\ weak'.chosen = {} /\ weak'.list = weak.list
    BY <1>5, <2>1 DEF Typed, SmallPart
  <2>3. Requests' /\ queue' \in Seq(RequestType) /\ reply' \in [Ops -> Answers]
    BY <1>7, <2>1 DEF Answers
  <2> QED
    BY <1>1, <2>1, <2>2, <2>3 DEF Typed, TypeOK, SmallPart, Answers
<1>10. CASE AfterWeaken
  <2>1. /\ \E a \in {"ok", "error"} : Receive("weaken", a)
        /\ weak' = NoWeaken /\ wanted' \subseteq wanted /\ UNCHANGED <<edits, queue>>
    BY <1>10 DEF AfterWeaken
  <2>2. weak' \in WeakenType /\ weak'.pc = "idle" /\ weak'.chosen = {}
    BY <1>2, <2>1 DEF NoWeaken
  <2>3. Requests' /\ queue' \in Seq(RequestType) /\ reply' \in [Ops -> Answers]
    BY <1>7, <2>1 DEF Answers
  <2> QED
    BY <1>1, <2>1, <2>2, <2>3 DEF Typed, TypeOK, SmallPart, Answers
<1>11. ASSUME NEW I \in SUBSET (DOMAIN weak.list), Choose(I) PROVE Typed'
  <2>1. weak.pc = "dialog" /\ UNCHANGED <<wanted, edits, reply>>
    BY <1>11 DEF Choose
  <2>2. CASE weak' = NoWeaken /\ UNCHANGED queue
    <3>1. weak' \in WeakenType /\ weak'.pc = "idle" /\ weak'.chosen = {}
      BY <1>2, <2>2 DEF NoWeaken
    <3>2. reply["weaken"] = "none" /\ \A i \in DOMAIN queue : queue[i].from # "weaken"
      BY <1>3, <2>1, NoneQueued DEF Typed, Requests
    <3>3. Requests' /\ queue' \in Seq(RequestType)
      BY <1>1, <1>3, <2>1, <2>2, <3>2, MovedRequests DEF Asks
    <3> QED
      BY <1>1, <2>1, <3>1, <3>3 DEF Typed, TypeOK, SmallPart
  <2>3. CASE /\ weak' = [weak EXCEPT !.pc = "removing", !.chosen = I]
             /\ Send("weaken", "weaken", None)
    <3>1. I \in SUBSET Nat
      BY <1>2
    <3>2. /\ weak' \in WeakenType /\ weak'.pc = "removing" /\ weak'.chosen = I
          /\ weak'.list = weak.list
      BY <1>2, <2>3, <3>1 DEF WeakenType
    <3>3. Requests' /\ queue' \in Seq(RequestType)
      BY <1>6, <2>1, <2>3, <3>2
    <3> QED
      BY <1>1, <1>11, <2>1, <3>2, <3>3 DEF Typed, TypeOK, SmallPart
  <2> QED
    BY <1>11, <2>2, <2>3 DEF Choose
<1> QED
  BY <1>8, <1>9, <1>10, <1>11

LEMMA StrengthenKeepsTyped ==
  ASSUME Typed, OverlayInv',
         (\E c \in Selectable : StartStrengthen(c)) \/ AfterStrengthen \/ CloseStrengthen
  PROVE  Typed'
<1>1. /\ UNCHANGED <<editor, active, run, weak, inOrder, session>>
      /\ depth' \in Nat
  BY DEF StartStrengthen, AfterStrengthen, CloseStrengthen, OverlayInv
<1>2. "strengthen" \in Ops /\ "strengthen" \notin Runs /\ "strengthen" # None
  BY RunsAssumption, NoneAssumption DEF Ops
<1>3. reply \in [Ops -> Answers]
  BY DEF Typed, TypeOK, Answers
<1>4. ASSUME NEW c \in Selectable, StartStrengthen(c) PROVE Typed'
  <2>1. /\ str' = [pc |-> "adding", conj |-> c] /\ Send("strengthen", "strengthen", None)
        /\ UNCHANGED <<wanted, reply>> /\ edits' \in 0..MaxEdits /\ depth = 0
    BY <1>4, EditCounted DEF StartStrengthen, Free
  <2>2. c \in Conjs
    BY TextAssumption
  <2>3. str.pc # "adding"
    BY <2>1 DEF Typed, OverlayInv
  <2>4. reply["strengthen"] = "none" /\ \A i \in DOMAIN queue : queue[i].from # "strengthen"
    BY <1>2, <2>3, NoneQueued DEF Typed, Requests
  <2>5. PICK q : q = [from |-> "strengthen", kind |-> "strengthen", text |-> None]
    OBVIOUS
  <2>6. q \in RequestType /\ queue' = Append(queue, q) /\ q.from = "strengthen"
    BY <1>2, <2>1, <2>5 DEF RequestType, Send
  <2>7. Fits(q)'
    BY <1>2, <2>1, <2>4, <2>5 DEF Fits
  <2>8. Requests' /\ queue' \in Seq(RequestType)
    BY <1>1, <1>2, <2>1, <2>4, <2>6, <2>7, MovedRequests DEF Asks
  <2> QED
    BY <1>1, <2>1, <2>2, <2>8 DEF Typed, TypeOK, SmallPart
<1>5. CASE AfterStrengthen
  <2>1. /\ str.pc = "adding" /\ UNCHANGED <<edits, queue>>
        /\ str' \in [pc : {"idle", "dialog"}, conj : {None}]
        /\ \E a \in {"ok", "error"} : Receive("strengthen", a)
        /\ wanted' \subseteq wanted \cup {str.conj}
    BY <1>5 DEF AfterStrengthen, NoStrengthen
  <2>2. wanted' \subseteq Conjs
    BY <2>1 DEF Typed, TypeOK, SmallPart
  <2>3. /\ reply' \in [Ops -> Answers] /\ reply'["strengthen"] = "none"
        /\ reply["strengthen"] # "none"
        /\ \A p \in Ops \ {"strengthen"} : reply'[p] = reply[p]
    BY <1>2, <1>3, <2>1 DEF Receive, Answers
  <2>4. \A i \in DOMAIN queue : queue[i].from # "strengthen"
    BY <1>2, <2>3, NoneQueued
  <2>5. Requests' /\ queue' \in Seq(RequestType)
    BY <1>1, <1>2, <2>1, <2>3, <2>4, MovedRequests DEF Asks
  <2> QED
    BY <1>1, <2>1, <2>2, <2>3, <2>5 DEF Typed, TypeOK, SmallPart, Answers
<1>6. CASE CloseStrengthen
  <2>1. /\ str.pc # "adding" /\ str' \in [pc : {"idle"}, conj : {None}]
        /\ UNCHANGED <<wanted, edits, queue, reply>>
    BY <1>6 DEF CloseStrengthen, NoStrengthen
  <2>2. Requests' /\ SmallPart'
    BY <1>1, <2>1 DEF Typed, Requests, Fits, SmallPart
  <2> QED
    BY <1>1, <2>1, <2>2 DEF Typed, TypeOK
<1> QED
  BY <1>4, <1>5, <1>6

LEMMA TypedInit == Init => Typed
<1> SUFFICES ASSUME Init PROVE Typed
  OBVIOUS
<1>1. OverlayInv
  BY OverlayInit
<1>2. \A r \in Runs : run[r] \in CheckType
  BY DEF Init, CheckType
<1>3. run \in [Runs -> CheckType]
  BY <1>2 DEF Init
<1>4. weak \in WeakenType /\ weak.chosen \subseteq DOMAIN weak.list
  BY DEF Init, NoWeaken, WeakenType
<1>5. session \in SessionType /\ wanted \subseteq Conjs
  BY TextTyped DEF Init
<1>6. queue \in Seq(RequestType)
  BY DEF Init
<1>7. TypeOK
  <2>1. str \in [pc : {"idle", "adding", "dialog"}, conj : Conjs \cup {None}]
    BY DEF Init, NoStrengthen
  <2>2. reply \in [Ops -> {"none", "ok", "pass", "fail", "error"}]
    BY DEF Init
  <2>3. editor \in Texts /\ active = None /\ depth = 0 /\ edits = 0 /\ inOrder \in BOOLEAN
    BY DEF Init
  <2> QED
    BY <1>3, <1>4, <1>5, <1>6, <2>1, <2>2, <2>3, EditsAssumption DEF TypeOK
<1>8. Requests
  BY DEF Init, Requests, Ops
<1>9. SmallPart
  BY DEF Init, SmallPart, NoWeaken, NoStrengthen
<1> QED
  BY <1>1, <1>7, <1>8, <1>9 DEF Typed

LEMMA TypedNext == Typed /\ [Next]_vars => Typed'
<1> SUFFICES ASSUME Typed, [Next]_vars PROVE Typed'
  OBVIOUS
<1>1. OverlayInv'
  BY OverlayNext DEF Typed
<1>2. CASE UNCHANGED vars
  BY <1>2 DEF vars, page, Typed, TypeOK, Requests, SmallPart, Fits, OverlayInv, RunShape, Working
<1>3. CASE Serve \/ Lose \/ Cancel
  BY <1>1, <1>3, ServeKeepsTyped, LoseTyped, CancelKeepsTyped
<1>4. ASSUME NEW r \in Runs,
             \/ RunStep(r) \/ StartCheck(r)
             \/ /\ CloseReport(r)
                /\ UNCHANGED <<editor, wanted, weak, str, edits, inOrder, session>>
      PROVE  Typed'
  BY <1>1, <1>4, RunKeepsTyped, StartKeepsTyped, CloseKeepsTyped
<1>5. ASSUME NEW t \in Texts, EditText(t) PROVE Typed'
  BY <1>1, <1>5, TextKeepsTyped
<1>6. CASE \/ StartWeaken \/ AfterList \/ AfterWeaken
           \/ \E I \in SUBSET (DOMAIN weak.list) : Choose(I)
  BY <1>1, <1>6, WeakenKeepsTyped
<1>7. CASE (\E c \in Selectable : StartStrengthen(c)) \/ AfterStrengthen \/ CloseStrengthen
  BY <1>1, <1>7, StrengthenKeepsTyped
<1> QED
  BY <1>2, <1>3, <1>4, <1>5, <1>6, <1>7 DEF Next, Answered

(* Type correctness of the page, the requests and the session: among others  *)
(* the positions that a weakening gives are positions in the list that the   *)
(* dialog showed, and every entry of the queue is of a function of the page  *)
(* that waits for it (checkService.ts:841, webui_session.go:3664).            *)
THEOREM TypeCorrect == Spec => []TypeOK
<1>1. Typed => TypeOK
  BY DEF Typed
<1> QED
  BY <1>1, TypedInit, TypedNext, PTL DEF Spec

-----------------------------------------------------------------------------
(* The two lists of conjectures.                                             *)
LEMMA ListsInit == Init => ListsAligned
BY DEF Init, NoModel, Loaded, ListsAligned

LEMMA ListsNext == Typed /\ ListsAligned /\ [Next]_vars => ListsAligned'
<1> SUFFICES ASSUME Typed, ListsAligned, [Next]_vars PROVE ListsAligned'
  OBVIOUS
<1>1. session \in SessionType /\ session.labeled \in Seq(Conjs) /\ session.cti = session.labeled
  BY DEF Typed, TypeOK, SessionType, ListsAligned
<1>2. CASE UNCHANGED session
  BY <1>2 DEF ListsAligned
<1>3. ASSUME NEW q, Load(q) \/ Check(q) \/ Look(q) \/ List(q) \/ Weaken(q) \/ Strengthen(q)
      PROVE  ListsAligned'
  <2>1. CASE Load(q)
    BY <2>1 DEF Load, Loaded, NoModel, ListsAligned
  <2>2. CASE Check(q)
    <3>1. ASSUME NEW c, session' = [session EXCEPT !.haveCTI = TRUE, !.current = c]
          PROVE  ListsAligned'
      BY <1>1, <3>1 DEF ListsAligned, SessionType
    <3> QED
      BY <1>2, <2>2, <3>1 DEF Check, Verdict
  <2>3. CASE Weaken(q)
    <3>1. CASE session' = [session EXCEPT !.labeled = Kept(@, weak.chosen),
                                          !.cti = CutOut(@, weak.chosen),
                                          !.haveCTI = FALSE]
      <4>1. /\ session'.labeled = Kept(session.labeled, weak.chosen)
            /\ session'.cti = CutOut(session.labeled, weak.chosen)
        BY <1>1, <3>1 DEF SessionType
      <4> QED
        BY <1>1, <4>1, CutOutIsKept DEF ListsAligned
    <3> QED
      BY <1>2, <2>3, <3>1 DEF Weaken
  <2>4. CASE Strengthen(q)
    <3>1. CASE session' = [session EXCEPT !.labeled = Append(@, str.conj),
                                          !.cti = Append(@, str.conj),
                                          !.haveCTI = FALSE]
      BY <1>1, <3>1 DEF ListsAligned, SessionType
    <3> QED
      BY <1>2, <2>4, <3>1 DEF Strengthen
  <2> QED
    BY <1>2, <1>3, <2>1, <2>2, <2>3, <2>4 DEF Look, List
<1>4. CASE Serve
  BY <1>3, <1>4 DEF Serve
<1> QED
  BY <1>2, <1>4 DEF Next, Answered, RunStep, Lose, AfterList, AfterWeaken, AfterStrengthen,
                    StartCheck, Cancel, EditText, StartWeaken, Choose, StartStrengthen,
                    CloseStrengthen, vars

(* The loop of ExecuteAction, which copies the conjectures that stay, and    *)
(* the one of CTIUI, which cuts the others out from the last one on, leave   *)
(* the same list, so that the numbers in the dialog fit both                 *)
(* (webui_session.go:3686, webui_ui_cti.go:495).                             *)
THEOREM ListsStayAligned == Spec => []ListsAligned
BY TypedInit, TypedNext, ListsInit, ListsNext, PTL DEF Spec

-----------------------------------------------------------------------------
(* The list from which the user chooses what to remove.                      *)
(* The list in the dialog is still the beginning of the session's.           *)
Listed ==
  \/ weak.pc = "listing" /\ reply["weaken"] = "ok"
  \/ weak.pc = "dialog"
  \/ weak.pc = "removing" /\ reply["weaken"] = "none"

WeakPart ==
  /\ Listed /\ ~weak.reloaded => Begins(weak.list, session.labeled)
  /\ WeakenExact

LEMMA BeginsSame == ASSUME NEW S, NEW s \in Seq(S) PROVE Begins(s, s)
BY DEF Begins

LEMMA BeginsAppend ==
  ASSUME NEW S, NEW t \in Seq(S), NEW s \in Seq(S), NEW e \in S, Begins(t, s)
  PROVE  Begins(t, Append(s, e))
BY AppendProperties DEF Begins

LEMMA WeakInit == Init => WeakPart
BY DEF Init, WeakPart, WeakenExact, Listed, NoWeaken

LEMMA WeakFrame ==
  ASSUME Typed, WeakPart, UNCHANGED weak, UNCHANGED session, reply'["weaken"] = reply["weaken"]
  PROVE  WeakPart'
BY DEF WeakPart, WeakenExact, Listed

(* A request of somebody else leaves the answer of the weakening alone.      *)
LEMMA OthersAnswer ==
  ASSUME Typed, NEW o \in Ops, NEW q \in RequestType, q.from # o, NEW a \in Answers, Answer(q, a)
  PROVE  reply'[o] = reply[o]
BY DEF Answer, Typed, TypeOK, Answers

LEMMA WeakServe ==
  ASSUME Typed, ListsAligned, WeakPart, NEW q \in RequestType, Fits(q),
         Load(q) \/ Check(q) \/ Look(q) \/ List(q) \/ Weaken(q) \/ Strengthen(q)
  PROVE  WeakPart'
<1>1. /\ session \in SessionType /\ session.labeled \in Seq(Conjs)
      /\ weak \in WeakenType /\ weak.list \in Seq(Conjs)
      /\ weak.chosen \subseteq DOMAIN weak.list
  BY DEF Typed, TypeOK, SessionType, WeakenType
<1>2. "weaken" \in Ops /\ "weaken" \notin Runs /\ "weaken" # None
  BY RunsAssumption, NoneAssumption DEF Ops
<1>3. ServesTyped(q)
  BY ServeTyped
<1>4. PICK a \in Answers \ {"none"} : Answer(q, a)
  BY <1>3 DEF ServesTyped
<1>5. q.from # "weaken" => reply'["weaken"] = reply["weaken"]
  BY <1>2, <1>4, OthersAnswer
<1>6. q.from = "weaken" => reply["weaken"] = "none" /\ reply'["weaken"] = a
  BY <1>2, <1>4 DEF Fits, Answer, Typed, TypeOK
<1>7. CASE Load(q)
  <2>1. q.from # "weaken"
    BY <1>7, <1>2 DEF Load, Fits
  <2> DEFINE b == weak.pc # "idle"
  <2>2. b \in BOOLEAN /\ weak' = [weak EXCEPT !.reloaded = b]
    BY <1>7 DEF Load
  <2> HIDE DEF b
  <2>3. weak'.pc = weak.pc /\ weak'.reloaded = b
    BY <1>1, <2>2 DEF WeakenType
  <2>4. weak'.pc # "idle" => weak'.reloaded
    BY <2>3 DEF b
  <2> QED
    BY <2>4 DEF WeakPart, WeakenExact, Listed
<1>8. CASE Check(q) \/ Look(q)
  <2>1. q.from # "weaken"
    BY <1>8, <1>2 DEF Check, Look, Fits
  <2>2. weak' = weak /\ session'.labeled = session.labeled
    <3>1. ASSUME NEW c, session' = [session EXCEPT !.haveCTI = TRUE, !.current = c]
          PROVE  session'.labeled = session.labeled
      BY <1>1, <3>1 DEF SessionType
    <3> QED
      BY <1>8, <3>1 DEF Check, Look, Verdict
  <2> QED
    BY <1>5, <2>1, <2>2 DEF WeakPart, WeakenExact, Listed
<1>9. CASE List(q)
  <2>1. q.from = "weaken" /\ weak.pc = "listing"
    BY <1>9, <1>2 DEF List, Fits, CheckPcs, RequestType, Ops
  <2>2. weak' = [weak EXCEPT !.list = session.labeled, !.reloaded = FALSE] /\ session' = session
    BY <1>9 DEF List
  <2>3. weak'.pc = "listing" /\ weak'.list = session'.labeled
    BY <1>1, <2>1, <2>2 DEF WeakenType
  <2>4. Begins(weak'.list, session'.labeled)
    BY <1>1, <2>2, <2>3, BeginsSame
  <2> QED
    BY <2>3, <2>4 DEF WeakPart, WeakenExact
<1>10. CASE Weaken(q)
  <2>1. q.from = "weaken" /\ weak.pc = "removing"
    BY <1>10, <1>2 DEF Weaken, Fits, CheckPcs, RequestType, Ops
  <2>2. weak'.pc = "removing" /\ reply'["weaken"] # "none"
    BY <1>3, <1>6, <2>1 DEF ServesTyped
  <2>3. ~Listed'
    BY <2>2 DEF Listed
  <2>4. CASE Answer(q, "error")
    <3>1. reply'["weaken"] = "error"
      BY <1>2, <2>1, <2>4 DEF Answer, Typed, TypeOK
    <3> QED
      BY <2>3, <3>1 DEF WeakPart, WeakenExact
  <2>5. CASE weak' = [weak EXCEPT !.removed = Removed(session.labeled, weak.chosen)]
    <3>1. /\ weak'.removed = Removed(session.labeled, weak.chosen)
          /\ weak'.list = weak.list /\ weak'.chosen = weak.chosen /\ weak'.reloaded = weak.reloaded
      BY <1>1, <2>5 DEF WeakenType
    <3>2. ~weak.reloaded => Begins(weak.list, session.labeled)
      BY <1>6, <2>1 DEF WeakPart, Listed
    <3>3. ~weak.reloaded =>
            Removed(session.labeled, weak.chosen) = Removed(weak.list, weak.chosen)
      BY <1>1, <3>2, RemovedOfBeginning
    <3> QED
      BY <2>3, <3>1, <3>3 DEF WeakPart, WeakenExact
  <2> QED
    BY <1>10, <2>4, <2>5 DEF Weaken
<1>11. CASE Strengthen(q)
  <2>1. q.from = "strengthen" /\ weak' = weak
    BY <1>11, <1>2 DEF Strengthen, Fits, CheckPcs, RequestType, Ops
  <2>2. str.conj \in Conjs
    BY <2>1, NoneAssumption DEF Fits, Typed, SmallPart, Ops
  <2>3. \/ session'.labeled = session.labeled
        \/ session'.labeled = Append(session.labeled, str.conj)
    <3>1. CASE session' = [session EXCEPT !.labeled = Append(@, str.conj),
                                          !.cti = Append(@, str.conj),
                                          !.haveCTI = FALSE]
      BY <1>1, <3>1 DEF SessionType
    <3> QED
      BY <1>11, <3>1 DEF Strengthen
  <2>4. Begins(weak.list, session.labeled) => Begins(weak.list, session'.labeled)
    BY <1>1, <2>2, <2>3, BeginsAppend
  <2> QED
    BY <1>5, <2>1, <2>4 DEF WeakPart, WeakenExact, Listed
<1> QED
  BY <1>7, <1>8, <1>9, <1>10, <1>11

LEMMA WeakNext == Typed /\ ListsAligned /\ WeakPart /\ [Next]_vars => WeakPart'
<1> SUFFICES ASSUME Typed, ListsAligned, WeakPart, [Next]_vars PROVE WeakPart'
  OBVIOUS
<1>1. "weaken" \in Ops /\ "weaken" \notin Runs /\ "weaken" # "strengthen"
  BY RunsAssumption DEF Ops
<1>2. weak \in WeakenType /\ reply \in [Ops -> Answers]
  BY DEF Typed, TypeOK, Answers
<1>3. CASE Serve
  BY <1>3, QueueEntry, WeakServe DEF Serve
<1>4. CASE UNCHANGED <<weak, session>> /\ reply'["weaken"] = reply["weaken"]
  BY <1>4, WeakFrame
<1>5. ASSUME NEW r \in Runs, RunStep(r) PROVE WeakPart'
  <2>1. reply' = [reply EXCEPT ![r] = "none"] /\ UNCHANGED <<weak, session>>
    BY <1>5, GoesOnRun DEF GoesOn, RunStep
  <2> QED
    BY <1>1, <1>2, <1>4, <2>1
<1>6. CASE StartWeaken
  <2>1. weak' = [NoWeaken EXCEPT !.pc = "listing"] /\ reply' = reply /\ weak.pc = "idle"
    BY <1>6 DEF StartWeaken
  <2>2. weak'.pc = "listing" /\ reply["weaken"] = "none"
    BY <2>1 DEF NoWeaken, Typed, Requests
  <2> QED
    BY <2>1, <2>2 DEF WeakPart, WeakenExact, Listed
<1>7. CASE AfterList
  <2>1. /\ weak.pc = "listing" /\ reply["weaken"] = "ok" /\ session' = session
        /\ weak' = [weak EXCEPT !.pc = "dialog"]
    BY <1>7 DEF AfterList, Receive
  <2>2. weak'.pc = "dialog" /\ weak'.list = weak.list /\ weak'.reloaded = weak.reloaded
    BY <1>2, <2>1 DEF WeakenType
  <2> QED
    BY <2>1, <2>2 DEF WeakPart, WeakenExact, Listed
<1>8. ASSUME NEW I, Choose(I) PROVE WeakPart'
  <2>1. weak.pc = "dialog" /\ session' = session /\ reply' = reply /\ reply["weaken"] = "none"
    BY <1>8 DEF Choose, Typed, Requests
  <2>2. CASE weak' = [weak EXCEPT !.pc = "removing", !.chosen = I]
    <3>1. weak'.pc = "removing" /\ weak'.list = weak.list /\ weak'.reloaded = weak.reloaded
      BY <1>2, <2>2 DEF WeakenType
    <3> QED
      BY <2>1, <3>1 DEF WeakPart, WeakenExact, Listed
  <2>3. CASE weak' = NoWeaken
    BY <2>3 DEF NoWeaken, WeakPart, WeakenExact, Listed
  <2> QED
    BY <1>8, <2>2, <2>3 DEF Choose
<1>9. CASE AfterWeaken
  BY <1>9 DEF AfterWeaken, NoWeaken, WeakPart, WeakenExact, Listed
<1>10. CASE AfterStrengthen
  <2>1. UNCHANGED <<weak, session>> /\ reply' = [reply EXCEPT !["strengthen"] = "none"]
    BY <1>10 DEF AfterStrengthen, Receive
  <2> QED
    BY <1>1, <1>2, <1>4, <2>1
<1>11. CASE Cancel
  <2>1. active \in Runs /\ UNCHANGED <<weak, session>>
    BY <1>11 DEF Cancel, Typed, TypeOK
  <2>2. reply' = reply \/ reply' = [reply EXCEPT ![active] = "none"]
    BY <1>11 DEF Cancel
  <2> QED
    BY <1>1, <1>2, <1>4, <2>1, <2>2
<1>12. CASE UNCHANGED <<weak, session, reply>>
  BY <1>4, <1>12
<1> QED
  BY <1>3, <1>5, <1>6, <1>7, <1>8, <1>9, <1>10, <1>11, <1>12
     DEF Next, Answered, Lose, CloseReport, StartCheck, EditText, StartStrengthen,
         CloseStrengthen, vars, page

(* What Weaken removes is what the user chose in the dialog, whatever is     *)
(* done to the conjectures between the list and the choice, but for a load   *)
(* (checkService.ts:841, webui_session.go:3686).                             *)
THEOREM WeakenRemovesChosen == Spec => []WeakenExact
<1>1. WeakPart => WeakenExact
  BY DEF WeakPart
<1> QED
  BY <1>1, TypedInit, TypedNext, ListsInit, ListsNext, WeakInit, WeakNext, PTL DEF Spec

-----------------------------------------------------------------------------
(* The verdict a is about the text that was in the editor.                   *)
Decided(r, a) ==
  LET L == ToSet(Invariants[run[r].text])
  IN a \in {"pass", "fail"} =>
       run[r].checked = L /\ (a = "pass" => Inductive(run[r].text, L))

(* While the overlay is there nobody else sends anything.                    *)
IsLast(r) == queue # << >> /\ queue[Len(queue)].from = r
Fresh(r) ==
  /\ session.text = run[r].text
  /\ InductionConjs(session) = Invariants[run[r].text]
  /\ \A i \in DOMAIN queue : queue[i].from = r

Judged(r) ==
  /\ Working(r) /\ run[r].pc = "load" /\ reply[r] = "none" => IsLast(r)
  /\ Working(r) /\ run[r].pc = "load" /\ reply[r] = "ok" => Fresh(r)
  /\ Working(r) /\ run[r].pc = "check" => Fresh(r)
  /\ run[r].pc = "check" => Decided(r, reply[r])
  /\ run[r].pc \in {"views", "toggles"} => Decided(r, run[r].result)
  /\ run[r].shown \in {"pass", "fail"} => run[r].pc = "done" /\ Decided(r, run[r].shown)

VerdictPart == inOrder => \A r \in Runs : Judged(r)

LEMMA JudgedSame ==
  ASSUME NEW r \in Runs, Judged(r), run'[r] = run[r], reply'[r] = reply[r],
         ~Working(r) \/ UNCHANGED <<queue, session>>
  PROVE  Judged(r)'
<1>1. Working(r)' <=> Working(r)
  BY DEF Working
<1>2. Working(r) => (Fresh(r)' <=> Fresh(r)) /\ (IsLast(r)' <=> IsLast(r))
  BY DEF Fresh, IsLast, InductionConjs
<1> QED
  BY <1>1, <1>2 DEF Judged, Decided, Inductive, Broken, HoldsAll

LEMMA VerdictInit == Init => VerdictPart
BY DEF Init, VerdictPart, Judged, Working

(* A check that waits for the session, but for its toggles, has the overlay. *)
LEMMA Waits ==
  ASSUME Typed, NEW r \in Runs, run[r].pc \in {"load", "check", "views"}
  PROVE  Working(r) /\ \A q \in Runs \ {r} : ~Working(q)
<1>1. Working(r)
  BY DEF Typed, OverlayInv, Working
<1> QED
  BY <1>1, OneActive DEF Typed

(* The answer to a check of induction.                                       *)
LEMMA CheckDecides ==
  ASSUME Typed, NEW r \in Runs, Fresh(r), NEW q \in RequestType, Fits(q), q.from = r, Check(q)
  PROVE  /\ session'.text = session.text
         /\ InductionConjs(session)' = InductionConjs(session)
         /\ Decided(r, reply[r])'
<1> DEFINE L == InductionConjs(session)
<1>1. session \in SessionType /\ r # None /\ r \in Ops
  BY NoneAssumption DEF Typed, TypeOK, Ops
<1>2. /\ session'.text = session.text /\ session'.induction = session.induction
      /\ session'.labeled = session.labeled
  <2>1. CASE session' = session
    BY <2>1
  <2>2. ASSUME NEW c, session' = [session EXCEPT !.haveCTI = TRUE, !.current = c]
        PROVE  /\ session'.text = session.text /\ session'.induction = session.induction
               /\ session'.labeled = session.labeled
    BY <1>1, <2>2 DEF SessionType
  <2> QED
    BY <2>1, <2>2 DEF Check, Verdict
<1>3. InductionConjs(session)' = L
  BY <1>2 DEF InductionConjs
<1>4. run[r].text = session.text /\ L = Invariants[session.text]
  BY DEF Fresh
<1>5. run'[r].checked = ToSet(L) /\ run'[r].text = session.text
  <2> DEFINE k == ToSet(L)
  <2>1. run' = [run EXCEPT ![r].checked = k] /\ run \in [Runs -> CheckType]
    BY <1>1 DEF Check, Typed, TypeOK
  <2> HIDE DEF k
  <2>2. run'[r] = [run[r] EXCEPT !.checked = k] /\ run[r] \in CheckType
    BY <2>1
  <2>3. run'[r].checked = k /\ run'[r].text = run[r].text
    BY <2>2 DEF CheckType
  <2> QED
    BY <1>4, <2>3 DEF k
<1>6. reply'[r] = "pass" => Inductive(session.text, ToSet(L))
  <2>1. ASSUME NEW a, Answer(q, a) PROVE reply'[r] = a
    BY <1>1, <2>1 DEF Answer, Typed, TypeOK
  <2>2. CASE \A i \in DOMAIN L : ~Broken(session.text, ToSet(L), L[i])
    BY <2>2 DEF Inductive, ToSet
  <2>3. CASE \E a \in {"fail", "error"} : Answer(q, a)
    BY <2>1, <2>3
  <2> QED
    BY <1>1, <2>2, <2>3 DEF Check, Verdict
<1>7. Decided(r, reply[r])'
  BY <1>4, <1>5, <1>6 DEF Decided
<1> QED
  BY <1>2, <1>3, <1>7

(* The backend serves the first request.                                     *)
LEMMA VerdictServe ==
  ASSUME Typed, NEW r \in Runs, Judged(r), 1 \in DOMAIN queue, queue' = RemoveAt(queue, 1),
         NEW q \in RequestType, q = queue[1],
         Load(q) \/ Check(q) \/ Look(q) \/ List(q) \/ Weaken(q) \/ Strengthen(q)
  PROVE  Judged(r)'
<1> DEFINE n == Len(queue)
<1>1. /\ Fits(q) /\ ServesTyped(q) /\ r # None /\ r \in Ops
      /\ reply \in [Ops -> Answers] /\ session \in SessionType
  BY QueueEntry, ServeTyped, NoneAssumption DEF Typed, TypeOK, Answers, Ops
<1>2. PICK a \in Answers \ {"none"} : Answer(q, a)
  BY <1>1 DEF ServesTyped
<1>3. /\ q.from = r => reply[r] = "none" /\ reply'[r] = a
      /\ q.from # r => reply'[r] = reply[r] /\ run'[r] = run[r]
  BY <1>1, <1>2 DEF Fits, Answer, ServesTyped
<1>4. /\ run'[r].pc = run[r].pc /\ run'[r].text = run[r].text
      /\ run'[r].result = run[r].result /\ run'[r].shown = run[r].shown
      /\ Working(r)' <=> Working(r)
  BY <1>1 DEF ServesTyped, Working
<1>5. /\ n \in Nat \ {0} /\ Len(queue') = n - 1 /\ DOMAIN queue' = 1..(n - 1)
      /\ DOMAIN queue = 1..n
      /\ \A k \in 1..(n - 1) : queue'[k] = queue[k + 1]
  <2>1. queue \in Seq(RequestType) /\ 1 \in 1..Len(queue)
    BY DEF Typed, TypeOK
  <2>2. /\ queue' \in Seq(RequestType) /\ Len(queue') = Len(queue) - 1
        /\ \A k \in 1..(Len(queue) - 1) :
             queue'[k] = IF k < 1 THEN queue[k] ELSE queue[k + 1]
    BY <2>1, RemovedAt
  <2> QED
    BY <2>1, <2>2
<1> HIDE DEF n
<1>6. ASSUME Working(r), run[r].pc = "load", reply'[r] = "none" PROVE IsLast(r)'
  <2>1. reply[r] = "none" /\ q.from # r
    BY <1>2, <1>3, <1>6
  <2>2. queue[n].from = r
    BY <1>6, <2>1 DEF Judged, IsLast, n
  <2>3. n # 1
    BY <2>1, <2>2
  <2>4. queue'[n - 1].from = r /\ Len(queue') = n - 1 /\ n - 1 >= 1
    BY <1>5, <2>2, <2>3
  <2>5. queue' # << >>
    BY <2>4
  <2> QED
    BY <2>4, <2>5 DEF IsLast
<1>7. ASSUME Working(r), run[r].pc = "load", reply'[r] = "ok" PROVE Fresh(r)'
  <2>1. CASE q.from = r
    <3>1. reply[r] = "none" /\ q.kind = "load" /\ q.text = run[r].text /\ q.text \in Texts
      BY <1>1, <1>3, <1>7, <2>1 DEF Fits
    <3>2. queue[n].from = r
      BY <1>7, <3>1 DEF Judged, IsLast, n
    <3>3. n = 1
      BY <1>1, <1>5, <2>1, <3>2 DEF Typed, Requests
    <3>4. DOMAIN queue' = {}
      BY <1>5, <3>3
    <3>5. Load(q) /\ reply'[r] # "error"
      BY <1>7, <3>1 DEF Check, Look, List, Weaken, Strengthen
    <3>6. \/ session' = Loaded(q.text)
          \/ session' = [Loaded(q.text) EXCEPT !.induction = None]
      <4>1. Answer(q, "error") => reply'[r] = "error"
        BY <1>1, <2>1 DEF Answer
      <4> QED
        BY <3>5, <4>1 DEF Load
    <3>7. InductionConjs(session)' = Invariants[q.text] /\ session'.text = q.text
      <4>1. q.text # None
        BY <3>1, NoneAssumption
      <4> QED
        BY <3>6, <4>1 DEF Loaded, InductionConjs
    <3> QED
      BY <1>4, <3>1, <3>4, <3>7 DEF Fresh
  <2>2. CASE q.from # r
    <3>1. reply[r] = "ok"
      BY <1>3, <1>7, <2>2
    <3>2. Fresh(r)
      BY <1>7, <3>1 DEF Judged
    <3> QED
      BY <2>2, <3>2 DEF Fresh
  <2> QED
    BY <2>1, <2>2
<1>8. ASSUME run[r].pc = "check" PROVE Fresh(r)' /\ Decided(r, reply[r])'
  <2>1. Fresh(r)
    BY <1>8, Waits DEF Judged
  <2>2. q.from = r /\ q.kind = "check"
    BY <1>1, <1>8, <2>1 DEF Fresh, Fits
  <2>3. Check(q)
    BY <2>2 DEF Load, Look, List, Weaken, Strengthen
  <2>4. /\ session'.text = session.text
        /\ InductionConjs(session)' = InductionConjs(session)
        /\ Decided(r, reply[r])'
    BY <1>1, <2>1, <2>2, <2>3, CheckDecides
  <2>5. \A k \in DOMAIN queue' : queue'[k].from = r
    BY <1>5, <2>1 DEF Fresh
  <2> QED
    BY <1>4, <2>1, <2>4, <2>5 DEF Fresh
<1>9. run[r].pc # "check" => run'[r] = run[r]
  <2>1. CASE q.from = r /\ run[r].pc # "check"
    <3>1. q.kind # "check"
      BY <1>1, <2>1 DEF Fits
    <3> QED
      BY <3>1 DEF Load, Check, Look, List, Weaken, Strengthen
  <2> QED
    BY <1>3, <2>1
<1>10. run[r].pc # "check" /\ run[r].pc \in {"views", "toggles"} => Decided(r, run[r].result)'
  BY <1>9 DEF Judged, Decided, Inductive, Broken, HoldsAll
<1>11. run[r].shown \in {"pass", "fail"} => run'[r].pc = "done" /\ Decided(r, run[r].shown)'
  BY <1>9 DEF Judged, Decided, Inductive, Broken, HoldsAll
<1> QED
  BY <1>4, <1>6, <1>7, <1>8, <1>10, <1>11 DEF Judged

(* A check goes on.                                                          *)
LEMMA VerdictRun ==
  ASSUME Typed, NEW p \in Runs, NEW r \in Runs, Judged(r), RunStep(p)
  PROVE  Judged(r)'
<1>1. GoesOn(p) /\ session' = session
  BY GoesOnRun DEF RunStep
<1>2. reply \in [Ops -> Answers] /\ p \in Ops /\ r \in Ops
  BY DEF Typed, TypeOK, Answers, Ops
<1>3. CASE r # p
  <2>1. run'[r] = run[r] /\ reply'[r] = reply[r]
    BY <1>1, <1>2, <1>3 DEF GoesOn, Advances, Ends, Reports, RunIs
  <2>2. CASE Advances(p)
    <3>1. ~Working(r)
      BY <1>3, <2>2, Waits DEF Advances
    <3> QED
      BY <2>1, <3>1, JudgedSame
  <2>3. CASE queue' = queue
    BY <1>1, <2>1, <2>3, JudgedSame
  <2> QED
    BY <1>1, <2>2, <2>3 DEF GoesOn
<1>4. CASE r = p
  <2>1. reply'[r] = "none"
    BY <1>1, <1>2, <1>4 DEF GoesOn
  <2>2. ASSUME NEW l, NEW u, NEW s, RunIs(r, l, u, s)
        PROVE  /\ run'[r].pc = l /\ run'[r].result = u /\ run'[r].shown = s
               /\ \A a : Decided(r, a)' <=> Decided(r, a)
    BY <2>2 DEF RunIs, Decided, Inductive, Broken, HoldsAll
  <2>3. CASE run[r].pc = "load" /\ reply[r] = "ok" /\ Send(r, "check", None)
             /\ RunIs(r, "check", run[r].result, run[r].shown)
    <3>1. Fresh(r) /\ run[r].shown \notin {"pass", "fail"}
      BY <2>3, Waits DEF Judged
    <3>2. \A k \in DOMAIN queue' : queue'[k].from = r
      <4> DEFINE e == [from |-> r, kind |-> "check", text |-> None]
      <4>1. queue' = Append(queue, e) /\ e.from = r /\ queue \in Seq(RequestType)
            /\ e \in RequestType
        BY <1>2, <2>3 DEF Send, Typed, TypeOK, RequestType
      <4> HIDE DEF e
      <4> QED
        BY <3>1, <4>1, AppendProperties DEF Fresh
    <3>3. Fresh(r)'
      BY <1>1, <2>3, <3>1, <3>2 DEF Fresh, RunIs, InductionConjs
    <3>4. run'[r].pc = "check" /\ run'[r].shown = run[r].shown
      BY <2>2, <2>3
    <3>5. Decided(r, reply[r])'
      BY <2>1 DEF Decided
    <3> QED
      BY <3>1, <3>3, <3>4, <3>5 DEF Judged
  <2>4. ASSUME NEW l \in {"views", "toggles"}, NEW u, RunIs(r, l, u, run[r].shown),
               Decided(r, u), run[r].pc \in {"check", "views"}
        PROVE  Judged(r)'
    <3>1. run'[r].pc = l /\ run'[r].result = u /\ run'[r].shown = run[r].shown /\ Decided(r, u)'
      BY <2>2, <2>4
    <3>2. run[r].shown \notin {"pass", "fail"}
      BY <2>4 DEF Judged
    <3>3. Decided(r, run[r].result)'
      BY <3>1 DEF Decided
    <3> QED
      BY <3>1, <3>2, <3>3 DEF Judged
  <2>5. ASSUME NEW a, RunIs(r, "done", "none", a), Decided(r, a) PROVE Judged(r)'
    <3>1. run'[r].pc = "done" /\ run'[r].shown = a /\ Decided(r, a)'
      BY <2>2, <2>5
    <3>2. Decided(r, run[r].shown)'
      BY <3>1 DEF Decided
    <3> QED
      BY <3>1, <3>2 DEF Judged
  <2>6. CASE Reports(r)
    <3>1. run'[r].pc = "dialog" /\ run'[r].shown = run[r].shown
      BY <2>2, <2>6 DEF Reports
    <3>2. run[r].shown \notin {"pass", "fail"}
      BY <2>6 DEF Judged, Reports
    <3> QED
      BY <3>1, <3>2 DEF Judged
  <2>7. CASE Ends(r)
    <3>1. \E a : RunIs(r, "done", "none", a) /\ Decided(r, a)
      BY <2>7 DEF Ends, Judged
    <3> QED
      BY <2>5, <3>1
  <2>8. CASE Advances(r)
    <3>1. CASE run[r].pc = "check" /\ RunIs(r, "views", reply[r], run[r].shown)
      BY <2>4, <3>1 DEF Judged
    <3>2. CASE run[r].pc = "views" /\ RunIs(r, "toggles", run[r].result, run[r].shown)
      BY <2>4, <3>2 DEF Judged
    <3> QED
      BY <2>3, <2>8, <3>1, <3>2 DEF Advances
  <2> QED
    BY <1>1, <1>4, <2>6, <2>7, <2>8 DEF GoesOn
<1> QED
  BY <1>3, <1>4

(* Whoever starts something finds the page free, so no check waits.          *)
LEMMA NoneWorking == ASSUME Typed, depth = 0 PROVE \A r \in Runs : ~Working(r)
BY DEF Typed, OverlayInv

LEMMA VerdictStart ==
  ASSUME Typed, NEW p \in Runs, NEW r \in Runs, Judged(r), StartCheck(p)
  PROVE  Judged(r)'
<1>1. ~Working(r) /\ reply' = reply
  BY NoneWorking DEF StartCheck, Free
<1>2. CASE r # p
  <2>1. run'[r] = run[r]
    BY <1>2 DEF StartCheck, Typed, TypeOK
  <2> QED
    BY <1>1, <2>1, JudgedSame
<1>3. CASE r = p
  <2> DEFINE R == [run[r] EXCEPT !.pc = "load", !.text = editor, !.open = TRUE,
                                 !.wanted = wanted]
  <2>1. run' = [run EXCEPT ![r] = R] /\ run[r].pc = "idle" /\ Send(r, "load", editor)
    BY <1>3 DEF StartCheck
  <2>2. R.pc = "load" /\ R.shown = run[r].shown
    BY DEF Typed, TypeOK, CheckType
  <2> HIDE DEF R
  <2>3. run'[r].pc = "load" /\ run'[r].shown = run[r].shown
    BY <2>1, <2>2 DEF Typed, TypeOK
  <2>4. run[r].shown \notin {"pass", "fail"}
    BY <2>1 DEF Judged
  <2>5. IsLast(r)'
    <3> DEFINE e == [from |-> r, kind |-> "load", text |-> editor]
    <3>1. queue' = Append(queue, e) /\ e.from = r /\ queue \in Seq(RequestType)
      BY <2>1 DEF Send, Typed, TypeOK
    <3> HIDE DEF e
    <3>2. Len(queue') = Len(queue) + 1 /\ queue'[Len(queue) + 1] = e /\ queue' # << >>
      BY <3>1
    <3> QED
      BY <3>1, <3>2 DEF IsLast
  <2>6. reply'[r] = "none"
    BY <1>1, <2>1 DEF Typed, Requests, CheckPcs
  <2> QED
    BY <2>3, <2>4, <2>5, <2>6 DEF Judged
<1> QED
  BY <1>2, <1>3

LEMMA VerdictClose ==
  ASSUME Typed, NEW p \in Runs, NEW r \in Runs, Judged(r), CloseReport(p), session' = session
  PROVE  Judged(r)'
<1>1. RunIs(p, "done", "none", "error") /\ UNCHANGED <<queue, reply>>
  BY FinishIs DEF CloseReport, Finish
<1>2. CASE r # p
  BY <1>1, <1>2, JudgedSame DEF RunIs
<1>3. CASE r = p
  BY <1>1, <1>3 DEF RunIs, Judged
<1> QED
  BY <1>2, <1>3

LEMMA VerdictCancel ==
  ASSUME Typed, NEW r \in Runs, Judged(r), Cancel
  PROVE  Judged(r)'
<1> DEFINE p == active
<1>1. p \in Runs /\ session' = session /\ reply \in [Ops -> Answers] /\ r \in Ops
  BY DEF Cancel, Typed, TypeOK, Answers, Ops
<1>2. \A q \in Runs \ {p} : ~Working(q)
  BY <1>1, OneActive DEF Typed, OverlayInv
<1>3. CASE run[p].pc \in {"load", "check", "views"}
  <2>1. RunIs(p, "done", "none", "cancelled") /\ reply' = [reply EXCEPT ![p] = "none"]
    BY <1>1, <1>3, CancelIs DEF Cancel
  <2>2. CASE r # p
    BY <1>1, <1>2, <2>1, <2>2, JudgedSame DEF RunIs
  <2>3. CASE r = p
    BY <2>1, <2>3 DEF RunIs, Judged
  <2> QED
    BY <2>2, <2>3
<1>4. CASE run[p].pc = "toggles"
  <2>1. RunIs(p, "toggles", run[p].result, run[p].shown) /\ UNCHANGED <<queue, reply>>
    BY <1>1, <1>4, GiveUpIs DEF Cancel
  <2>2. CASE r # p
    BY <1>1, <2>1, <2>2, JudgedSame DEF RunIs
  <2>3. CASE r = p
    <3>1. run[r].shown \notin {"pass", "fail"} /\ Decided(r, run[r].result)
      BY <1>4, <2>3 DEF Judged
    <3>2. Decided(r, run[r].result)'
      BY <2>1, <2>3, <3>1 DEF RunIs, Decided, Inductive, Broken, HoldsAll
    <3> QED
      BY <2>1, <2>3, <3>1, <3>2 DEF RunIs, Judged
  <2> QED
    BY <2>2, <2>3
<1> QED
  BY <1>3, <1>4 DEF Cancel

LEMMA VerdictLose ==
  ASSUME Typed, NEW r \in Runs, Judged(r), Lose
  PROVE  Judged(r)'
<1>1. run' = run /\ reply' = reply /\ session' = session /\ r # None
  BY NoneAssumption DEF Lose, page
<1>2. CASE ~Working(r)
  BY <1>1, <1>2, JudgedSame
<1>3. CASE Working(r)
  <2> DEFINE n == Len(queue)
  <2>1. PICK i \in 1..n : queue[i].from = None /\ queue' = RemoveAt(queue, i)
    BY DEF Lose, Typed, TypeOK
  <2>2. queue \in Seq(RequestType) /\ n \in Nat
    BY DEF Typed, TypeOK
  <2>3. /\ queue' \in Seq(RequestType) /\ Len(queue') = n - 1
        /\ \A k \in 1..(n - 1) : queue'[k] = IF k < i THEN queue[k] ELSE queue[k + 1]
    BY <2>1, <2>2, RemovedAt
  <2>4. ~Fresh(r)
    BY <1>1, <2>1, <2>2 DEF Fresh
  <2>5. IsLast(r) => IsLast(r)'
    <3> SUFFICES ASSUME IsLast(r) PROVE IsLast(r)'
      OBVIOUS
    <3>1. queue[n].from = r /\ i # n
      BY <1>1, <2>1 DEF IsLast
    <3>2. n - 1 \in 1..(n - 1) /\ ~(n - 1 < i)
      BY <2>1, <2>2, <3>1
    <3>3. queue'[n - 1] = queue[n] /\ Len(queue') = n - 1 /\ queue' # << >>
      BY <2>2, <2>3, <3>2
    <3> QED
      BY <3>1, <3>3 DEF IsLast
  <2>6. Working(r)' <=> Working(r)
    BY <1>1 DEF Working
  <2> HIDE DEF n
  <2>7. /\ run[r].pc = "check" => Decided(r, reply[r])'
        /\ run[r].pc \in {"views", "toggles"} => Decided(r, run[r].result)'
        /\ run[r].shown \in {"pass", "fail"} => Decided(r, run[r].shown)'
    BY <1>1 DEF Judged, Decided, Inductive, Broken, HoldsAll
  <2> QED
    BY <1>1, <1>3, <2>4, <2>5, <2>6, <2>7 DEF Judged
<1> QED
  BY <1>2, <1>3

LEMMA OrderStays == [Next]_vars => inOrder' = inOrder
<1> SUFFICES ASSUME [Next]_vars PROVE inOrder' = inOrder
  OBVIOUS
<1>1. CASE Serve \/ Lose
  BY <1>1 DEF Serve, Lose
<1>2. CASE Answered
  BY <1>2 DEF Answered, RunStep, AfterList, AfterWeaken, AfterStrengthen
<1>3. CASE Cancel
  BY <1>3 DEF Cancel
<1>4. ASSUME NEW p \in Runs, StartCheck(p) PROVE inOrder' = inOrder
  BY <1>4 DEF StartCheck
<1>5. CASE StartWeaken
  BY <1>5 DEF StartWeaken
<1>6. ASSUME NEW I, Choose(I) PROVE inOrder' = inOrder
  BY <1>6 DEF Choose
<1>7. CASE (\E t \in Texts : EditText(t)) \/ \E c \in Selectable : StartStrengthen(c)
  BY <1>7 DEF EditText, StartStrengthen
<1>8. CASE CloseStrengthen \/ UNCHANGED vars
  BY <1>8 DEF CloseStrengthen, vars
<1> QED
  BY <1>1, <1>2, <1>3, <1>4, <1>5, <1>6, <1>7, <1>8 DEF Next

LEMMA VerdictNext == Typed /\ VerdictPart /\ [Next]_vars => VerdictPart'
<1> SUFFICES ASSUME Typed, [Next]_vars, inOrder, NEW r \in Runs, Judged(r) PROVE Judged(r)'
  BY OrderStays DEF VerdictPart
<1>1. CASE Serve
  <2>1. /\ 1 \in DOMAIN queue /\ queue' = RemoveAt(queue, 1)
        /\ \/ Load(queue[1]) \/ Check(queue[1]) \/ Look(queue[1]) \/ List(queue[1])
           \/ Weaken(queue[1]) \/ Strengthen(queue[1])
    BY <1>1 DEF Serve
  <2>2. queue[1] \in RequestType
    BY <2>1, QueueEntry
  <2> QED
    BY <2>1, <2>2, VerdictServe
<1>2. CASE Lose
  BY <1>2, VerdictLose
<1>3. CASE Cancel
  BY <1>3, VerdictCancel
<1>4. ASSUME NEW p \in Runs,
             \/ RunStep(p) \/ StartCheck(p)
             \/ /\ CloseReport(p)
                /\ UNCHANGED <<editor, wanted, weak, str, edits, inOrder, session>>
      PROVE  Judged(r)'
  BY <1>4, VerdictRun, VerdictStart, VerdictClose
<1>5. CASE /\ depth = 0
           /\ \/ \E t \in Texts : EditText(t)
              \/ StartWeaken \/ \E I \in SUBSET (DOMAIN weak.list) : Choose(I)
              \/ \E c \in Selectable : StartStrengthen(c)
  BY <1>5, NoneWorking, JudgedSame DEF EditText, StartWeaken, Choose, StartStrengthen
<1>6. CASE AfterList \/ AfterWeaken \/ AfterStrengthen
  <2>1. UNCHANGED <<run, queue, session>>
    BY <1>6 DEF AfterList, AfterWeaken, AfterStrengthen
  <2>2. reply'[r] = reply[r]
    <3>1. r # "weaken" /\ r # "strengthen" /\ reply \in [Ops -> Answers] /\ r \in Ops
      BY RunsAssumption DEF Typed, TypeOK, Answers, Ops
    <3> QED
      BY <1>6, <3>1 DEF AfterList, AfterWeaken, AfterStrengthen, Receive
  <2> QED
    BY <2>1, <2>2, JudgedSame
<1>7. CASE CloseStrengthen \/ UNCHANGED vars
  BY <1>7, JudgedSame DEF CloseStrengthen, vars, page
<1> QED
  BY <1>1, <1>2, <1>3, <1>4, <1>5, <1>6, <1>7
     DEF Next, Answered, EditText, StartWeaken, Choose, StartStrengthen, Free

(* When requests arrive in the order in which they are sent, a verdict that  *)
(* the page shows is about the text that the editor held when the check was  *)
(* started, and "pass" is true of it: the overlay keeps everybody else from  *)
(* loading another text or changing the conjectures in between, and a check  *)
(* that was cancelled has nothing left to do that matters (checkService.ts,  *)
(* runCheck and checkInduction; webui_session.go:332).                       *)
THEOREM VerdictIsOfEditor == Spec => []VerdictOfEditor
<1>1. VerdictPart => VerdictOfEditor
  BY DEF VerdictPart, Judged, Decided, VerdictOfEditor
<1> QED
  BY <1>1, TypedInit, TypedNext, VerdictInit, VerdictNext, PTL DEF Spec
=============================================================================
