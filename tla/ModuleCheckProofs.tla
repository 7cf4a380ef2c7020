------------------------- MODULE ModuleCheckProofs --------------------------
(***************************************************************************)
(* Proofs about ModuleCheck, for any files, isolates and options: the      *)
(* variables have their types, a file that is OK was proved, BOUNDED is    *)
(* printed for the right files, and the macro finder is off where it       *)
(* should be.                                                              *)
(*                                                                         *)
(* The inductive invariants say what is known of the isolates before the   *)
(* current one, and of the current one when it was just checked, as long   *)
(* as nothing has failed: failures are only ever added up.                 *)
(***************************************************************************)
EXTENDS ModuleCheck, TLAPS

OnIsolate == pc \in {"check", "all", "each", "restore"}

(* The types, and that an isolate which is being checked is one to be        *)
(* checked, in the way its attributes ask for.                               *)
Typed ==
  /\ TypeOK
  /\ pc = "module" => i = 1
  /\ OnIsolate => i <= Len(file.isolates) /\ ToVerify(iso) /\ ~opts.trusted
  /\ pc \in {"all", "each"} => Method \in {"mc", "vmt", "bmc"}
  /\ pc = "each" => iso.separate
  /\ ~actionFound

(* The initial states are typed. *)
LEMMA TypedInit == Init => Typed
<1> SUFFICES ASSUME Init PROVE Typed
  OBVIOUS
<1>1. opts \in OptionsType /\ files \in Seq(File)
  BY JobsAssumption DEF Init, Job
<1>2. opts.macro \in BOOLEAN
  BY <1>1 DEF OptionsType
<1>3. {failed, bounded, usedSorry, actionFound, macroFinder, savedMacro} \subseteq BOOLEAN
  BY <1>2 DEF Init
<1>4. results \in Seq([verdict : Verdicts, bounded : BOOLEAN]) /\ Len(results) = 0
  BY DEF Init
<1> QED
  BY <1>1, <1>3, <1>4 DEF Init, Typed, TypeOK, OnIsolate

(* The file and the isolate whose turn it is. *)
LEMMA Current ==
  ASSUME TypeOK, pc # "idle"
  PROVE  /\ file \in File
         /\ Len(file.isolates) \in Nat
         /\ \A k \in 1..Len(file.isolates) : file.isolates[k] \in Isolate
         /\ i \in Nat /\ i >= 1
         /\ i <= Len(file.isolates) => iso \in Isolate
<1>1. Len(results) + 1 \in 1..Len(files)
  BY DEF TypeOK
<1>2. file \in File
  BY <1>1 DEF TypeOK, file
<1>3. file.isolates \in Seq(Isolate)
  BY <1>2 DEF File
<1> QED
  BY <1>2, <1>3 DEF TypeOK, iso

(* A verdict is added to the results. *)
LEMMA Reported ==
  ASSUME TypeOK, pc # "idle" \/ Len(results) < Len(files), NEW r \in Verdicts, Report(r)
  PROVE  /\ results' \in Seq([verdict : Verdicts, bounded : BOOLEAN])
         /\ Len(results') = Len(results) + 1
         /\ Len(results') <= Len(files)
         /\ \A j \in 1..Len(results) : results'[j] = results[j]
         /\ results'[Len(results')].verdict = r
         /\ r = "OK" => results'[Len(results')].bounded = bounded
<1> DEFINE e == [verdict |-> r, bounded |-> bounded /\ r \in {"OK", "OK, but used 'sorry'"}]
<1>1. e \in [verdict : Verdicts, bounded : BOOLEAN]
  OBVIOUS
<1>2. results' = Append(results, e)
  BY DEF Report
<1>3. results \in Seq([verdict : Verdicts, bounded : BOOLEAN])
  BY DEF TypeOK
<1>4. Len(results) + 1 <= Len(files)
  <2>1. Len(results) \in Nat /\ Len(files) \in Nat /\ Len(results) < Len(files)
    BY DEF TypeOK
  <2> QED
    BY <2>1
<1>5. bounded \in BOOLEAN
  BY DEF TypeOK
<1> HIDE DEF e
<1>6. /\ results' \in Seq([verdict : Verdicts, bounded : BOOLEAN])
      /\ Len(results') = Len(results) + 1
      /\ \A j \in 1..Len(results) : results'[j] = results[j]
      /\ results'[Len(results) + 1] = e
  BY <1>1, <1>2, <1>3
<1>7. e.verdict = r /\ (r = "OK" => e.bounded = bounded)
  <2>1. bounded = TRUE \/ bounded = FALSE
    BY <1>5
  <2> QED
    BY <2>1 DEF e
<1> QED
  BY <1>4, <1>6, <1>7

(* A check that ends with a verdict leaves everything typed. *)
LEMMA TypedFail ==
  ASSUME Typed, pc # "idle" \/ Len(results) < Len(files), NEW r \in Verdicts, Fail(r),
         UNCHANGED <<opts, files, actionFound>>, toCheck' \in SUBSET Lines,
         {failed, bounded, usedSorry, actionFound, macroFinder, savedMacro}' \subseteq BOOLEAN
  PROVE  Typed'
<1>1. /\ results' \in Seq([verdict : Verdicts, bounded : BOOLEAN])
      /\ Len(results') <= Len(files)
  BY Reported DEF Fail, Typed
<1>2. pc' = "idle"
  BY DEF Fail
<1> QED
  BY <1>1, <1>2 DEF Typed, TypeOK, OnIsolate

(* Every step keeps the types. *)
LEMMA TypedNext == Typed /\ [Next]_vars => Typed'
<1> SUFFICES ASSUME Typed, [Next]_vars PROVE Typed'
  OBVIOUS
<1>t. TypeOK
  BY DEF Typed
<1>b. {failed, bounded, usedSorry, actionFound, macroFinder, savedMacro} \subseteq BOOLEAN
  BY <1>t DEF TypeOK
<1>v. "failed" \in Verdicts /\ "incomplete" \in Verdicts /\ "error" \in Verdicts
       /\ "not exported" \in Verdicts /\ "NOT CHECKED" \in Verdicts
      /\ "OK" \in Verdicts /\ "OK, but used 'sorry'" \in Verdicts
  BY DEF Verdicts
<1>1. CASE Start
  <2>1. files[Len(results) + 1] \in File
    BY <1>1, <1>t DEF Start, TypeOK
  <2>2. Len(files[Len(results) + 1].isolates) \in Nat
    BY <2>1 DEF File
  <2>3. {failed, bounded, usedSorry, actionFound, macroFinder, savedMacro}' \subseteq BOOLEAN
    BY <1>1, <1>b DEF Start
  <2>4. CASE Fail("error") \/ Fail("NOT CHECKED")
    BY <1>1, <1>t, <1>v, <2>3, <2>4, TypedFail DEF Start, TypeOK
  <2>5. CASE pc' = "module" /\ UNCHANGED results
    BY <1>1, <1>t, <2>2, <2>3, <2>5 DEF Start, Typed, TypeOK, OnIsolate, file
  <2> QED
    BY <1>1, <2>4, <2>5 DEF Start, Load, Fail
<1>2. CASE Coverage
  <2>1. {failed, bounded, usedSorry, actionFound, macroFinder, savedMacro}' \subseteq BOOLEAN
    BY <1>2, <1>b DEF Coverage, cfgVars
  <2>2. CASE Fail("incomplete")
    BY <1>2, <1>t, <1>v, <2>1, <2>2, TypedFail DEF Coverage, TypeOK, cfgVars
  <2>3. CASE ~(opts.coverage /\ ~file.complete)
    BY <1>2, <1>t, <2>1, <2>3 DEF Coverage, cfgVars, Typed, TypeOK, OnIsolate, file
  <2> QED
    BY <1>2, <2>2, <2>3 DEF Coverage
<1>3. CASE SkipIsolate
  <2>1. {failed, bounded, usedSorry, actionFound, macroFinder, savedMacro}' \subseteq BOOLEAN
    BY <1>3, <1>b DEF SkipIsolate, cfgVars
  <2>2. i + 1 \in 1..(Len(file.isolates) + 1)
    BY <1>3, <1>t, Current DEF SkipIsolate
  <2> QED
    BY <1>3, <1>t, <2>1, <2>2 DEF SkipIsolate, cfgVars, Typed, TypeOK, OnIsolate, file
<1>4. CASE Create
  <2>1. iso \in Isolate
    BY <1>4, <1>t, Current DEF Create
  <2>2. {failed, bounded, usedSorry, actionFound, macroFinder, savedMacro}' \subseteq BOOLEAN
    BY <1>4, <1>b DEF Create, cfgVars
  <2>3. CASE ~iso.creates
    BY <1>4, <1>t, <1>v, <2>2, <2>3, TypedFail DEF Create, TypeOK, cfgVars
  <2>4. CASE iso.creates /\ opts.trusted
    <3>1. i + 1 \in 1..(Len(file.isolates) + 1)
      BY <1>4, <1>t, Current DEF Create
    <3> QED
      BY <1>4, <1>t, <2>2, <2>4, <3>1 DEF Create, cfgVars, Typed, TypeOK, OnIsolate, file
  <2>5. CASE iso.creates /\ ~opts.trusted
    BY <1>4, <1>t, <2>2, <2>5 DEF Create, cfgVars, Typed, TypeOK, OnIsolate, file, iso
  <2> QED
    BY <2>3, <2>4, <2>5
<1>5. CASE CheckIC
  <2>1. {failed, bounded, usedSorry, actionFound, macroFinder, savedMacro}' \subseteq BOOLEAN
    BY <1>5, <1>b DEF CheckIC
  <2>2. CASE Fail("error")
    BY <1>5, <1>t, <1>v, <2>1, <2>2, TypedFail DEF CheckIC, TypeOK
  <2>3. CASE pc' = "restore" /\ UNCHANGED results
    BY <1>5, <1>t, <2>1, <2>3 DEF CheckIC, Typed, TypeOK, OnIsolate, file, iso
  <2> QED
    BY <1>5, <2>2, <2>3 DEF CheckIC
<1>6. CASE BeginMC
  <2>1. iso \in Isolate
    BY <1>6, <1>t, Current DEF BeginMC, Typed, OnIsolate
  <2>2. {failed, bounded, usedSorry, actionFound, macroFinder, savedMacro}' \subseteq BOOLEAN
    BY <1>6, <1>b DEF BeginMC
  <2>3. Method \in {"ic", "mc", "vmt", "bmc", "bmc bad"} /\ Selected \in SUBSET Lines
    BY <2>1 DEF Method, MethodOf, Isolate, Selected, Wanted, Chosen, lines
  <2>4. CASE Fail("error") /\ UNCHANGED toCheck
    BY <1>6, <1>t, <1>v, <2>2, <2>4, TypedFail DEF BeginMC, TypeOK
  <2>5. CASE /\ Method # "bmc bad"
             /\ \/ ~iso.separate /\ toCheck' = {} /\ pc' = "all"
                \/ iso.separate /\ toCheck' = Selected /\ pc' = "each"
             /\ UNCHANGED results
    BY <1>6, <1>t, <2>2, <2>3, <2>5
       DEF BeginMC, Typed, TypeOK, OnIsolate, file, iso, Method, MethodOf
  <2> QED
    BY <1>6, <2>4, <2>5 DEF BeginMC
<1>7. CASE MCAll
  <2>1. {failed, bounded, usedSorry, actionFound, macroFinder, savedMacro}' \subseteq BOOLEAN
    BY <1>7, <1>b DEF MCAll, cfgVars
  <2>2. CASE Fail("failed")
    BY <1>7, <1>t, <1>v, <2>1, <2>2, TypedFail DEF MCAll, TypeOK, cfgVars
  <2>3. CASE pc' = "restore" /\ UNCHANGED results
    BY <1>7, <1>t, <2>1, <2>3 DEF MCAll, cfgVars, Typed, TypeOK, OnIsolate, file, iso
  <2> QED
    BY <1>7, <2>2, <2>3 DEF MCAll
<1>8. CASE MCEach
  <2>1. {failed, bounded, usedSorry, actionFound, macroFinder, savedMacro}' \subseteq BOOLEAN
    BY <1>8, <1>b DEF MCEach, cfgVars
  <2>2. toCheck' \in SUBSET Lines
    BY <1>8, <1>t DEF MCEach, TypeOK
  <2>3. CASE Fail("failed")
    BY <1>8, <1>t, <1>v, <2>1, <2>2, <2>3, TypedFail DEF MCEach, cfgVars
  <2>4. CASE pc' \in {"each", "restore"} /\ UNCHANGED results
    BY <1>8, <1>t, <2>1, <2>2, <2>4 DEF MCEach, cfgVars, Typed, TypeOK, OnIsolate, file, iso, Method, MethodOf
  <2> QED
    BY <1>8, <2>3, <2>4 DEF MCEach
<1>9. CASE Restore
  <2>1. iso \in Isolate
    BY <1>9, <1>t, Current DEF Restore, cfgVars, Typed, OnIsolate
  <2>2. {failed, bounded, usedSorry, actionFound, macroFinder, savedMacro}' \subseteq BOOLEAN
    BY <1>9, <1>b DEF Restore, cfgVars
  <2>3. i + 1 \in 1..(Len(file.isolates) + 1)
    BY <1>9, <1>t, Current DEF Restore, cfgVars, Typed, OnIsolate
  <2> QED
    BY <1>9, <1>t, <2>2, <2>3 DEF Restore, cfgVars, Typed, TypeOK, OnIsolate, file
<1>10. CASE Finish
  <2>1. {failed, bounded, usedSorry, actionFound, macroFinder, savedMacro}' \subseteq BOOLEAN
    BY <1>10, <1>b DEF Finish, cfgVars
  <2>2. PICK r \in Verdicts : Fail(r)
    BY <1>10, <1>v DEF Finish
  <2> QED
    BY <1>10, <1>t, <2>1, <2>2, TypedFail DEF Finish, TypeOK, cfgVars
<1>11. CASE UNCHANGED vars
  BY <1>11, <1>t DEF vars, cfgVars, Typed, TypeOK, OnIsolate, file, iso, Method, MethodOf
<1>12. CASE MCError
  <2>1. {failed, bounded, usedSorry, actionFound, macroFinder, savedMacro}' \subseteq BOOLEAN
    BY <1>12, <1>b DEF MCError, cfgVars
  <2> QED
    BY <1>12, <1>t, <1>v, <2>1, TypedFail DEF MCError, TypeOK, cfgVars
<1> QED
  BY <1>1, <1>2, <1>3, <1>4, <1>5, <1>6, <1>7, <1>8, <1>9, <1>10, <1>11, <1>12 DEF Next, CheckStep

(* Type correctness of the check of any files; every check has one verdict.  *)
THEOREM TypeCorrect == Spec => []TypeOK
<1>1. Typed => TypeOK
  BY DEF Typed
<1> QED
  BY <1>1, TypedInit, TypedNext, PTL DEF Spec

-----------------------------------------------------------------------------
(* What has been established when nothing has failed: the isolates before    *)
(* the current one, the current one after its check, and the lines of it     *)
(* that had their turn.  Where one action is checked the file is not OK.     *)
Sure == ~failed /\ ~opts.action
Before == \A k \in 1..(i - 1) :
            ToVerify(file.isolates[k]) /\ ~opts.trusted => Proved(file.isolates[k])
ProgressPart ==
  /\ pc # "idle" /\ Sure => Before
  /\ pc = "restore" /\ Sure => Proved(iso)
  /\ pc = "each" => \A l \in Selected \ toCheck : ~Finds({l}, TRUE)

IInv == Typed /\ ProgressPart /\ OkIsProved

(* What is proved and what is to be checked depends on the options only.     *)
LEMMA Static ==
  ASSUME UNCHANGED opts
  PROVE  \A s : (Proved(s)' <=> Proved(s)) /\ (Checked(s)' = Checked(s))
BY DEF Proved, Exempt, InitExempt, Wanted, Chosen, lines, MethodOf, Checked, ToVerify

(* What is exempt, method by method.                                         *)
LEMMA Exempted ==
  ASSUME NEW s
  PROVE  /\ MethodOf(s) = "mc" =>
              /\ Exempt(s) = (IF s.separate \/ opts.lineno # NoLine THEN s.invs ELSE s.sorry) \ s.asserts
              /\ InitExempt(s) <=> s.separate /\ Wanted(s) = {}
         /\ MethodOf(s) = "bmc" =>
              /\ Exempt(s) = IF s.deep \/ s.stops THEN Lines
                             ELSE IF opts.unprovable THEN s.asserts \ s.invs ELSE {}
              /\ InitExempt(s)
         /\ MethodOf(s) = "vmt" => Exempt(s) = Lines /\ InitExempt(s)
BY DEF Exempt, InitExempt

(* The lines of an isolate are lines.                                        *)
LEMMA WantedLines ==
  ASSUME Typed, OnIsolate
  PROVE  /\ iso \in Isolate
         /\ Selected = Wanted(iso) /\ Method = MethodOf(iso)
         /\ Wanted(iso) \subseteq iso.invs \cup iso.asserts
         /\ opts.lineno = NoLine => Wanted(iso) = iso.invs \cup iso.asserts
         /\ Wanted(iso) \subseteq Lines
         /\ Chosen(iso.badInit) \subseteq iso.badInit
<1>1. pc # "idle" /\ i <= Len(file.isolates)
  BY DEF Typed, OnIsolate
<1>2. iso \in Isolate
  BY <1>1, Current DEF Typed
<1> QED
  BY <1>2 DEF Selected, Method, Wanted, Chosen, lines, Isolate

(* A run of the method for all selected lines that finds nothing.            *)
LEMMA AllProved ==
  ASSUME Typed, pc = "all", ~Finds(Selected, opts.lineno # NoLine)
  PROVE  Proved(iso)
<1>1. Method \in {"mc", "vmt", "bmc"}
  BY DEF Typed
<1>2. /\ iso \in Isolate
      /\ Selected = Wanted(iso) /\ Method = MethodOf(iso)
      /\ Wanted(iso) \subseteq iso.invs \cup iso.asserts
      /\ opts.lineno = NoLine => Wanted(iso) = iso.invs \cup iso.asserts
      /\ Wanted(iso) \subseteq Lines
      /\ Chosen(iso.badInit) \subseteq iso.badInit
  BY WantedLines DEF OnIsolate
<1>3. CASE Method = "mc"
  <2>1. Target(Selected, opts.lineno # NoLine)
          = iso.asserts \cup (IF opts.lineno # NoLine THEN {} ELSE iso.invs \ iso.sorry)
    BY <1>3 DEF Target
  <2>2. iso.badInit = {}
    BY <1>3 DEF Finds
  <2>3. Target(Selected, opts.lineno # NoLine) \cap iso.bad = {}
    BY <1>3 DEF Finds
  <2>4. Exempt(iso) = (IF iso.separate \/ opts.lineno # NoLine THEN iso.invs ELSE iso.sorry)
                        \ iso.asserts
    BY <1>2, <1>3, Exempted
  <2>5. Wanted(iso) \cap iso.bad \subseteq Exempt(iso)
    BY <1>2, <2>1, <2>3, <2>4
  <2> QED
    BY <1>2, <2>2, <2>5 DEF Proved
<1>4. CASE Method = "bmc"
  <2>1. Target(Selected, opts.lineno # NoLine)
          = iso.invs \cup (IF opts.unprovable THEN {} ELSE Selected \cap iso.asserts)
    BY <1>4 DEF Target
  <2>2. \/ Target(Selected, opts.lineno # NoLine) \cap iso.bad = {}
        \/ iso.deep \/ iso.stops
    BY <1>4 DEF Finds
  <2>3. /\ Exempt(iso) = IF iso.deep \/ iso.stops THEN Lines
                         ELSE IF opts.unprovable THEN iso.asserts \ iso.invs ELSE {}
        /\ InitExempt(iso)
    BY <1>2, <1>4, Exempted
  <2>4. Wanted(iso) \cap iso.bad \subseteq Exempt(iso)
    BY <1>2, <2>1, <2>2, <2>3
  <2> QED
    BY <2>3, <2>4 DEF Proved
<1>5. CASE Method = "vmt"
  BY <1>2, <1>5, Exempted DEF Proved
<1> QED
  BY <1>1, <1>3, <1>4, <1>5

(* Runs of the method for every selected line that find nothing.             *)
LEMMA EachProved ==
  ASSUME Typed, ProgressPart, pc = "each", toCheck = {}
  PROVE  Proved(iso)
<1>1. \A l \in Selected : ~Finds({l}, TRUE)
  BY DEF ProgressPart
<1>2. Method \in {"mc", "vmt", "bmc"} /\ iso.separate
  BY DEF Typed
<1>3. /\ iso \in Isolate
      /\ Selected = Wanted(iso) /\ Method = MethodOf(iso)
      /\ Wanted(iso) \subseteq iso.invs \cup iso.asserts
      /\ Wanted(iso) \subseteq Lines
      /\ Chosen(iso.badInit) \subseteq iso.badInit
  BY WantedLines DEF OnIsolate
<1>4. CASE Method = "mc"
  <2>1. /\ Exempt(iso) = iso.invs \ iso.asserts
        /\ InitExempt(iso) <=> Wanted(iso) = {}
    BY <1>2, <1>3, <1>4, Exempted
  <2>2. CASE Wanted(iso) = {}
    BY <2>1, <2>2 DEF Proved
  <2>3. CASE Wanted(iso) # {}
    <3>1. iso.asserts \cap iso.bad = {} /\ iso.badInit = {}
      BY <1>1, <1>3, <1>4, <2>3 DEF Finds, Target
    <3> QED
      BY <1>3, <2>1, <3>1 DEF Proved
  <2> QED
    BY <2>2, <2>3
<1>5. CASE Method = "bmc"
  <2>1. /\ Exempt(iso) = IF iso.deep \/ iso.stops THEN Lines
                         ELSE IF opts.unprovable THEN iso.asserts \ iso.invs ELSE {}
        /\ InitExempt(iso)
    BY <1>3, <1>5, Exempted
  <2>2. \A l : Target({l}, TRUE) = iso.invs \cup (IF opts.unprovable THEN {} ELSE {l} \cap iso.asserts)
    BY <1>5 DEF Target
  <2>3. \A l \in Wanted(iso) : (Target({l}, TRUE) \cap iso.bad = {}) \/ iso.deep \/ iso.stops
    BY <1>1, <1>3, <1>5 DEF Finds
  <2>4. Wanted(iso) \cap iso.bad \subseteq Exempt(iso)
    BY <1>3, <2>1, <2>2, <2>3
  <2> QED
    BY <2>1, <2>4 DEF Proved
<1>6. CASE Method = "vmt"
  BY <1>3, <1>6, Exempted DEF Proved
<1> QED
  BY <1>2, <1>4, <1>5, <1>6

(* A check of an isolate that reports all that it finds, which is nothing.   *)
LEMMA ICProved ==
  ASSUME Typed, OnIsolate, Method = "ic", ICFinds = {}
  PROVE  Proved(iso)
<1>1. /\ iso \in Isolate
      /\ Selected = Wanted(iso) /\ Method = MethodOf(iso)
      /\ Wanted(iso) \subseteq Lines
  BY WantedLines
<1>2. /\ Exempt(iso) = IF opts.summary \/ opts.unprovable THEN Lines
                       ELSE iso.sorry \cup iso.skipped
                            \cup (IF opts.noCheckGuarantees THEN iso.asserts \ iso.invs ELSE {})
      /\ InitExempt(iso) <=> opts.summary \/ opts.unprovable \/ Chosen(iso.lastInit) = {}
  BY <1>1 DEF Exempt, InitExempt
<1>3. CASE opts.summary \/ opts.unprovable
  BY <1>1, <1>2, <1>3 DEF Proved
<1>4. CASE ~(opts.summary \/ opts.unprovable)
  <2>1. /\ (Looked \cap iso.bad) \ (iso.sorry \cup iso.skipped) = {}
        /\ Chosen(iso.lastInit) = {} \/ Chosen(iso.badInit) = {}
    BY <1>4 DEF ICFinds
  <2>2. Wanted(iso) \subseteq
          Looked \cup (IF opts.noCheckGuarantees THEN iso.asserts \ iso.invs ELSE {})
    BY DEF Looked, Wanted, Chosen, lines
  <2>3. Wanted(iso) \cap iso.bad \subseteq Exempt(iso)
    BY <1>2, <1>4, <2>1, <2>2
  <2> QED
    BY <1>2, <1>4, <2>1, <2>3 DEF Proved
<1> QED
  BY <1>3, <1>4

(* A verdict is added: if it is OK, every isolate of the file was proved.    *)
LEMMA OkReported ==
  ASSUME TypeOK, pc # "idle" \/ Len(results) < Len(files), OkIsProved, NEW r \in Verdicts, Report(r),
         UNCHANGED <<opts, files>>,
         r = "OK" => \A s \in Checked(file) : Proved(s)
  PROVE  OkIsProved'
<1> SUFFICES ASSUME NEW j \in 1..Len(results'), results'[j].verdict = "OK",
                    NEW s \in Checked(files[j])
             PROVE  Proved(s)
  BY Static DEF OkIsProved
<1>1. /\ Len(results') = Len(results) + 1
      /\ \A k \in 1..Len(results) : results'[k] = results[k]
      /\ results'[Len(results')].verdict = r
  BY Reported
<1>2. Len(results) \in Nat
  BY DEF TypeOK
<1>3. CASE j \in 1..Len(results)
  BY <1>1, <1>3 DEF OkIsProved
<1>4. CASE j = Len(results) + 1
  BY <1>1, <1>4 DEF file
<1> QED
  BY <1>1, <1>2, <1>3, <1>4

(* Any other verdict adds nothing. *)
LEMMA FailProgress ==
  ASSUME Typed, OkIsProved, pc # "idle" \/ Len(results) < Len(files), NEW r \in Verdicts \ {"OK"}, Fail(r),
         UNCHANGED <<opts, files>>
  PROVE  ProgressPart' /\ OkIsProved'
<1>1. OkIsProved'
  BY OkReported DEF Fail, Typed
<1>2. pc' = "idle"
  BY DEF Fail
<1> QED
  BY <1>1, <1>2 DEF ProgressPart

(* The verdicts stay. *)
LEMMA SameResults ==
  ASSUME OkIsProved, UNCHANGED <<opts, files, results>>
  PROVE  OkIsProved'
BY Static DEF OkIsProved

(* The next isolate has its turn. *)
LEMMA Advance ==
  ASSUME Typed, pc # "idle", i <= Len(file.isolates), Sure => Before,
         Sure /\ ToVerify(iso) /\ ~opts.trusted => Proved(iso),
         i' = i + 1, UNCHANGED <<opts, files, results, failed>>
  PROVE  Sure' => Before'
<1> SUFFICES ASSUME Sure', NEW k \in 1..(i' - 1),
                    ToVerify(file'.isolates[k]), ~opts.trusted
             PROVE  Proved(file'.isolates[k])
  BY Static DEF Before
<1>1. file' = file /\ Sure
  BY DEF file, Sure
<1>2. i \in Nat /\ i >= 1
  BY Current DEF Typed
<1>3. CASE k = i
  BY <1>1, <1>3 DEF iso
<1>4. CASE k \in 1..(i - 1)
  BY <1>1, <1>4 DEF Before
<1> QED
  BY <1>2, <1>3, <1>4

(* Every step keeps what was established. *)
LEMMA ProgressNext == IInv /\ [Next]_vars => ProgressPart' /\ OkIsProved'
<1> SUFFICES ASSUME IInv, [Next]_vars PROVE ProgressPart' /\ OkIsProved'
  OBVIOUS
<1>t. Typed /\ TypeOK /\ ProgressPart /\ OkIsProved
  BY DEF IInv, Typed
<1>v. "failed" \in Verdicts \ {"OK"} /\ "incomplete" \in Verdicts \ {"OK"} /\ "error" \in Verdicts \ {"OK"}
      /\ "not exported" \in Verdicts \ {"OK"} /\ "OK, but used 'sorry'" \in Verdicts \ {"OK"}
      /\ "NOT CHECKED" \in Verdicts \ {"OK"} /\ "OK" \in Verdicts
  BY DEF Verdicts
<1>1. CASE Start
  <2>1. CASE Fail("error") \/ Fail("NOT CHECKED")
    BY <1>1, <1>t, <1>v, <2>1, FailProgress DEF Start
  <2>2. CASE pc' = "module" /\ UNCHANGED results
    BY <1>1, <1>t, <2>2, SameResults DEF Start, ProgressPart, Before
  <2> QED
    BY <1>1, <2>1, <2>2 DEF Start, Load, Fail
<1>2. CASE Coverage
  <2>1. CASE Fail("incomplete")
    BY <1>2, <1>t, <1>v, <2>1, FailProgress DEF Coverage
  <2>2. CASE pc' = "next" /\ UNCHANGED results
    <3>1. i = 1 /\ i' = 1
      BY <1>2, <1>t DEF Coverage, Typed
    <3> QED
      BY <1>2, <1>t, <2>2, <3>1, SameResults DEF Coverage, ProgressPart, Before, Sure
  <2> QED
    BY <1>2, <2>1, <2>2 DEF Coverage
<1>3. CASE SkipIsolate
  <2>1. Sure' => Before'
    BY <1>3, <1>t, Advance DEF SkipIsolate, cfgVars, ProgressPart
  <2> QED
    BY <1>3, <1>t, <2>1, SameResults DEF SkipIsolate, ProgressPart, cfgVars
<1>4. CASE Create
  <2>1. CASE ~iso.creates
    BY <1>4, <1>t, <1>v, <2>1, FailProgress DEF Create
  <2>2. CASE iso.creates /\ opts.trusted
    <3>1. Sure' => Before'
      BY <1>4, <1>t, <2>2, Advance DEF Create, cfgVars, ProgressPart
    <3> QED
      BY <1>4, <1>t, <2>2, <3>1, SameResults DEF Create, ProgressPart
  <2>3. CASE iso.creates /\ ~opts.trusted
    <3>1. UNCHANGED <<opts, files, results, failed, i>> /\ pc' = "check"
      BY <1>4, <2>3 DEF Create, cfgVars
    <3>2. file' = file
      BY <3>1 DEF file
    <3> QED
      BY <1>4, <1>t, <3>1, <3>2, SameResults, Static DEF Create, ProgressPart, Before, Sure
  <2> QED
    BY <2>1, <2>2, <2>3
<1>5. CASE CheckIC
  <2>1. CASE Fail("error")
    BY <1>5, <1>t, <1>v, <2>1, FailProgress DEF CheckIC
  <2>2. CASE ~Fail("error")
    <3>1. PICK found \in SUBSET ICFinds :
            /\ failed' = (failed \/ found # {})
            /\ opts.action \/ found = ICFinds
            /\ pc' = "restore" /\ UNCHANGED results
      BY <1>5, <2>2 DEF CheckIC
    <3>2. UNCHANGED <<opts, files, results, i>> /\ pc = "check" /\ Method = "ic"
      BY <1>5, <3>1 DEF CheckIC
    <3>3. file' = file /\ iso' = iso
      BY <3>1, <3>2 DEF file, iso
    <3>4. Sure' => Sure /\ ICFinds = {}
      BY <3>1, <3>2 DEF Sure
    <3>5. Sure' => Proved(iso)
      BY <1>t, <3>2, <3>4, ICProved DEF OnIsolate
    <3>6. Sure' => Before
      BY <1>t, <3>2, <3>4 DEF ProgressPart
    <3> QED
      BY <1>t, <3>1, <3>2, <3>3, <3>5, <3>6, SameResults, Static DEF ProgressPart, Before
  <2> QED
    BY <2>1, <2>2
<1>6. CASE BeginMC
  <2>1. CASE Fail("error") /\ UNCHANGED toCheck
    BY <1>6, <1>t, <1>v, <2>1, FailProgress DEF BeginMC
  <2>2. CASE /\ \/ pc' = "all"
                \/ toCheck' = Selected /\ pc' = "each"
             /\ UNCHANGED results
    <3>1. UNCHANGED <<opts, files, results, i, failed>> /\ pc = "check"
      BY <1>6, <2>2 DEF BeginMC
    <3>2. file' = file /\ iso' = iso
      BY <3>1 DEF file, iso
    <3>3. Selected' = Selected
      BY <3>1, <3>2 DEF Selected, Wanted, Chosen, lines
    <3> QED
      BY <1>t, <2>2, <3>1, <3>2, <3>3, SameResults, Static DEF ProgressPart, Before, Sure
  <2> QED
    BY <1>6, <2>1, <2>2 DEF BeginMC
<1>7. CASE MCAll
  <2>1. CASE Finds(Selected, opts.lineno # NoLine)
    BY <1>7, <1>t, <1>v, <2>1, FailProgress DEF MCAll
  <2>2. CASE ~Finds(Selected, opts.lineno # NoLine)
    <3>1. UNCHANGED <<opts, files, results, i, failed>> /\ pc' = "restore" /\ pc = "all"
      BY <1>7, <2>2 DEF MCAll, cfgVars
    <3>2. file' = file /\ iso' = iso
      BY <3>1 DEF file, iso
    <3>3. Proved(iso)
      BY <1>t, <2>2, <3>1, AllProved
    <3> QED
      BY <1>t, <3>1, <3>2, <3>3, SameResults, Static DEF ProgressPart, Before, Sure
  <2> QED
    BY <2>1, <2>2
<1>8. CASE MCEach
  <2>0. pc = "each" /\ UNCHANGED <<opts, files, i, failed>>
    BY <1>8 DEF MCEach, cfgVars
  <2>1. CASE Fail("failed")
    BY <1>t, <1>v, <2>0, <2>1, FailProgress
  <2>2. CASE toCheck = {} /\ pc' = "restore" /\ UNCHANGED results
    <3>1. file' = file /\ iso' = iso
      BY <2>0, <2>2 DEF file, iso
    <3>2. Proved(iso)
      BY <1>t, <2>0, <2>2, EachProved
    <3> QED
      BY <1>t, <2>0, <2>2, <3>1, <3>2, SameResults, Static DEF ProgressPart, Before, Sure
  <2>3. ASSUME NEW l \in toCheck, toCheck' = toCheck \ {l}, ~Finds({l}, TRUE),
               UNCHANGED <<pc, results>>
        PROVE  ProgressPart' /\ OkIsProved'
    <3>1. file' = file /\ iso' = iso
      BY <2>0, <2>3 DEF file, iso
    <3>2. Selected' = Selected /\ Method' = Method
      BY <2>0, <3>1 DEF Selected, Wanted, Chosen, lines, Method, MethodOf
    <3>3. \A k : Finds({k}, TRUE)' <=> Finds({k}, TRUE)
      BY <3>1, <3>2 DEF Finds, Target
    <3>4. \A k \in Selected \ toCheck' : ~Finds({k}, TRUE)
      BY <1>t, <2>0, <2>3 DEF ProgressPart
    <3> QED
      BY <1>t, <2>0, <2>3, <3>1, <3>2, <3>3, <3>4, SameResults, Static DEF ProgressPart, Before, Sure
  <2> QED
    BY <1>8, <2>1, <2>2, <2>3 DEF MCEach
<1>9. CASE Restore
  <2>1. Sure' => Before'
    BY <1>9, <1>t, Advance DEF Restore, cfgVars, ProgressPart, Typed, OnIsolate
  <2> QED
    BY <1>9, <1>t, <2>1, SameResults DEF Restore, ProgressPart
<1>10. CASE Finish
  <2>1. CASE ~Sure
    <3>1. PICK r \in Verdicts \ {"OK"} : Fail(r)
      BY <1>10, <1>t, <1>v, <2>1 DEF Finish, Sure, Typed
    <3> QED
      BY <1>10, <1>t, <3>1, FailProgress DEF Finish
  <2>2. CASE Sure
    <3>1. PICK r \in Verdicts : Fail(r)
      BY <1>10, <1>v DEF Finish
    <3>2. i > Len(file.isolates) /\ pc # "idle" /\ UNCHANGED <<opts, files>>
      BY <1>10 DEF Finish
    <3>3. i \in Nat /\ Len(file.isolates) \in Nat
      BY <1>t, <3>2, Current
    <3>4. \A s \in Checked(file) : Proved(s)
      BY <1>t, <2>2, <3>2, <3>3 DEF ProgressPart, Before, Sure, Checked
    <3>5. OkIsProved'
      BY <1>t, <3>1, <3>2, <3>4, OkReported DEF Fail
    <3> QED
      BY <3>1, <3>5 DEF Fail, ProgressPart
  <2> QED
    BY <2>1, <2>2
<1>12. CASE MCError
  BY <1>12, <1>t, <1>v, FailProgress DEF MCError
<1>11. CASE UNCHANGED vars
  <2>1. UNCHANGED <<opts, files, results, i, failed, pc, toCheck>>
    BY <1>11 DEF vars, cfgVars
  <2>2. file' = file /\ iso' = iso
    BY <2>1 DEF file, iso
  <2>3. Selected' = Selected /\ Method' = Method
    BY <2>1, <2>2 DEF Selected, Wanted, Chosen, lines, Method, MethodOf
  <2>4. \A k : Finds({k}, TRUE)' <=> Finds({k}, TRUE)
    BY <2>2, <2>3 DEF Finds, Target
  <2> QED
    BY <1>t, <2>1, <2>2, <2>3, <2>4, SameResults, Static DEF ProgressPart, Before, Sure
<1> QED
  BY <1>1, <1>2, <1>3, <1>4, <1>5, <1>6, <1>7, <1>8, <1>9, <1>10, <1>11, <1>12 DEF Next, CheckStep

(* For all files, isolates and options: an OK is a proof, up to the named    *)
(* exceptions.                                                               *)
THEOREM OkMeansProved == Spec => []OkIsProved
<1>1. Init => IInv
  BY TypedInit DEF Init, IInv, ProgressPart, OkIsProved
<1>2. IInv /\ [Next]_vars => IInv'
  BY TypedNext, ProgressNext DEF IInv
<1>3. IInv => OkIsProved
  BY DEF IInv
<1> QED
  BY <1>1, <1>2, <1>3, PTL DEF Spec

-----------------------------------------------------------------------------
(* SomeBounded is set exactly when one of the isolates so far was bounded.   *)
BoundedIsolate(k) == /\ ToVerify(file.isolates[k]) /\ ~opts.trusted
                     /\ MethodOf(file.isolates[k]) = "bmc"
BoundedPart ==
  /\ pc = "module" => ~bounded
  /\ pc \in {"next", "check"} => (bounded <=> \E k \in 1..(i - 1) : BoundedIsolate(k))
  /\ pc \in {"all", "each", "restore"} => (bounded <=> \E k \in 1..i : BoundedIsolate(k))

BInv == Typed /\ BoundedPart /\ BoundedExact

(* A verdict is added to those that say whether the file was bounded.        *)
LEMMA BoundedReported ==
  ASSUME TypeOK, pc # "idle" \/ Len(results) < Len(files), BoundedExact, NEW r \in Verdicts, Report(r),
         UNCHANGED <<opts, files>>,
         r = "OK" => (bounded <=> \E s \in Checked(file) : MethodOf(s) = "bmc")
  PROVE  BoundedExact'
<1>1. /\ Len(results') = Len(results) + 1
      /\ \A k \in 1..Len(results) : results'[k] = results[k]
      /\ results'[Len(results')].verdict = r
      /\ r = "OK" => results'[Len(results')].bounded = bounded
  BY Reported
<1>2. Len(results) \in Nat
  BY DEF TypeOK
<1>3. \A s : MethodOf(s)' = MethodOf(s) /\ Checked(s)' = Checked(s)
  BY Static DEF MethodOf
<1> SUFFICES ASSUME NEW j \in 1..Len(results'), results'[j].verdict = "OK"
             PROVE  results'[j].bounded <=> \E s \in Checked(files[j]) : MethodOf(s) = "bmc"
  BY <1>3 DEF BoundedExact
<1>4. CASE j \in 1..Len(results)
  BY <1>1, <1>4 DEF BoundedExact
<1>5. CASE j = Len(results) + 1
  BY <1>1, <1>5 DEF file
<1> QED
  BY <1>1, <1>2, <1>4, <1>5

(* The verdicts stay. *)
LEMMA BoundedSame ==
  ASSUME BoundedExact, UNCHANGED <<opts, files, results>>
  PROVE  BoundedExact'
<1>1. \A s : MethodOf(s)' = MethodOf(s) /\ Checked(s)' = Checked(s)
  BY Static DEF MethodOf
<1> QED
  BY <1>1 DEF BoundedExact

(* Any other verdict says nothing of bounds. *)
LEMMA BoundedFail ==
  ASSUME Typed, BoundedExact, pc # "idle" \/ Len(results) < Len(files), NEW r \in Verdicts \ {"OK"}, Fail(r),
         UNCHANGED <<opts, files>>
  PROVE  BoundedPart' /\ BoundedExact'
<1>1. BoundedExact'
  BY BoundedReported DEF Fail, Typed
<1> QED
  BY <1>1 DEF BoundedPart, Fail

(* Every step keeps SomeBounded exact. *)
LEMMA BoundedNext == BInv /\ [Next]_vars => BoundedPart' /\ BoundedExact'
<1> SUFFICES ASSUME BInv, [Next]_vars PROVE BoundedPart' /\ BoundedExact'
  OBVIOUS
<1>t. Typed /\ TypeOK /\ BoundedPart /\ BoundedExact
  BY DEF BInv, Typed
<1>v. "failed" \in Verdicts \ {"OK"} /\ "incomplete" \in Verdicts \ {"OK"} /\ "error" \in Verdicts \ {"OK"}
      /\ "not exported" \in Verdicts \ {"OK"} /\ "OK, but used 'sorry'" \in Verdicts \ {"OK"}
      /\ "NOT CHECKED" \in Verdicts \ {"OK"} /\ "OK" \in Verdicts
  BY DEF Verdicts
<1>b. ASSUME UNCHANGED <<opts, files, results>>
      PROVE  file' = file /\ \A k : BoundedIsolate(k)' <=> BoundedIsolate(k)
  BY <1>b DEF file, BoundedIsolate, MethodOf
<1>i. pc # "idle" => i \in Nat /\ i >= 1 /\ Len(file.isolates) \in Nat
  BY <1>t, Current
<1>1. CASE Start
  <2>1. CASE Fail("error") \/ Fail("NOT CHECKED")
    BY <1>1, <1>t, <1>v, <2>1, BoundedFail DEF Start
  <2>2. CASE pc' = "module" /\ UNCHANGED results
    BY <1>1, <1>t, <2>2, BoundedSame DEF Start, BoundedPart
  <2> QED
    BY <1>1, <2>1, <2>2 DEF Start, Load, Fail
<1>2. CASE Coverage
  <2>1. CASE Fail("incomplete")
    BY <1>2, <1>t, <1>v, <2>1, BoundedFail DEF Coverage
  <2>2. CASE pc' = "next" /\ UNCHANGED results
    <3>1. i' = 1 /\ ~bounded'
      BY <1>2, <1>t DEF Coverage, Typed, BoundedPart, cfgVars
    <3> QED
      BY <1>2, <1>t, <2>2, <3>1, BoundedSame DEF Coverage, BoundedPart
  <2> QED
    BY <1>2, <2>1, <2>2 DEF Coverage
<1>3. CASE SkipIsolate
  <2>1. ~BoundedIsolate(i)
    BY <1>3 DEF SkipIsolate, BoundedIsolate, iso
  <2>2. UNCHANGED <<opts, files, results, bounded, pc>> /\ i' = i + 1 /\ pc = "next"
    BY <1>3 DEF SkipIsolate, cfgVars
  <2>3. (i' - 1) = i
    BY <1>i, <2>2
  <2>4. (\E k \in 1..i : BoundedIsolate(k)) <=> (\E k \in 1..(i - 1) : BoundedIsolate(k))
    BY <1>i, <2>1, <2>2
  <2> QED
    BY <1>t, <1>b, <2>2, <2>3, <2>4, BoundedSame DEF BoundedPart
<1>4. CASE Create
  <2>1. CASE ~iso.creates
    BY <1>4, <1>t, <1>v, <2>1, BoundedFail DEF Create
  <2>2. CASE iso.creates /\ opts.trusted
    <3>1. \A k : ~BoundedIsolate(k)
      BY <2>2 DEF BoundedIsolate
    <3>2. UNCHANGED <<opts, files, results, bounded, pc>> /\ pc = "next"
      BY <1>4, <2>2 DEF Create, cfgVars
    <3> QED
      BY <1>t, <1>b, <3>1, <3>2, BoundedSame DEF BoundedPart
  <2>3. CASE iso.creates /\ ~opts.trusted
    <3>1. UNCHANGED <<opts, files, results, bounded, i>> /\ pc' = "check" /\ pc = "next"
      BY <1>4, <2>3 DEF Create, cfgVars
    <3> QED
      BY <1>t, <1>b, <3>1, BoundedSame DEF BoundedPart
  <2> QED
    BY <2>1, <2>2, <2>3
<1>5. CASE CheckIC
  <2>1. CASE Fail("error")
    BY <1>5, <1>t, <1>v, <2>1, BoundedFail DEF CheckIC
  <2>2. CASE pc' = "restore" /\ UNCHANGED results
    <3>1. UNCHANGED <<opts, files, results, bounded, i>> /\ pc = "check"
      BY <1>5, <2>2 DEF CheckIC
    <3>2. ~BoundedIsolate(i)
      BY <1>5 DEF CheckIC, BoundedIsolate, Method, iso
    <3>3. (\E k \in 1..i : BoundedIsolate(k)) <=> (\E k \in 1..(i - 1) : BoundedIsolate(k))
      BY <1>i, <3>1, <3>2
    <3> QED
      BY <1>t, <1>b, <2>2, <3>1, <3>3, BoundedSame DEF BoundedPart
  <2> QED
    BY <1>5, <2>1, <2>2 DEF CheckIC
<1>6. CASE BeginMC
  <2>1. CASE Fail("error") /\ UNCHANGED toCheck
    BY <1>6, <1>t, <1>v, <2>1, BoundedFail DEF BeginMC
  <2>2. CASE Method # "bmc bad" /\ pc' \in {"all", "each"} /\ UNCHANGED results
    <3>1. UNCHANGED <<opts, files, results, i>> /\ pc = "check"
      BY <1>6, <2>2 DEF BeginMC
    <3>2. BoundedIsolate(i) <=> Method = "bmc"
      BY <1>t, <3>1 DEF BoundedIsolate, Method, iso, Typed, OnIsolate
    <3>3. bounded' <=> bounded \/ Method = "bmc"
      BY <1>6, <2>2 DEF BeginMC
    <3>4. (\E k \in 1..i : BoundedIsolate(k))
            <=> (\E k \in 1..(i - 1) : BoundedIsolate(k)) \/ BoundedIsolate(i)
      BY <1>i, <3>1
    <3> QED
      BY <1>t, <1>b, <2>2, <3>1, <3>2, <3>3, <3>4, BoundedSame DEF BoundedPart
  <2> QED
    BY <1>6, <2>1, <2>2 DEF BeginMC
<1>7. CASE MCAll
  <2>1. CASE Fail("failed")
    BY <1>7, <1>t, <1>v, <2>1, BoundedFail DEF MCAll
  <2>2. CASE pc' = "restore" /\ UNCHANGED results
    BY <1>7, <1>t, <1>b, <2>2, BoundedSame DEF MCAll, cfgVars, BoundedPart
  <2> QED
    BY <1>7, <2>1, <2>2 DEF MCAll
<1>8. CASE MCEach
  <2>1. CASE Fail("failed")
    BY <1>8, <1>t, <1>v, <2>1, BoundedFail DEF MCEach
  <2>2. CASE pc' \in {"each", "restore"} /\ UNCHANGED results
    BY <1>8, <1>t, <1>b, <2>2, BoundedSame DEF MCEach, cfgVars, BoundedPart
  <2> QED
    BY <1>8, <2>1, <2>2 DEF MCEach
<1>9. CASE Restore
  <2>1. UNCHANGED <<opts, files, results, bounded>> /\ pc' = "next" /\ pc = "restore" /\ i' = i + 1
    BY <1>9 DEF Restore, cfgVars
  <2>2. i' - 1 = i
    BY <1>i, <2>1
  <2> QED
    BY <1>t, <1>b, <2>1, <2>2, BoundedSame DEF BoundedPart
<1>10. CASE Finish
  <2>1. PICK r \in Verdicts : Fail(r)
    BY <1>10, <1>v DEF Finish
  <2>2. i > Len(file.isolates) /\ pc = "next" /\ UNCHANGED <<opts, files>>
    BY <1>10 DEF Finish
  <2>3. i \in 1..(Len(file.isolates) + 1)
    BY <1>t, <2>2 DEF TypeOK
  <2>4. bounded <=> \E s \in Checked(file) : MethodOf(s) = "bmc"
    BY <1>t, <1>i, <2>2, <2>3 DEF BoundedPart, BoundedIsolate, Checked
  <2>5. BoundedExact'
    BY <1>t, <2>1, <2>2, <2>4, BoundedReported DEF Fail
  <2> QED
    BY <2>1, <2>5 DEF Fail, BoundedPart
<1>12. CASE MCError
  BY <1>12, <1>t, <1>v, BoundedFail DEF MCError
<1>11. CASE UNCHANGED vars
  BY <1>11, <1>t, <1>b, BoundedSame DEF vars, cfgVars, BoundedPart
<1> QED
  BY <1>1, <1>2, <1>3, <1>4, <1>5, <1>6, <1>7, <1>8, <1>9, <1>10, <1>11, <1>12 DEF Next, CheckStep

(* BOUNDED is printed for a file that is OK if and only if one of its own    *)
(* isolates was only checked up to a bound, whatever was checked before.     *)
THEOREM BoundedIsExact == Spec => []BoundedExact
<1>1. Init => BInv
  BY TypedInit DEF Init, BInv, BoundedPart, BoundedExact
<1>2. BInv /\ [Next]_vars => BInv'
  BY TypedNext, BoundedNext DEF BInv
<1>3. BInv => BoundedExact
  BY DEF BInv
<1> QED
  BY <1>1, <1>2, <1>3, PTL DEF Spec

-----------------------------------------------------------------------------
(* The macro finder has the value of the option between isolates, and what   *)
(* was saved brings it back, as long as no check ended in the middle of one. *)
AllWell == \A j \in 1..Len(results) : results[j].verdict \in {"OK", "incomplete", "NOT CHECKED"}
MacroPart ==
  ~opts.trusted /\ AllWell =>
    /\ ~OnIsolate => (macroFinder <=> opts.macro)
    /\ OnIsolate => /\ macroFinder <=> opts.macro /\ ~iso.macro
                    /\ savedMacro <=> opts.macro /\ iso.macro

MInv == Typed /\ MacroPart

(* Verdicts are never taken back. *)
LEMMA AllWellBefore ==
  ASSUME TypeOK, pc # "idle" \/ Len(results) < Len(files), NEW r \in Verdicts,
         Report(r), AllWell'
  PROVE  AllWell /\ r \in {"OK", "incomplete", "NOT CHECKED"}
<1>1. /\ Len(results') = Len(results) + 1
      /\ \A k \in 1..Len(results) : results'[k] = results[k]
      /\ results'[Len(results')].verdict = r
  BY Reported
<1>2. Len(results) \in Nat
  BY DEF TypeOK
<1> DEFINE Well == {"OK", "incomplete", "NOT CHECKED"}
<1>3. \A j \in 1..Len(results') : results'[j].verdict \in Well
  BY DEF AllWell
<1> HIDE DEF Well
<1>4. r \in Well
  BY <1>1, <1>2, <1>3
<1>5. ASSUME NEW j \in 1..Len(results)
      PROVE  results[j].verdict \in Well
  <2>1. j \in 1..Len(results') /\ results'[j] = results[j]
    BY <1>1, <1>2
  <2> QED
    BY <1>3, <2>1
<1> QED
  BY <1>4, <1>5 DEF AllWell, Well

(* Every step keeps the macro finder right. *)
LEMMA MacroNext == MInv /\ [Next]_vars => MacroPart'
<1> SUFFICES ASSUME MInv, [Next]_vars, ~opts'.trusted, AllWell'
             PROVE  /\ ~OnIsolate' => (macroFinder' <=> opts'.macro)
                    /\ OnIsolate' => /\ macroFinder' <=> opts'.macro /\ ~iso'.macro
                                     /\ savedMacro' <=> opts'.macro /\ iso'.macro
  BY DEF MacroPart
<1>t. Typed /\ TypeOK /\ MacroPart
  BY DEF MInv, Typed
<1>v. "failed" \in Verdicts /\ "incomplete" \in Verdicts /\ "error" \in Verdicts
       /\ "not exported" \in Verdicts /\ "NOT CHECKED" \in Verdicts
      /\ "OK" \in Verdicts /\ "OK, but used 'sorry'" \in Verdicts
  BY DEF Verdicts
<1>s. UNCHANGED results => AllWell
  BY DEF AllWell
<1>f. ASSUME NEW r \in Verdicts, Fail(r), pc # "idle" \/ Len(results) < Len(files)
      PROVE  AllWell /\ r \in {"OK", "incomplete", "NOT CHECKED"} /\ ~OnIsolate'
  BY <1>f, <1>t, AllWellBefore DEF Fail, OnIsolate
<1>1. CASE Start
  <2>1. AllWell /\ ~OnIsolate' /\ ~OnIsolate
    BY <1>1, <1>v, <1>s, <1>f DEF Start, Load, Fail, OnIsolate
  <2> QED
    BY <1>1, <1>t, <2>1 DEF Start, MacroPart
<1>2. CASE Coverage
  <2>1. AllWell /\ ~OnIsolate' /\ ~OnIsolate
    BY <1>2, <1>v, <1>s, <1>f DEF Coverage, OnIsolate
  <2> QED
    BY <1>2, <1>t, <2>1 DEF Coverage, MacroPart
<1>3. CASE SkipIsolate
  BY <1>3, <1>t, <1>s DEF SkipIsolate, MacroPart, OnIsolate
<1>4. CASE Create
  <2>1. iso.creates /\ ~opts.trusted
    BY <1>4, <1>v, <1>f DEF Create
  <2>2. UNCHANGED <<opts, files, results, i>> /\ pc' = "check" /\ pc = "next"
    BY <1>4, <2>1 DEF Create
  <2>3. iso' = iso
    BY <2>2 DEF iso, file
  <2>4. macroFinder <=> opts.macro
    BY <1>t, <1>s, <2>1, <2>2 DEF MacroPart, OnIsolate
  <2> QED
    BY <1>4, <2>2, <2>3, <2>4 DEF Create, OnIsolate
<1>6. CASE CheckIC \/ BeginMC \/ MCAll \/ MCEach \/ MCError
  <2>1. UNCHANGED <<opts, files, i, macroFinder, savedMacro>> /\ OnIsolate
    BY <1>6 DEF CheckIC, BeginMC, MCAll, MCEach, MCError, OnIsolate, cfgVars
  <2>2. ~Fail("failed") /\ ~Fail("error")
    BY <1>v, <1>f, <2>1 DEF OnIsolate
  <2>3. UNCHANGED results /\ OnIsolate'
    BY <1>6, <2>2 DEF CheckIC, BeginMC, MCAll, MCEach, MCError, OnIsolate
  <2>4. iso' = iso
    BY <2>1, <2>3 DEF iso, file
  <2> QED
    BY <1>t, <1>s, <2>1, <2>3, <2>4 DEF MacroPart
<1>7. CASE Restore
  <2>1. UNCHANGED <<opts, results>> /\ OnIsolate /\ ~OnIsolate'
    BY <1>7 DEF Restore, OnIsolate
  <2>2. macroFinder' <=> macroFinder \/ (iso.macro /\ savedMacro)
    BY <1>7 DEF Restore
  <2> QED
    BY <1>t, <1>s, <2>1, <2>2 DEF MacroPart
<1>8. CASE Finish
  <2>1. PICK r \in Verdicts : Fail(r)
    BY <1>8, <1>v DEF Finish
  <2>2. UNCHANGED <<opts, macroFinder>> /\ ~OnIsolate /\ pc # "idle"
    BY <1>8 DEF Finish, OnIsolate
  <2> QED
    BY <1>t, <1>f, <2>1, <2>2 DEF MacroPart
<1>9. CASE UNCHANGED vars
  <2>1. UNCHANGED <<opts, files, results, i, macroFinder, savedMacro, pc>>
    BY <1>9 DEF vars
  <2>2. iso' = iso /\ (OnIsolate' <=> OnIsolate)
    BY <2>1 DEF iso, file, OnIsolate
  <2> QED
    BY <1>t, <1>s, <2>1, <2>2 DEF MacroPart
<1> QED
  BY <1>1, <1>2, <1>3, <1>4, <1>6, <1>7, <1>8, <1>9 DEF Next, CheckStep

(* The macro finder is off exactly while an isolate is checked that asks for *)
(* it, until a check ends in the middle of one.                              *)
THEOREM MacroFinderScoped == Spec => []MacroFinderScope
<1>1. Init => MInv
  BY TypedInit DEF Init, MInv, MacroPart, OnIsolate
<1>2. MInv /\ [Next]_vars => MInv'
  BY TypedNext, MacroNext DEF MInv
<1>3. MInv => MacroFinderScope
  BY DEF MInv, MacroPart, MacroFinderScope, OnIsolate, AllWell
<1> QED
  BY <1>1, <1>2, <1>3, PTL DEF Spec

=============================================================================
