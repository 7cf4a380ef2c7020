---------------------------- MODULE ModuleCheck -----------------------------
(***************************************************************************)
(* CheckModule and its caller startLoaded (check_isolate_check.go,         *)
(* check.go): a file is checked isolate by isolate, each with the method   *)
(* its attributes name, on a copy of the module.  The copy has a copy of   *)
(* the configuration; what the check of the isolate leaves there is lost,  *)
(* but for the failures, which are added up.  The configuration outlives   *)
(* the check: its owner may use it for the next file.                      *)
(*                                                                         *)
(* The check of one isolate is a single step that finds what is wrong with *)
(* it, but for what the method does not look at; IsolateCheck is the       *)
(* detail of it for the default method.  Every query of a bounded check is *)
(* taken to get its answer; what comes of those that do not is in          *)
(* CheckSession.  The file of unchecked properties is not modelled.        *)
(***************************************************************************)
EXTENDS Naturals, Sequences

CONSTANTS Lines,      \* assertions and invariants, named by their lines
          Jobs,       \* files checked one after the other with one configuration
          NoLine,
          NoneIvy     \* the line that asks for no check, none.ivy:0

Isolate == [verified : BOOLEAN,          \* it has something to verify
            trusted  : BOOLEAN,
            macro    : BOOLEAN,          \* has the attribute macro_finder
            method   : {"ic", "mc", "vmt", "bmc", "bmc bad"},
            separate : BOOLEAN,
            creates  : BOOLEAN,          \* CreateIsolate succeeds
            nonTemporal : BOOLEAN,       \* has a property that is not temporal
            invs     : SUBSET Lines,     \* invariants
            asserts  : SUBSET Lines,
            bad      : SUBSET Lines,     \* those that do not hold
            badInit  : SUBSET Lines,     \* where an initializer asserts in vain
            lastInit : SUBSET Lines,     \* assertions of the last initializer
            deep     : BOOLEAN,          \* nothing fails within the bound,
            stops    : BOOLEAN,          \* or before Execute does
            sorry    : SUBSET Lines,     \* goals dropped by a proof
            skipped  : SUBSET Lines]     \* no translation, or no execution

(* Isolates in order of their names; complete: every assertion of the file   *)
(* is checked in some isolate.                                               *)
File == [isolates : Seq(Isolate), complete : BOOLEAN, loads : BOOLEAN]

OptionsType == [coverage : BOOLEAN, trusted : BOOLEAN, mc : BOOLEAN,
                action : BOOLEAN, lineno : Lines \cup {NoLine, NoneIvy},
                macro  : BOOLEAN, summary : BOOLEAN, unprovable : BOOLEAN,
                noCheckGuarantees : BOOLEAN]

Job == [opts : OptionsType, files : Seq(File)]

ASSUME JobsAssumption == Jobs \subseteq Job

VARIABLES opts, files,
          i,          \* the isolate whose turn it is
          pc,
          failed,     \* Cfg.Failures > 0, Cfg.SomeBounded, Cfg.UsedSorry,
          bounded,    \* Cfg.CheckedActionFound, SolverOpts.MacroFinder
          usedSorry,
          actionFound,
          macroFinder,
          savedMacro, \* saveMacroFinder
          toCheck,    \* MCIsolate: the lines to be checked one by one
          results     \* what was reported for the files so far

cfgVars == <<failed, bounded, usedSorry, actionFound>>
vars == <<opts, files, i, pc, cfgVars, macroFinder, savedMacro, toCheck, results>>

Init ==
  /\ \E job \in Jobs : opts = job.opts /\ files = job.files
  /\ i = 1
  /\ pc = "idle"
  /\ failed = FALSE
  /\ bounded = FALSE
  /\ usedSorry = FALSE
  /\ actionFound = FALSE
  /\ macroFinder = opts.macro
  /\ savedMacro = FALSE
  /\ toCheck = {}
  /\ results = << >>

file == files[Len(results) + 1]
iso == file.isolates[i]

(* What the caller of the check is told; BOUNDED is printed before an OK.     *)
Report(r) ==
  results' = Append(results, [verdict |-> r,
                              bounded |-> bounded /\ r \in {"OK", "OK, but used 'sorry'"}])

(* CheckModule returns an error *)
Fail(e) == Report(e) /\ pc' = "idle"

-----------------------------------------------------------------------------
(* The file does not load, or there is nothing to do, or its isolates are    *)
(* checked one after the other.                                              *)
Load ==
  IF ~file.loads THEN Report("error") /\ UNCHANGED pc
  ELSE IF opts.lineno = NoneIvy THEN Report("NOT CHECKED") /\ UNCHANGED pc
  ELSE pc' = "module" /\ UNCHANGED results

\* Faulty variant of Start: SomeBounded is left as it is.
StartKeepsBounded ==
  /\ pc = "idle" /\ Len(results) < Len(files)
  /\ i' = 1
  /\ Load
  /\ UNCHANGED <<opts, files, cfgVars, macroFinder, savedMacro, toCheck>>

(* startLoaded: of what earlier checks left in the configuration only        *)
(* SomeBounded is reset.                                                     *)
Start ==
  /\ pc = "idle" /\ Len(results) < Len(files)
  /\ i' = 1
  /\ bounded' = FALSE
  /\ Load
  /\ UNCHANGED <<opts, files, failed, usedSorry, actionFound, macroFinder, savedMacro, toCheck>>

Coverage ==
  /\ pc = "module"
  /\ IF opts.coverage /\ ~file.complete
     THEN Fail("incomplete")
     ELSE pc' = "next" /\ UNCHANGED results
  /\ UNCHANGED <<opts, files, i, cfgVars, macroFinder, savedMacro, toCheck>>

ToVerify(s) == s.verified /\ ~s.trusted

SkipIsolate ==
  /\ pc = "next" /\ i <= Len(file.isolates)
  /\ ~ToVerify(iso)
  /\ i' = i + 1
  /\ UNCHANGED <<opts, files, pc, cfgVars, macroFinder, savedMacro, toCheck, results>>

(* The macro finder is turned off, the isolate is created on a copy; with    *)
(* the option trusted that is all.                                           *)
Create ==
  /\ pc = "next" /\ i <= Len(file.isolates)
  /\ ToVerify(iso)
  /\ savedMacro' = (iso.macro /\ macroFinder)
  /\ macroFinder' = (macroFinder /\ ~iso.macro)
  /\ IF ~iso.creates
     THEN Fail("error") /\ UNCHANGED i
     ELSE /\ IF opts.trusted THEN i' = i + 1 /\ UNCHANGED pc
                             ELSE pc' = "check" /\ UNCHANGED i
          /\ UNCHANGED results
  /\ UNCHANGED <<opts, files, cfgVars, toCheck>>

lines(s) == s.invs \cup s.asserts
Chosen(ls) == IF opts.lineno = NoLine THEN ls ELSE ls \cap {opts.lineno}
Wanted(s) == Chosen(lines(s))
MethodOf(s) == IF opts.mc THEN "mc" ELSE s.method
Selected == Wanted(iso)
Method == MethodOf(iso)

(* What CheckIsolate finds; it has nothing to look for in a summary, and     *)
(* nothing of what the parser keeps is unprovable.  One assertion of the     *)
(* last initializer makes it look for those of all of them.                  *)
Looked ==
  Chosen(iso.invs \cup (IF opts.noCheckGuarantees THEN {} ELSE iso.asserts))
ICFinds ==
  IF opts.summary \/ opts.unprovable THEN {}
  ELSE ((Looked \cap iso.bad) \ (iso.sorry \cup iso.skipped))
       \cup (IF Chosen(iso.lastInit) = {} THEN {} ELSE Chosen(iso.badInit))

\* Faulty variant of CheckIC: the failures are left in the copy.
CheckICLosesFailures ==
  /\ pc = "check" /\ Method = "ic"
  /\ pc' = "restore"
  /\ UNCHANGED <<opts, files, i, cfgVars, macroFinder, savedMacro, toCheck, results>>

(* CheckIsolate: failures are added up, those before an error too; that an   *)
(* action was found and that a proof used sorry is recorded in the copy.     *)
CheckIC ==
  /\ pc = "check" /\ Method = "ic"
  /\ \E found \in SUBSET ICFinds :
       /\ failed' = (failed \/ found # {})
       /\ \/ Fail("error")
          \/ /\ opts.action \/ found = ICFinds
             /\ pc' = "restore" /\ UNCHANGED results
  /\ UNCHANGED <<opts, files, i, bounded, usedSorry, actionFound, macroFinder,
                 savedMacro, toCheck>>

(* MCIsolate: the method is run once, or for each selected line.              *)
BeginMC ==
  /\ pc = "check" /\ Method # "ic"
  /\ bounded' = (bounded \/ Method \in {"bmc", "bmc bad"})
  /\ \/ /\ \/ Method = "bmc bad"
           \/ iso.nonTemporal
           \/ iso.separate /\ opts.lineno # NoLine /\ Selected = {}
        /\ Fail("error")
        /\ UNCHANGED toCheck
     \/ /\ Method # "bmc bad" /\ ~iso.nonTemporal
        /\ \/ ~iso.separate /\ toCheck' = {} /\ pc' = "all"
           \/ /\ iso.separate /\ (opts.lineno = NoLine \/ Selected # {})
              /\ toCheck' = Selected /\ pc' = "each"
        /\ UNCHANGED results
  /\ UNCHANGED <<opts, files, i, failed, usedSorry, actionFound, macroFinder, savedMacro>>

(* What a run of the method looks at when the lines ls are selected, if line  *)
(* is set.  ToAiger asks for an invariant's line in another format than the   *)
(* one it is set in, and for that of an assertion not at all; vmt writes a    *)
(* file for another program to check; bmc takes all invariants, and nothing   *)
(* of the initializers.                                                       *)
Target(ls, line) ==
  CASE Method = "mc" -> iso.asserts \cup (IF line THEN {} ELSE iso.invs \ iso.sorry)
    [] Method = "bmc" -> iso.invs \cup (IF opts.unprovable THEN {} ELSE ls \cap iso.asserts)
    [] OTHER -> {}

(* A step that bmc cannot execute ends it, with the result that nothing was   *)
(* found.                                                                     *)
Finds(ls, line) ==
  \/ Target(ls, line) \cap iso.bad # {} /\ ~(Method = "bmc" /\ (iso.deep \/ iso.stops))
  \/ Method = "mc" /\ iso.badInit # {}

\* Faulty variant of MCAll: the failure is printed but not returned.
MCAllGoesOn ==
  /\ pc = "all"
  /\ pc' = "restore"
  /\ IF Finds(Selected, opts.lineno # NoLine) THEN Report("failed") ELSE UNCHANGED results
  /\ UNCHANGED <<opts, files, i, cfgVars, macroFinder, savedMacro, toCheck>>

MCAll ==
  /\ pc = "all"
  /\ IF Finds(Selected, opts.lineno # NoLine)
     THEN Fail("failed")
     ELSE pc' = "restore" /\ UNCHANGED results
  /\ UNCHANGED <<opts, files, i, cfgVars, macroFinder, savedMacro, toCheck>>

MCEach ==
  /\ pc = "each"
  /\ \/ /\ toCheck = {}
        /\ pc' = "restore" /\ UNCHANGED <<toCheck, results>>
     \/ \E l \in toCheck :
          /\ toCheck' = toCheck \ {l}
          /\ IF Finds({l}, TRUE) THEN Fail("failed") ELSE UNCHANGED <<pc, results>>
  /\ UNCHANGED <<opts, files, i, cfgVars, macroFinder, savedMacro>>

(* mc and vmt return the errors of their translations as well.               *)
MCError ==
  /\ pc \in {"all", "each"} /\ Method # "bmc"
  /\ pc = "each" => toCheck # {}
  /\ Fail("error")
  /\ UNCHANGED <<opts, files, i, cfgVars, macroFinder, savedMacro, toCheck>>

\* Faulty variant of Restore: the macro finder stays off.
RestoreNot ==
  /\ pc = "restore"
  /\ i' = i + 1
  /\ pc' = "next"
  /\ UNCHANGED <<opts, files, cfgVars, macroFinder, savedMacro, toCheck, results>>

Restore ==
  /\ pc = "restore"
  /\ macroFinder' = (macroFinder \/ (iso.macro /\ savedMacro))
  /\ i' = i + 1
  /\ pc' = "next"
  /\ UNCHANGED <<opts, files, cfgVars, savedMacro, toCheck, results>>

Finish ==
  /\ pc = "next" /\ i > Len(file.isolates)
  /\ Fail(IF failed THEN "failed"
          ELSE IF opts.action /\ ~actionFound THEN "not exported"
          ELSE IF usedSorry THEN "OK, but used 'sorry'"
          ELSE "OK")
  /\ UNCHANGED <<opts, files, i, cfgVars, macroFinder, savedMacro, toCheck>>

CheckStep == Coverage \/ SkipIsolate \/ Create \/ CheckIC \/ BeginMC \/ MCAll
             \/ MCEach \/ MCError \/ Restore \/ Finish
Next == Start \/ CheckStep

Spec == Init /\ [][Next]_vars

-----------------------------------------------------------------------------
Verdicts == {"OK", "OK, but used 'sorry'", "failed", "incomplete", "error",
             "not exported", "NOT CHECKED"}

(* Every variable has its type; a check has one verdict.                     *)
TypeOK ==
  /\ opts \in OptionsType /\ files \in Seq(File)
  /\ Len(results) <= Len(files)
  /\ pc # "idle" => Len(results) < Len(files) /\ i \in 1..(Len(file.isolates) + 1)
  /\ pc \in {"idle", "module", "next", "check", "all", "each", "restore"}
  /\ {failed, bounded, usedSorry, actionFound, macroFinder, savedMacro} \subseteq BOOLEAN
  /\ toCheck \in SUBSET Lines
  /\ results \in Seq([verdict : Verdicts, bounded : BOOLEAN])

Checked(f) ==
  {s \in {f.isolates[j] : j \in 1..Len(f.isolates)} : ToVerify(s) /\ ~opts.trusted}

(* The lines an OK says nothing of: all of them under vmt, which checks      *)
(* nothing, and in a summary or where only the unprovable is checked; the    *)
(* invariants that mc leaves out when lines are selected (mc_toaiger.go:93); *)
(* what a bounded check does not reach; assertions, where an option leaves   *)
(* them out; goals that a proof drops, and what the solver cannot be asked.  *)
Exempt(s) ==
  CASE MethodOf(s) = "mc" ->
         (IF s.separate \/ opts.lineno # NoLine THEN s.invs ELSE s.sorry) \ s.asserts
    [] MethodOf(s) = "bmc" ->
         IF s.deep \/ s.stops THEN Lines
         ELSE IF opts.unprovable THEN s.asserts \ s.invs ELSE {}
    [] MethodOf(s) = "ic" ->
         IF opts.summary \/ opts.unprovable THEN Lines
         ELSE s.sorry \cup s.skipped
              \cup (IF opts.noCheckGuarantees THEN s.asserts \ s.invs ELSE {})
    [] OTHER -> Lines

(* And when it says nothing of the assertions in initializers: where the     *)
(* last of these has none that is selected, where mc has no line to run for, *)
(* and under bmc and vmt always.                                             *)
InitExempt(s) ==
  CASE MethodOf(s) = "mc" -> s.separate /\ Wanted(s) = {}
    [] MethodOf(s) = "ic" -> opts.summary \/ opts.unprovable \/ Chosen(s.lastInit) = {}
    [] OTHER -> TRUE

Proved(s) ==
  /\ Wanted(s) \cap s.bad \subseteq Exempt(s)
  /\ InitExempt(s) \/ Chosen(s.badInit) = {}

(* OK is a proof, but for these: whatever the mixture of methods, of whole   *)
(* and of separate checks, of errors and failures, and whatever was checked  *)
(* before with the same configuration.                                       *)
OkIsProved ==
  \A j \in 1..Len(results) : results[j].verdict = "OK" => \A s \in Checked(files[j]) : Proved(s)

(* "BOUNDED" is printed exactly when an isolate of this very file was only   *)
(* checked up to a bound.                                                    *)
BoundedExact ==
  \A j \in 1..Len(results) : results[j].verdict = "OK" =>
    (results[j].bounded <=> \E s \in Checked(files[j]) : MethodOf(s) = "bmc")

(* The macro finder is off while an isolate is checked that asks for it, and *)
(* otherwise as the option says, as long as no check ended with an error.    *)
MacroFinderScope ==
  ~opts.trusted /\ pc \in {"next", "check", "all", "each"}
  /\ (\A j \in 1..Len(results) : results[j].verdict \in {"OK", "incomplete", "NOT CHECKED"})
    => (macroFinder <=> opts.macro /\ ~(pc # "next" /\ iso.macro))
=============================================================================
