--------------------------- MODULE MCModuleCheck ----------------------------
(***************************************************************************)
(* ModuleCheck for TLC: files of up to two isolates over two lines.        *)
(***************************************************************************)
EXTENDS ModuleCheck

CONSTANTS l1, l2

MCLines == {l1, l2}

Plain == [verified |-> TRUE, trusted |-> FALSE, macro |-> FALSE, method |-> "ic",
          separate |-> FALSE, creates |-> TRUE, nonTemporal |-> FALSE,
          invs |-> {l2}, asserts |-> {l1}, bad |-> {}, badInit |-> {}, lastInit |-> {},
          deep |-> FALSE, stops |-> FALSE, sorry |-> {}, skipped |-> {}]

MCIsolates ==
  {[Plain EXCEPT !.bad = b, !.macro = m] : b \in {{}, {l1}}, m \in BOOLEAN}
  \cup {[Plain EXCEPT !.method = m, !.separate = s, !.bad = b] :
          m \in {"mc", "bmc"}, s \in BOOLEAN, b \in {{}, {l1}, {l2}}}
  \cup {[Plain EXCEPT !.method = "bmc", !.macro = TRUE, !.bad = b, !.deep = d] :
          b \in {{}, {l2}}, d \in BOOLEAN}
  \cup {[Plain EXCEPT !.verified = FALSE, !.bad = {l1}],
        [Plain EXCEPT !.trusted = TRUE, !.bad = {l1}],
        [Plain EXCEPT !.method = "bmc bad"],
        [Plain EXCEPT !.creates = FALSE, !.macro = TRUE],
        [Plain EXCEPT !.method = "mc", !.nonTemporal = TRUE],
        [Plain EXCEPT !.method = "mc", !.separate = TRUE, !.asserts = {}],
        [Plain EXCEPT !.method = "vmt", !.bad = {l2}],
        [Plain EXCEPT !.method = "bmc", !.stops = TRUE, !.bad = {l2}],
        [Plain EXCEPT !.sorry = {l1}, !.bad = {l1}],
        [Plain EXCEPT !.method = "mc", !.sorry = {l2}, !.bad = {l2}],
        [Plain EXCEPT !.skipped = {l1}, !.bad = MCLines]}

(* Assertions in initializers, under each method.                            *)
MCInitIsolates ==
  {[Plain EXCEPT !.badInit = {l1}, !.lastInit = ls, !.method = m, !.separate = sep] :
     ls \in {{}, {l1}, {l2}}, m \in {"ic", "mc", "bmc"}, sep \in BOOLEAN}
  \cup {[Plain EXCEPT !.badInit = {l1}, !.method = "mc", !.separate = TRUE,
                      !.invs = {}, !.asserts = {}]}

MCPlainOpts ==
  [coverage |-> FALSE, trusted |-> FALSE, mc |-> FALSE, action |-> FALSE,
   lineno |-> NoLine, macro |-> TRUE, summary |-> FALSE, unprovable |-> FALSE,
   noCheckGuarantees |-> FALSE]

MCOptions ==
  {[MCPlainOpts EXCEPT !.mc = m, !.lineno = l] : m \in BOOLEAN, l \in {NoLine, l1, l2}}
  \cup {[MCPlainOpts EXCEPT !.coverage = TRUE], [MCPlainOpts EXCEPT !.trusted = TRUE],
        [MCPlainOpts EXCEPT !.summary = TRUE], [MCPlainOpts EXCEPT !.unprovable = TRUE],
        [MCPlainOpts EXCEPT !.noCheckGuarantees = TRUE],
        [MCPlainOpts EXCEPT !.noCheckGuarantees = TRUE, !.lineno = l2],
        [MCPlainOpts EXCEPT !.lineno = NoneIvy],
        [MCPlainOpts EXCEPT !.macro = FALSE], [MCPlainOpts EXCEPT !.action = TRUE, !.lineno = l1]}

FileOf(isos) == [isolates |-> isos, complete |-> TRUE, loads |-> TRUE]

(* Files with one isolate each, two of them with one configuration.          *)
MCFewJobs ==
  {[opts |-> [MCPlainOpts EXCEPT !.action = c], files |-> << FileOf(<<x>>), FileOf(<<y>>) >>] :
     c \in BOOLEAN, x, y \in MCIsolates}

(* And one file with up to two isolates, under every option.                 *)
MCJobs ==
  MCFewJobs
  \cup {[opts |-> o, files |-> << FileOf(<<x, y>>) >>] : o \in MCOptions, x, y \in MCIsolates}
  \cup {[opts |-> o, files |-> << f >>] : o \in MCOptions,
          f \in {[FileOf(<< Plain >>) EXCEPT !.complete = FALSE]}}
  \cup {[opts |-> o, files |-> << FileOf(<<x, y>>) >>] :
          o \in MCOptions, x \in MCInitIsolates, y \in MCInitIsolates \cup {Plain}}
  \cup {[opts |-> MCPlainOpts,
         files |-> << FileOf(<< x >>), [FileOf(<<Plain>>) EXCEPT !.loads = FALSE], FileOf(<<y>>) >>] :
          x, y \in {[Plain EXCEPT !.method = m] : m \in {"bmc", "ic"}}}
=============================================================================
