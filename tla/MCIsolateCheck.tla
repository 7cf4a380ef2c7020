--------------------------- MODULE MCIsolateCheck ---------------------------
(***************************************************************************)
(* IsolateCheck for TLC: two external actions e1 and e2 and an action f    *)
(* that both may call, over two lines, so that an assertion is reached     *)
(* from two roots and a line is shared by two actions.                     *)
(***************************************************************************)
EXTENDS IsolateCheck

CONSTANTS s1, s2, l1, l2, e1, e2, f

MCStructs == {s1, s2}
MCLines == {l1, l2}
MCActs == {e1, e2, f}

All == MCStructs

(* Runs with at most the given lines failing, the first of them first.       *)
RunsOver(ls) ==
  {r \in [pre : All, post : All, fails : SUBSET ls, first : ls \cup {NoLine}] : FirstFails(r)}

InitRunsOver(ls) ==
  {r \in [post : All, fails : SUBSET ls, first : ls \cup {NoLine}] : FirstFails(r)}

AtMostOne(S) == {{}} \cup {{r} : r \in S}

Clear(m) == [models |-> m, opaque |-> FALSE]
Opaque(m) == [models |-> m, opaque |-> TRUE]

Invariant(m, e, l, gs) ==
  [models |-> m, unprovable |-> FALSE, explicit |-> e, line |-> l, goals |-> gs]

(* Plain, with a proof of which one goal may not translate, explicit, and of *)
(* no use.                                                                   *)
MCConjs ==
  { {}, {Invariant({s1}, FALSE, l1, {Clear({s1})})},
    {Invariant({s1}, FALSE, l2, {Clear(All), Clear({s1})})},
    {Invariant({s1}, FALSE, l2, {Clear({s1}), Opaque({})})},
    {Invariant({s1}, TRUE, l1, {Clear({s1})})},
    {Invariant(All, FALSE, l2, {}), Invariant({s1}, TRUE, l1, {Opaque({s1})})} }

Property(m, k, l) == [models |-> m, kind |-> k, line |-> l, opaque |-> FALSE]

MCProps ==
  { << >>,
    << Property({s1}, "checked", l1), Property({s1}, "assumed", l2) >>,
    << Property({s2}, "assumed", l2), Property({s2}, "checked", l1) >>,
    << [Property({s2}, "assumed", l2) EXCEPT !.opaque = TRUE], Property({s2}, "checked", l1) >>,
    << Property({s1}, "dropped", l2), [Property({s1}, "checked", l1) EXCEPT !.opaque = TRUE] >> }

Asserts(x, y, z) == [a \in MCActs |-> CASE a = e1 -> x [] a = e2 -> y [] a = f -> z]
Calls(x, y) == [a \in MCActs |-> CASE a = e1 -> x [] a = e2 -> y [] a = f -> {}]
Runs(x, y) == [a \in MCActs |-> CASE a = e1 -> x [] a = e2 -> y [] a = f -> {}]

Sources0(props, conjs, initAsserts, initRuns, asserts, calls, runs) ==
  {p \in [axioms : {All}, props : props, admits : {TRUE}, conjs : conjs,
          assumedInv : {All}, initAsserts : initAsserts, initRuns : initRuns,
          asserts : asserts, calls : calls, public : {{e1, e2}}, broken : {{}}, brokenNamed : {{}},
          runs : runs] :
     WellFormed(p)}

(* What the actions do: one run of e1 and one of e2, any pair of them.       *)
MCActionSources ==
  Sources0({<< >>},
           {{Invariant({s1}, FALSE, l1, {Clear({s1})})}, {}},
           {<< >>}, {{[post |-> s1, fails |-> {}, first |-> NoLine]}},
           {Asserts({l1}, {}, {l1}), Asserts({}, {l1}, {l2})},
           {Calls({f}, {f}), Calls({f}, {})},
           {Runs(x, y) : x \in AtMostOne(RunsOver(MCLines)), y \in AtMostOne(RunsOver(MCLines))})

(* How the program starts: properties, invariants and initializers.          *)
MCInitSources ==
  Sources0(MCProps, MCConjs,
           {<< >>, <<{l1}, {}>>, <<{}, {l1}>>, <<{l1}, {l2}>>},
           AtMostOne(InitRunsOver(MCLines)),
           {Asserts({l1}, {}, {})}, {Calls({}, {})},
           {Runs({}, {}), Runs({[pre |-> s1, post |-> s2, fails |-> {}, first |-> NoLine]}, {})})
  \cup
  {[p EXCEPT !.admits = FALSE] :
     p \in Sources0({<< >>}, MCConjs, {<< >>}, {{}}, {Asserts({}, {}, {})},
                    {Calls({}, {})}, {Runs({}, {})})}

(* An action that cannot be executed, at all or under its name.              *)
MCBrokenSources ==
  {[p EXCEPT !.broken = b, !.brokenNamed = {e1}] :
     b \in {{}, {e1}},
     p \in Sources0({<< >>}, {{Invariant({s1}, FALSE, l1, {Clear({s1})})}},
                    {<< >>}, {{[post |-> s1, fails |-> {}, first |-> NoLine]}},
                    {Asserts({}, {l1}, {l2})}, {Calls({f}, {f})},
                    {Runs(x, y) : x \in AtMostOne(RunsOver({l2})),
                                  y \in AtMostOne(RunsOver({l1}))})}

MCSources == MCActionSources \cup MCInitSources \cup MCBrokenSources

Opts(s, u, n, acts, ls) ==
  [summary : s, unprovable : u, noCheckGuarantees : n, action : acts, lineno : ls]

MCOptions == Opts({FALSE}, {FALSE}, {FALSE}, {NoAct, e1}, {NoLine, l1, l2})
             \cup Opts({FALSE}, {FALSE}, {FALSE}, {f}, {NoLine, l2})
             \cup Opts({FALSE}, {FALSE}, {TRUE}, {NoAct, e1}, {NoLine, l1})
             \cup Opts({TRUE}, {FALSE}, {FALSE}, {NoAct, e1}, {NoLine})
             \cup Opts({FALSE}, {TRUE}, {FALSE}, {NoAct, e1}, {NoLine})
=============================================================================
