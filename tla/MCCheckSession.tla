--------------------------- MODULE MCCheckSession ---------------------------
(***************************************************************************)
(* CheckSession for TLC: three requests one after another, so that the     *)
(* watchers of two checks that are over can disturb a third.  A check has  *)
(* two queries, which is enough for an interrupt to come during the first, *)
(* between the two and during the second.                                  *)
(***************************************************************************)
EXTENDS CheckSession

Prepared(m, qs) == [mode |-> m, concepts |-> FALSE, fails |-> "none", queries |-> qs]
Unprepared(m, f) == [mode |-> m, concepts |-> TRUE, fails |-> f, queries |-> <<"sat">>]

(* Queries of every kind in the two kinds of loops; every preparation.       *)
MCJobs ==
  {Prepared("induction", <<a, b>>) :
     a \in {"unsat", "sat", "unknown", "endless"},
     b \in {"unsat", "hardsize", "badtrace", "badmodel", "panic", "skipped"}}
  \cup {Prepared("bounded", <<a, b>>) :
          a \in {"unsat", "hardsize"}, b \in {"unsat", "sat", "badmodel", "noexec", "skipped"}}
  \cup {Prepared("concrete", qs) : qs \in {<< >>, <<"badtrace">>}}
  \cup {Unprepared("induction", f) : f \in Failures}
  \cup {Unprepared("abstract", f) : f \in {"none", "concepts", "art"}}

(* Fewer jobs for the checks that must be found wanting.                     *)
MCFewJobs ==
  {Prepared(m, qs) : m \in {"induction", "concrete"},
                     qs \in {<<a, b>> : a, b \in {"unsat", "unknown", "endless"}}}
=============================================================================
