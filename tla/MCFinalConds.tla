---------------------------- MODULE MCFinalConds ----------------------------
(***************************************************************************)
(* FinalConds for TLC.  Verdicts: every list of up to three conditions     *)
(* over two structures, in both solver modes and with every option.        *)
(* Models: every condition over four structures of different sizes, after  *)
(* one that is assumed.                                                    *)
(***************************************************************************)
EXTENDS FinalConds

CONSTANTS m1, m2, m3, m4

MCModels == {m1, m2, m3, m4}
MCNMeasures == 2
(* A sort, then a relation that may be empty.                                *)
MCSize ==
  << [m \in MCModels |-> CASE m = m1 -> 1 [] m = m2 -> 2 [] OTHER -> 3],
     [m \in MCModels |-> CASE m = m1 -> 2 [] m = m2 -> 3
                            [] m = m3 -> 0 [] m = m4 -> 2] >>

(* A condition without clauses has no models to speak of.                    *)
MCConds ==
  [assume : BOOLEAN, form : {"clauses"}, models : SUBSET {m1, m2}]
    \cup [assume : BOOLEAN, form : {"nil", "untranslatable"}, models : {{}}]

MCLists == {<< >>} \cup {<<a>> : a \in MCConds} \cup {<<a, b>> : a, b \in MCConds}
           \cup {<<a, b, c>> : a, b, c \in {d \in MCConds : d.form = "clauses"}}

MCVerdictCalls ==
  [base : {{m1}, {m1, m2}}, translates : {TRUE}, asked : {TRUE},
   fcs : MCLists, incremental : BOOLEAN, unprovable : BOOLEAN,
   stopAtFail : BOOLEAN, shrink : {FALSE}]
  \cup
  [base : SUBSET {m1, m2}, translates : BOOLEAN, asked : {FALSE}, fcs : {<< >>},
   incremental : BOOLEAN, unprovable : {FALSE}, stopAtFail : BOOLEAN,
   shrink : BOOLEAN]

MCShrinkCalls ==
  [base : SUBSET MCModels, translates : {TRUE}, asked : {TRUE},
   fcs : {<<[assume |-> TRUE, form |-> "clauses", models |-> a],
            [assume |-> FALSE, form |-> "clauses", models |-> c]>> :
            a \in {MCModels, {m1, m3}, {m3, m4}, {m2, m3, m4}},
            c \in SUBSET MCModels},
   incremental : BOOLEAN, unprovable : {FALSE}, stopAtFail : BOOLEAN,
   shrink : BOOLEAN]
  \cup
  [base : SUBSET MCModels, translates : {TRUE}, asked : {FALSE},
   fcs : {<< >>}, incremental : BOOLEAN, unprovable : {FALSE},
   stopAtFail : {TRUE}, shrink : BOOLEAN]

MCCalls == MCVerdictCalls \cup MCShrinkCalls
=============================================================================
