--------------------------- MODULE MCInvariantEdit ---------------------------
(***************************************************************************)
(* InvariantEdit for TLC: three conjectures over a program of four states, *)
(* two of which are inductive together, two texts that compile, one of     *)
(* them a wrapper, and one that does not.  Two checks, so that one that    *)
(* was cancelled can disturb another.                                      *)
(***************************************************************************)
EXTENDS InvariantEdit

MCStates == 1..4
MCConjs == {"a", "b", "c"}
MCTexts == {"two", "wrapper", "broken"}

MCInvariants == [t \in MCTexts |->
  CASE t = "two" -> <<"a", "b">> [] t = "wrapper" -> <<"a">> [] OTHER -> <<"c">>]

MCSteps == [t \in MCTexts |-> IF t = "two" THEN {<<1, 2>>, <<2, 1>>, <<3, 4>>}
                                           ELSE {<<1, 2>>, <<2, 3>>}]

MCMeaning == [c \in MCConjs |->
  CASE c = "a" -> {1, 2, 3} [] c = "b" -> {1, 2, 3, 4} [] OTHER -> {1, 2}]
=============================================================================
