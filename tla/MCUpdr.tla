------------------------------- MODULE MCUpdr -------------------------------
(***************************************************************************)
(* Updr for TLC: programs of four states.  The conjectures exclude state 3 *)
(* from every program but one that has none and one whose only good state  *)
(* is the initial one; a diagram may describe two states.                  *)
(***************************************************************************)
EXTENDS Updr

MCState == 0..3
MCDiagram == [s \in MCState |-> IF s = 2 THEN {2, 3} ELSE {s}]

Steps(a, b, c, d) == [s \in MCState |-> CASE s = 0 -> a [] s = 1 -> b [] s = 2 -> c [] s = 3 -> d]
Prog(i, f, fails, conjs, hard) ==
  [init |-> i, step |-> f, fails |-> fails, conjs |-> conjs, hard |-> hard]

Safe3 == {{0, 1, 2}}

(* From 0 to 3 in three steps, in two and in one, and not at all.            *)
Chain == Steps({1}, {2}, {3}, {3})
MCSteps == { Chain, Steps({1}, {3}, {2}, {3}), Steps({3}, {1}, {3}, {1}),
             Steps({1}, {0}, {3}, {3}), Steps({0, 1}, {1, 2}, {0}, {2, 3}),
             Steps({1}, {}, {2, 3}, {0}) }

MCPrograms ==
  {Prog({{0}}, f, {}, Safe3, {}) : f \in MCSteps}
  \cup { Prog({{0}}, Steps({2}, {1}, {2}, {}), {}, {{0, 1, 2}, {0, 3}, {0, 2}}, {}),
         Prog({{0, 1}, {0, 2}}, Steps({0}, {2}, {1}, {0, 3}), {}, Safe3, {}),
         Prog({{3}}, Steps({0}, {1}, {2}, {0}), {}, Safe3, {}),
         Prog({{0}}, Steps({1}, {0}, {3}, {3}), {0}, Safe3, {}),
         Prog({{0}}, Steps({1}, {0}, {3}, {3}), {2}, Safe3, {}),
         Prog({{0}}, Chain, {}, {}, {}),
         Prog({{0}}, Steps({1}, {2}, {}, {}), {}, Safe3, {"diagram"}),
         Prog({{0}}, Steps({1}, {2}, {}, {}), {}, Safe3, {"refuted"}),
         Prog({{0}}, Chain, {3}, Safe3, {"cover", "precondition"}),
         Prog({{0}}, Steps({1}, {0}, {3}, {3}), {}, Safe3, {"implied", "interpolant"}) }

(* The initial state is good; the bad one is three steps away, or one.       *)
MCUnsafePrograms == {Prog({{0}}, Chain, {}, Safe3, {})}
MCCounterexamplePrograms == {Prog({{0}}, Steps({3}, {1}, {2}, {3}), {}, Safe3, {})}
=============================================================================
