-------------------------------- MODULE Updr --------------------------------
(***************************************************************************)
(* The UPDR tactic (tactics.go) as a pdr check of a session runs it        *)
(* (webui_session.go, runUPDR), on an analysis graph that later checks of  *)
(* the same session find as this one left it.                              *)
(*                                                                         *)
(* A formula is the set of its models, in which the background theory      *)
(* holds.  A node of the analysis graph is the set of facts at it.         *)
(* AnalysisGraph.Execute computes a node from copies of its predecessors   *)
(* (ArtToInterpState, InterpToArtState), and the new node's Pred is the    *)
(* copy: graph[i] is the i-th state of the graph, last in the sequence,    *)
(* behind the copies of the i - 1 nodes on the way to it that it owns.     *)
(* A module with initializers has one more node before the first, which no *)
(* goal leaves either.                                                     *)
(*                                                                         *)
(* Interpolants are any that the solver may return.  On a hard program a   *)
(* query may also be left undecided.  MaxRuns bounds the model.            *)
(***************************************************************************)
EXTENDS Naturals, Sequences

CONSTANTS State,         \* structures of the module's signature
          Programs,
          Diagram,       \* what the diagram of a structure describes
          MaxFrames, MaxGoalSteps,
          MaxRuns

Fact == SUBSET State

Queries == {"cover", "precondition", "implied", "refuted", "diagram", "interpolant"}

Program ==
  [init  : SUBSET Fact,            \* the conjuncts of the initial condition
   step  : [State -> SUBSET State],
   fails : SUBSET State,           \* where an assertion of an action can fail
   conjs : SUBSET Fact,
   hard  : SUBSET Queries]         \* the queries that the solver may leave undecided

ASSUME ProgramsAssumption == Programs \subseteq Program
ASSUME DiagramAssumption ==
  Diagram \in [State -> SUBSET State] /\ \A s \in State : s \in Diagram[s]
ASSUME BoundsAssumption == /\ MaxFrames \in Nat /\ MaxGoalSteps \in Nat /\ MaxRuns \in Nat

VARIABLES prog,
          graph,     \* AG.States, each with the copies behind it
          goals,     \* the stack of proof goals
          pc,
          iter,      \* frames added in this run
          steps,     \* goalSteps
          base,      \* states of the graph when this run began
          k,         \* the frame to which facts are propagated
          result,
          runs

vars == <<prog, graph, goals, pc, iter, steps, base, k, result, runs>>

Results == {"none", "nothing_to_prove", "invariant", "no_invariant",
            "goal_limit", "no_progress", "frame_limit"}

Goal == [at : (Nat \ {0}) \X (Nat \ {0}), formula : Fact]

TypeOK ==
  /\ prog \in Programs
  /\ graph \in Seq(Seq(SUBSET Fact))
  /\ \A i \in 1..Len(graph) : Len(graph[i]) = i
  /\ goals \in Seq(Goal)
  /\ \A n \in 1..Len(goals) :
       goals[n].at[1] \in 1..Len(graph) /\ goals[n].at[2] \in 1..goals[n].at[1]
  /\ pc \in {"idle", "cover", "goals", "propagate"}
  /\ iter \in 0..MaxFrames
  /\ steps \in 0..MaxGoalSteps + 1
  /\ base \in 0..Len(graph)
  /\ k \in Nat \ {0}
  /\ result \in Results
  /\ runs \in 0..MaxRuns

-----------------------------------------------------------------------------
Models(facts) == {s \in State : \A f \in facts : s \in f}
ForwardImage(S) == UNION {prog.step[s] : s \in S}
BackwardImage(S) == {s \in State : prog.step[s] \cap S # {}}
Undecided(query) == query \in prog.hard
Bad == State \ Models(prog.conjs)

Node(at) == graph[at[1]][at[2]]
Frame(i) == graph[i][i]

Top == goals[Len(goals)]
GoalAt(at, formula) == [at |-> at, formula |-> formula]
PredOf(at) == <<at[1], at[2] - 1>>
HasPred(at) == at[2] > 1
RefutedGoal(g) == Models(Node(g.at)) \cap g.formula = {}

AddFact(at, f) == [graph EXCEPT ![at[1]][at[2]] = @ \cup {f}]

\* Faulty variant of Implied: facts of the predecessor itself.
ImpliedBefore(node, pred, facts) ==
  {f \in facts : Models(pred) \subseteq f /\ ~ Models(node) \subseteq f}

(* RecalculateFacts: the candidates that hold after the predecessor and do   *)
(* not follow from what is known at the node.                                *)
Implied(node, pred, facts) ==
  {f \in facts : ForwardImage(Models(pred)) \subseteq f /\ ~ Models(node) \subseteq f}
RecalculateFacts(node, pred, facts) ==
  IF Undecided("implied") THEN SUBSET {f \in facts : ForwardImage(Models(pred)) \subseteq f}
                          ELSE {Implied(node, pred, facts)}

\* Faulty variant of Interpolants: implied, but not excluding the diagram.
InterpolantsImplied(pred, d) == {x \in Fact : ForwardImage(Models(pred)) \subseteq x}

(* What BinaryInterpolant may return for a predecessor and a diagram.        *)
Interpolants(pred, d) ==
  {x \in Fact : ForwardImage(Models(pred)) \subseteq x /\ x \cap d = {}}

Return(r) == result' = r /\ pc' = "idle"

Init ==
  /\ prog \in Programs
  /\ graph = << >> /\ goals = << >>
  /\ pc = "idle" /\ result = "none"
  /\ iter = 0 /\ steps = 0 /\ base = 0 /\ k = 1 /\ runs = 0

-----------------------------------------------------------------------------
(* runUPDR: the graph gets an initial state only when it has no state.       *)
Begin ==
  /\ pc = "idle" /\ runs < MaxRuns
  /\ runs' = runs + 1
  /\ graph' = IF graph = << >> THEN <<<<prog.init>>>> ELSE graph
  /\ base' = Len(graph')
  /\ goals' = << >> /\ iter' = 0 /\ steps' = 0 /\ k' = 1
  /\ IF prog.conjs = {} THEN Return("nothing_to_prove")
                        ELSE result' = "none" /\ pc' = "cover"
  /\ UNCHANGED prog

Covered(i) == Models(Frame(i + 1)) \subseteq Models(Frame(i))
SomeFrameCovered == \E i \in 1..Len(graph) - 1 : Covered(i)

FindInvariant ==
  /\ pc = "cover" /\ iter < MaxFrames
  /\ SomeFrameCovered
  /\ Return("invariant")
  /\ UNCHANGED <<prog, graph, goals, iter, steps, base, k, runs>>

(* Execute checks the action's precondition in the last frame.               *)
Executable == Models(Frame(Len(graph))) \cap prog.fails = {}

\* Faulty variant of AddFrame: the new state has a copy of its predecessor
\* only, not of what lies behind it.
AddFrameShort ==
  /\ pc = "cover" /\ iter < MaxFrames
  /\ ~ SomeFrameCovered \/ Undecided("cover")
  /\ Executable \/ Undecided("precondition")
  /\ LET n == Len(graph)
     IN  \E new \in RecalculateFacts({}, Frame(n), Frame(n)) :
           /\ graph' = Append(graph, <<Frame(n), new>>)
           /\ goals' = Append(goals, GoalAt(<<n + 1, n + 1>>, Bad))
  /\ pc' = "goals"
  /\ UNCHANGED <<prog, iter, steps, base, k, result, runs>>

AddFrame ==
  /\ pc = "cover" /\ iter < MaxFrames
  /\ ~ SomeFrameCovered \/ Undecided("cover")
  /\ Executable \/ Undecided("precondition")
  /\ LET last == graph[Len(graph)]
         n == Len(graph)
     IN  \E new \in RecalculateFacts({}, last[n], last[n]) :
           /\ graph' = Append(graph, Append(last, new))
           /\ goals' = Append(goals, GoalAt(<<n + 1, n + 1>>, Bad))
  /\ pc' = "goals"
  /\ UNCHANGED <<prog, iter, steps, base, k, result, runs>>

NoFrame ==
  /\ pc = "cover"
  /\ \/ iter = MaxFrames
     \/ (~ SomeFrameCovered \/ Undecided("cover")) /\ ~ Executable
  /\ Return("frame_limit")
  /\ UNCHANGED <<prog, graph, goals, iter, steps, base, k, runs>>

-----------------------------------------------------------------------------
(* The loop over the goals, one turn to a step.                              *)
Turn ==
  /\ pc = "goals" /\ goals # << >>
  /\ steps < MaxGoalSteps
  /\ steps' = steps + 1
  /\ UNCHANGED <<prog, iter, base, runs>>

GoalLimit ==
  /\ pc = "goals" /\ goals # << >>
  /\ steps = MaxGoalSteps
  /\ steps' = steps + 1
  /\ Return("goal_limit")
  /\ UNCHANGED <<prog, graph, goals, iter, base, k, runs>>

Refuted ==
  /\ Turn
  /\ RefutedGoal(Top)
  /\ goals' = SubSeq(goals, 1, Len(goals) - 1)
  /\ UNCHANGED <<graph, pc, k, result>>

(* No progress: the goals and the facts at the goal's node are as before.    *)
EndTurn == IF goals' = goals /\ graph' = graph THEN Return("no_progress")
                                               ELSE UNCHANGED <<pc, result>>

\* Faulty variant of Refine: the goal goes with its diagram.
RefineAndRemove(d) ==
  /\ HasPred(Top.at)
  /\ \E x \in Interpolants(Node(PredOf(Top.at)), d) : graph' = AddFact(Top.at, x)
  /\ goals' = SubSeq(goals, 1, Len(goals) - 1)
  /\ EndTurn

Refine(d) ==
  /\ HasPred(Top.at)
  /\ \E x \in Interpolants(Node(PredOf(Top.at)), d) : graph' = AddFact(Top.at, x)
  /\ goals' = goals
  /\ EndTurn

Reverse(d) ==
  /\ HasPred(Top.at)
  /\ ForwardImage(Models(Node(PredOf(Top.at)))) \cap d # {} \/ Undecided("interpolant")
  /\ goals' = goals \o <<GoalAt(Top.at, d), GoalAt(PredOf(Top.at), BackwardImage(d))>>
  /\ graph' = graph
  /\ EndTurn

(* A node without a predecessor: neither refined nor reversed.               *)
Stay(d) ==
  /\ ~ HasPred(Top.at)
  /\ goals' = Append(goals, GoalAt(Top.at, d))
  /\ graph' = graph
  /\ EndTurn

(* GetDiagram returns nothing: the loop is left with its goals on the stack. *)
NoDiagram ==
  /\ Undecided("diagram") \/ RefutedGoal(Top)
  /\ pc' = "propagate" /\ k' = 2
  /\ UNCHANGED <<graph, goals, result>>

(* The goal's node is compared with the first state of the graph itself.     *)
Pursue ==
  /\ Turn
  /\ ~ RefutedGoal(Top) \/ Undecided("refuted")
  /\ IF Top.at = <<1, 1>>
     THEN Return("no_invariant") /\ UNCHANGED <<graph, goals, k>>
     ELSE \/ NoDiagram
          \/ /\ \E s \in Models(Node(Top.at)) \cap Top.formula :
                  LET d == Diagram[s] IN Refine(d) \/ Reverse(d) \/ Stay(d)
             /\ UNCHANGED k

\* Faulty variant of NoGoalLeft: the loop is left at the initial state.
NoGoalAfterInitial ==
  /\ pc = "goals"
  /\ goals # << >> => ~ HasPred(Top.at)
  /\ pc' = "propagate" /\ k' = 2
  /\ UNCHANGED <<prog, graph, goals, iter, steps, base, result, runs>>

NoGoalLeft ==
  /\ pc = "goals" /\ goals = << >>
  /\ pc' = "propagate" /\ k' = 2
  /\ UNCHANGED <<prog, graph, goals, iter, steps, base, result, runs>>

\* Faulty variant of Propagate: a frame is tried until it learns something.
PropagateUntil ==
  /\ pc = "propagate" /\ k \in 2..Len(graph)
  /\ \E new \in RecalculateFacts(Frame(k), graph[k][k - 1], Frame(k - 1) \ Frame(k)) :
       /\ graph' = [graph EXCEPT ![k][k] = @ \cup new]
       /\ k' = IF new = {} THEN k ELSE k + 1
  /\ UNCHANGED <<prog, goals, pc, iter, steps, base, result, runs>>

(* Frame by frame: the facts of the frame before that this one has not.      *)
Propagate ==
  /\ pc = "propagate" /\ k \in 2..Len(graph)
  /\ \E new \in RecalculateFacts(Frame(k), graph[k][k - 1], Frame(k - 1) \ Frame(k)) :
       graph' = [graph EXCEPT ![k][k] = @ \cup new]
  /\ k' = k + 1
  /\ UNCHANGED <<prog, goals, pc, iter, steps, base, result, runs>>

Propagated ==
  /\ pc = "propagate" /\ k > Len(graph)
  /\ iter' = iter + 1 /\ pc' = "cover"
  /\ UNCHANGED <<prog, graph, goals, steps, base, k, result, runs>>

UpdrStep == \/ FindInvariant \/ AddFrame \/ NoFrame
            \/ GoalLimit \/ Refuted \/ Pursue \/ NoGoalLeft
            \/ Propagate \/ Propagated

Next == Begin \/ UpdrStep
Spec == Init /\ [][Next]_vars
FairSpec == Spec /\ WF_vars(UpdrStep)

-----------------------------------------------------------------------------
(* The program itself: what it does in n - 1 steps.                          *)
Executions(n) ==
  {w \in [1..n -> State] :
     w[1] \in Models(prog.init) /\ \A j \in 1..n - 1 : w[j + 1] \in prog.step[w[j]]}

Closed(S) == ForwardImage(S) \subseteq S
Reachable ==
  {s \in State : \A S \in SUBSET State : Models(prog.init) \subseteq S /\ Closed(S) => s \in S}

(* Frames over-approximate: an execution of the program never leaves them,   *)
(* whatever was refined and propagated in between and however many runs of   *)
(* the tactic, ended in whatever way, left the graph as it is ("a sequence   *)
(* of frames (over-approximations of reachable states)", tactics.go:454).    *)
FramesOverApproximate ==
  \A i \in 1..Len(graph) : \A w \in Executions(i) : \A j \in 1..i : w[j] \in Models(graph[i][j])

Abandoned(i) == \E n \in 1..Len(goals) : goals[n] = GoalAt(<<i, i>>, Bad)

(* What a proof is good for: no execution violates the conjectures after as  *)
(* many steps as a frame stands for that this run has added and cleared.     *)
ProvedToDepth ==
  result = "invariant" =>
    \A i \in base + 1..Len(graph) :
      Abandoned(i) \/ \A w \in Executions(i) : w[i] \notin Bad

(* Every turn of the loop over the goals adds a fact or a goal: the error    *)
(* "no progress while processing goal" (tactics.go:604) is never returned.   *)
AlwaysProgress == result # "no_progress"

(* Not so in general: a frame that covers the next one is returned as an     *)
(* invariant, but the next one was computed from the frame's copy, which may *)
(* have facts that the frame has not.                                        *)
ProvedIsSafe == result = "invariant" => Reachable \cap Bad = {}

AtInitialState(g) == g.at[2] = 1 /\ ~ RefutedGoal(g)

(* A counterexample that has reached the initial state stays on the stack    *)
(* while the run goes on, so that the run cannot end in a proof.             *)
CounterexampleKept ==
  [][\A n \in 1..Len(goals) :
       AtInitialState(goals[n]) /\ pc # "idle" /\ pc' # "idle" =>
         n <= Len(goals') /\ goals'[n] = goals[n] /\ AtInitialState(goals[n])']_vars
CounterexampleNotProved ==
  (\E n \in 1..Len(goals) : AtInitialState(goals[n])) /\ ~ Undecided("diagram") => result # "invariant"

(* Nor is a counterexample reported as one: goals reach the copies of the    *)
(* initial state, and are compared with the state itself.                    *)
CounterexampleReported ==
  result = "goal_limit" => ~ \E n \in 1..Len(goals) : AtInitialState(goals[n])

(* Every run of the tactic returns: goals are refined or reversed only as    *)
(* often as MaxGoalSteps allows, and frames are added at most MaxFrames      *)
(* times (tactics.go:521, :558).                                             *)
Terminates == pc # "idle" ~> pc = "idle"
=============================================================================
