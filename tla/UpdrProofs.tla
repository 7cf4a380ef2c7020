----------------------------- MODULE UpdrProofs -----------------------------
(***************************************************************************)
(* Proofs about Updr, for any programs, diagrams and bounds.               *)
(*                                                                         *)
(* A step changes the graph in one of three ways (GraphStep): it makes the *)
(* initial state, it adds a state, or it adds facts that hold after the    *)
(* predecessor to a node that has one.  All that is said of the frames     *)
(* follows from that.  What is said of a proof needs, besides, that a      *)
(* frame of the run is clear of bad states or has its goal on the stack.   *)
(***************************************************************************)
EXTENDS Updr, SequenceTheorems, TLAPS

(* The types, that a run has an initial state, that it counts its frames,    *)
(* and that it has no result before it returns.                              *)
Running == /\ pc # "idle" => Len(graph) > 0
           /\ pc \in {"goals", "propagate"} => iter < MaxFrames
           /\ pc # "idle" => result = "none"
Typed == TypeOK /\ Running

(* Facts that hold after a node.                                             *)
Follow(X, node) == \A f \in X : ForwardImage(Models(node)) \subseteq f

Learn(i, j, X) == graph' = [graph EXCEPT ![i][j] = @ \cup X]

GraphStep ==
  \/ graph' = graph
  \/ graph = << >> /\ graph' = <<<<prog.init>>>>
  \/ /\ Len(graph) > 0
     /\ \E new \in SUBSET Fact :
          /\ Follow(new, Frame(Len(graph)))
          /\ graph' = Append(graph, Append(graph[Len(graph)], new))
  \/ \E i \in 1..Len(graph) : \E j \in 2..i : \E X \in SUBSET Fact :
       Follow(X, graph[i][j - 1]) /\ Learn(i, j, X)

(* A sequence grows by an element, or by two, or loses its last.             *)
LEMMA AppendFacts ==
  ASSUME NEW S, NEW t \in Seq(S), NEW e \in S
  PROVE  /\ Append(t, e) \in Seq(S)
         /\ Len(Append(t, e)) = Len(t) + 1
         /\ \A i \in 1..Len(t) : Append(t, e)[i] = t[i]
         /\ Append(t, e)[Len(t) + 1] = e
  OBVIOUS

LEMMA AppendTwoFacts ==
  ASSUME NEW S, NEW t \in Seq(S), NEW e \in S, NEW f \in S
  PROVE  /\ t \o <<e, f>> \in Seq(S)
         /\ Len(t \o <<e, f>>) = Len(t) + 2
         /\ \A i \in 1..Len(t) : (t \o <<e, f>>)[i] = t[i]
         /\ (t \o <<e, f>>)[Len(t) + 1] = e
         /\ (t \o <<e, f>>)[Len(t) + 2] = f
<1> DEFINE u == <<e, f>>
<1>1. u \in Seq(S) /\ Len(u) = 2 /\ u[1] = e /\ u[2] = f
  OBVIOUS
<1> HIDE DEF u
<1>2. /\ t \o u \in Seq(S)
      /\ Len(t \o u) = Len(t) + Len(u)
      /\ \A i \in 1..Len(t) + Len(u) :
           (t \o u)[i] = IF i <= Len(t) THEN t[i] ELSE u[i - Len(t)]
  BY ONLY <1>1, t \in Seq(S), ConcatProperties
<1>3. Len(t) \in Nat
  OBVIOUS
<1>4. /\ Len(t \o u) = Len(t) + 2
      /\ \A i \in 1..Len(t) : (t \o u)[i] = t[i]
  BY ONLY <1>1, <1>2, <1>3
<1>5. (t \o u)[Len(t) + 1] = u[1]
  <2>1. Len(t) + 1 \in 1..Len(t) + Len(u) /\ ~ Len(t) + 1 <= Len(t) /\ Len(t) + 1 - Len(t) = 1
    BY ONLY <1>1, <1>3
  <2> QED
    BY ONLY <1>2, <2>1
<1>6. (t \o u)[Len(t) + 2] = u[2]
  <2>1. Len(t) + 2 \in 1..Len(t) + Len(u) /\ ~ Len(t) + 2 <= Len(t) /\ Len(t) + 2 - Len(t) = 2
    BY ONLY <1>1, <1>3
  <2> QED
    BY ONLY <1>2, <2>1
<1> QED
  BY <1>1, <1>2, <1>4, <1>5, <1>6 DEF u

LEMMA FrontFacts ==
  ASSUME NEW S, NEW t \in Seq(S), t # << >>
  PROVE  /\ Len(t) > 0
         /\ SubSeq(t, 1, Len(t) - 1) \in Seq(S)
         /\ Len(SubSeq(t, 1, Len(t) - 1)) = Len(t) - 1
         /\ \A i \in 1..Len(t) - 1 : SubSeq(t, 1, Len(t) - 1)[i] = t[i]
<1>1. Len(t) \in Nat /\ Len(t) > 0
  OBVIOUS
<1> DEFINE n == Len(t) - 1
<1>2. n \in Nat /\ \A i \in 1..n : t[i] \in S
  BY <1>1
<1> HIDE DEF n
<1>3. /\ SubSeq(t, 1, n) \in Seq(S)
      /\ Len(SubSeq(t, 1, n)) = IF 1 <= n THEN n - 1 + 1 ELSE 0
      /\ \A i \in 1..(n - 1 + 1) : SubSeq(t, 1, n)[i] = t[1 + i - 1]
  BY ONLY <1>2, SubSeqProperties
<1>4. Len(SubSeq(t, 1, n)) = n /\ \A i \in 1..n : SubSeq(t, 1, n)[i] = t[i]
  BY ONLY <1>2, <1>3
<1> QED
  BY <1>1, <1>3, <1>4 DEF n

-----------------------------------------------------------------------------
(* The program is one of those given.                                        *)
LEMMA ProgFacts ==
  ASSUME TypeOK
  PROVE  /\ prog.init \in SUBSET Fact
         /\ prog.step \in [State -> SUBSET State]
  BY ProgramsAssumption DEF TypeOK, Program

(* What a goal on the stack is.                                              *)
LEMMA GoalFacts ==
  ASSUME TypeOK, NEW n \in 1..Len(goals)
  PROVE  /\ goals[n] \in Goal
         /\ goals[n].at[1] \in 1..Len(graph)
         /\ goals[n].at[2] \in 1..goals[n].at[1]
         /\ goals[n].at = <<goals[n].at[1], goals[n].at[2]>>
         /\ goals[n].formula \in Fact
<1>1. goals[n] \in Goal
  BY DEF TypeOK
<1>2. goals[n].at[1] \in 1..Len(graph) /\ goals[n].at[2] \in 1..goals[n].at[1]
  BY DEF TypeOK
<1>3. goals[n].at \in (Nat \ {0}) \X (Nat \ {0}) /\ goals[n].formula \in Fact
  BY <1>1 DEF Goal
<1> QED
  BY <1>1, <1>2, <1>3

LEMMA TopFacts ==
  ASSUME TypeOK, goals # << >>
  PROVE  /\ Len(goals) \in Nat /\ Len(goals) > 0
         /\ Top = goals[Len(goals)]
         /\ Top \in Goal
         /\ Top.at[1] \in 1..Len(graph)
         /\ Top.at[2] \in 1..Top.at[1]
         /\ Top.at = <<Top.at[1], Top.at[2]>>
         /\ Top.formula \in Fact
<1>1. Len(goals) \in Nat /\ Len(goals) > 0
  BY DEF TypeOK
<1>2. Len(goals) \in 1..Len(goals)
  BY <1>1
<1> QED
  BY <1>1, <1>2, GoalFacts DEF Top

(* A goal of the right shape at a node of the graph.                         *)
LEMMA GoalAtFacts ==
  ASSUME NEW a \in Nat \ {0}, NEW b \in Nat \ {0}, NEW f \in Fact
  PROVE  /\ GoalAt(<<a, b>>, f) \in Goal
         /\ GoalAt(<<a, b>>, f).at = <<a, b>>
         /\ GoalAt(<<a, b>>, f).at[1] = a
         /\ GoalAt(<<a, b>>, f).at[2] = b
         /\ GoalAt(<<a, b>>, f).formula = f
  BY DEF GoalAt, Goal

(* The node of a goal's predecessor.                                         *)
LEMMA PredFacts ==
  ASSUME TypeOK, goals # << >>, HasPred(Top.at)
  PROVE  /\ PredOf(Top.at) = <<Top.at[1], Top.at[2] - 1>>
         /\ Top.at[2] \in 2..Top.at[1]
         /\ Top.at[2] - 1 \in 1..Top.at[1]
         /\ Node(PredOf(Top.at)) = graph[Top.at[1]][Top.at[2] - 1]
<1>1. Top.at[1] \in 1..Len(graph) /\ Top.at[2] \in 1..Top.at[1] /\ Top.at[2] > 1
  BY TopFacts DEF HasPred
<1>2. Top.at[1] \in Nat /\ Top.at[2] \in Nat
  BY <1>1
<1> QED
  BY <1>1, <1>2 DEF PredOf, Node

(* Facts an interpolant or a propagation adds hold after the predecessor.    *)
LEMMA RecalculatedFollow ==
  ASSUME NEW node, NEW pred, NEW facts \in SUBSET Fact,
         NEW new \in RecalculateFacts(node, pred, facts)
  PROVE  new \in SUBSET Fact /\ Follow(new, pred)
<1>1. CASE Undecided("implied")
  BY <1>1 DEF RecalculateFacts, Follow
<1>2. CASE ~ Undecided("implied")
  BY <1>2 DEF RecalculateFacts, Implied, Follow
<1> QED
  BY <1>1, <1>2

LEMMA RefineStep ==
  ASSUME TypeOK, goals # << >>, NEW d, Refine(d)
  PROVE  GraphStep
<1>1. HasPred(Top.at)
  BY DEF Refine
<1>2. PICK x \in Interpolants(Node(PredOf(Top.at)), d) : graph' = AddFact(Top.at, x)
  BY DEF Refine
<1>3. x \in Fact /\ Follow({x}, Node(PredOf(Top.at)))
  BY <1>2 DEF Interpolants, Follow
<1> DEFINE i == Top.at[1]
           j == Top.at[2]
<1>4. i \in 1..Len(graph) /\ j \in 2..i /\ Node(PredOf(Top.at)) = graph[i][j - 1]
  BY <1>1, TopFacts, PredFacts
<1>5. Learn(i, j, {x})
  BY <1>2 DEF AddFact, Learn
<1>6. {x} \in SUBSET Fact /\ Follow({x}, graph[i][j - 1])
  BY <1>3, <1>4
<1> HIDE DEF i, j
<1> QED
  BY <1>4, <1>5, <1>6 DEF GraphStep

(* The nodes that a step of the loop looks at.                               *)
LEMMA NodeFacts ==
  ASSUME TypeOK, NEW i \in 1..Len(graph), NEW j \in 1..i
  PROVE  /\ graph[i] \in Seq(SUBSET Fact) /\ Len(graph[i]) = i
         /\ graph[i][j] \in SUBSET Fact
<1>1. graph[i] \in Seq(SUBSET Fact) /\ Len(graph[i]) = i
  BY DEF TypeOK
<1> QED
  BY <1>1

LEMMA PropagateGraph == TypeOK /\ Propagate => GraphStep
<1> SUFFICES ASSUME TypeOK, Propagate PROVE GraphStep
  OBVIOUS
<1>1. k \in 2..Len(graph) /\ k \in Nat /\ k - 1 \in 1..k /\ k - 1 \in 1..Len(graph) /\ k \in 1..k
      /\ k \in 1..Len(graph)
  <2>1. k \in 2..Len(graph)
    BY DEF Propagate
  <2>2. Len(graph) \in Nat
    BY DEF TypeOK
  <2> QED
    BY ONLY <2>1, <2>2
<1>2. Frame(k - 1) \ Frame(k) \in SUBSET Fact
  BY <1>1, NodeFacts DEF Frame
<1>3. PICK new \in RecalculateFacts(Frame(k), graph[k][k - 1], Frame(k - 1) \ Frame(k)) :
        Learn(k, k, new)
  BY DEF Propagate, Learn
<1>4. new \in SUBSET Fact /\ Follow(new, graph[k][k - 1])
  BY <1>2, <1>3, RecalculatedFollow
<1>5. k \in 2..k
  BY <1>1
<1> QED
  BY <1>1, <1>3, <1>4, <1>5 DEF GraphStep

LEMMA AddFrameGraph == Typed /\ AddFrame => GraphStep
<1> SUFFICES ASSUME Typed, AddFrame PROVE GraphStep
  OBVIOUS
<1> DEFINE n == Len(graph)
           last == graph[n]
<1>1. n \in Nat /\ n > 0 /\ n \in 1..n
  BY DEF Typed, TypeOK, Running, AddFrame
<1>2. last[n] \in SUBSET Fact
  BY <1>1, NodeFacts DEF Typed
<1>3. PICK new \in RecalculateFacts({}, last[n], last[n]) : graph' = Append(graph, Append(last, new))
  BY DEF AddFrame
<1>4. new \in SUBSET Fact /\ Follow(new, last[n])
  BY <1>2, <1>3, RecalculatedFollow
<1>5. Follow(new, Frame(n))
  BY <1>4 DEF Frame
<1> QED
  BY <1>1, <1>3, <1>4, <1>5 DEF GraphStep

(* Every step changes the graph in one of the ways that GraphStep has.       *)
LEMMA GraphSteps == Typed /\ [Next]_vars => prog' = prog /\ GraphStep
<1> SUFFICES ASSUME Typed, [Next]_vars PROVE prog' = prog /\ GraphStep
  OBVIOUS
<1>0. TypeOK
  BY DEF Typed
<1>1. CASE Begin
  BY <1>1 DEF Begin, GraphStep
<1>2. CASE FindInvariant \/ NoFrame \/ GoalLimit \/ Refuted \/ NoGoalLeft \/ Propagated
  BY <1>2 DEF FindInvariant, NoFrame, GoalLimit, Refuted, Turn, NoGoalLeft, Propagated, GraphStep
<1>3. CASE AddFrame
  BY <1>3, AddFrameGraph DEF AddFrame
<1>4. CASE Pursue
  <2>1. prog' = prog /\ goals # << >>
    BY <1>4 DEF Pursue, Turn
  <2>2. \/ graph' = graph
        \/ \E d : Refine(d)
    BY <1>4 DEF Pursue, NoDiagram, Reverse, Stay
  <2> QED
    BY <1>0, <2>1, <2>2, RefineStep DEF GraphStep
<1>5. CASE Propagate
  BY <1>0, <1>5, PropagateGraph DEF Propagate
<1>6. CASE UNCHANGED vars
  BY <1>6 DEF vars, GraphStep
<1> QED
  BY <1>1, <1>2, <1>3, <1>4, <1>5, <1>6 DEF Next, UpdrStep

Learned(i, j, X) ==
  /\ graph' \in Seq(Seq(SUBSET Fact))
  /\ Len(graph') = Len(graph)
  /\ \A a \in 1..Len(graph') : Len(graph'[a]) = a
  /\ \A a \in 1..Len(graph') : \A b \in 1..a :
       graph'[a][b] = IF a = i /\ b = j THEN graph[a][b] \cup X ELSE graph[a][b]

(* A node of the graph gets more facts.                                      *)
LEMMA LearnFacts ==
  ASSUME TypeOK, NEW X \in SUBSET Fact, NEW i \in 1..Len(graph), NEW j \in 1..i,
         Learn(i, j, X)
  PROVE  Learned(i, j, X)
<1> DEFINE r == [graph[i] EXCEPT ![j] = @ \cup X]
<1>0. graph \in Seq(Seq(SUBSET Fact)) /\ \A a \in 1..Len(graph) : Len(graph[a]) = a
  BY DEF TypeOK
<1>1. graph[i] \in Seq(SUBSET Fact) /\ Len(graph[i]) = i
  BY <1>0
<1>2. graph[i][j] \cup X \in SUBSET Fact
  <2>1. graph[i][j] \in SUBSET Fact
    BY <1>1
  <2> QED
    BY <2>1
<1>3. /\ r \in Seq(SUBSET Fact) /\ Len(r) = i
      /\ \A b \in 1..i : r[b] = IF b = j THEN graph[i][j] \cup X ELSE graph[i][b]
  BY ONLY <1>1, <1>2, j \in 1..i, ExceptSeq
<1>4. graph' = [graph EXCEPT ![i] = r]
  BY DEF Learn
<1> HIDE DEF r
<1>5. /\ graph' \in Seq(Seq(SUBSET Fact)) /\ Len(graph') = Len(graph)
      /\ \A a \in 1..Len(graph) : graph'[a] = IF a = i THEN r ELSE graph[a]
  <2>1. r \in Seq(SUBSET Fact)
    BY <1>3
  <2> QED
    BY ONLY <1>0, <1>4, <2>1, i \in 1..Len(graph), ExceptSeq
<1>6. \A a \in 1..Len(graph') : Len(graph'[a]) = a
  BY <1>0, <1>3, <1>5
<1>7. ASSUME NEW a \in 1..Len(graph'), NEW b \in 1..a
      PROVE  graph'[a][b] = IF a = i /\ b = j THEN graph[a][b] \cup X ELSE graph[a][b]
  <2>1. graph'[a] = IF a = i THEN r ELSE graph[a]
    BY <1>5, Zenon
  <2>2. CASE a = i
    <3>1. graph'[a][b] = r[b] /\ b \in 1..i
      BY <2>1, <2>2
    <3>2. r[b] = IF b = j THEN graph[i][j] \cup X ELSE graph[i][b]
      BY <1>3, <3>1
    <3> QED
      BY ONLY <2>2, <3>1, <3>2
  <2>3. CASE a # i
    BY ONLY <2>1, <2>3
  <2> QED
    BY <2>2, <2>3
<1> QED
  BY <1>5, <1>6, <1>7 DEF Learned

(* What is kept by such a step: nodes stay, their facts only grow, and those *)
(* of the initial states stay as they are.                                   *)
GraphGrows ==
  /\ Len(graph) \in Nat /\ Len(graph') \in Nat /\ Len(graph) <= Len(graph')
  /\ \A i \in 1..Len(graph) : \A j \in 1..i : graph[i][j] \subseteq graph'[i][j]
  /\ \A i \in 1..Len(graph) : graph'[i][1] = graph[i][1]

GraphTyped ==
  /\ graph \in Seq(Seq(SUBSET Fact))
  /\ \A i \in 1..Len(graph) : Len(graph[i]) = i

LEMMA GraphStepGrows ==
  ASSUME TypeOK, GraphStep
  PROVE  GraphTyped' /\ GraphGrows
<1>1. graph \in Seq(Seq(SUBSET Fact)) /\ Len(graph) \in Nat
      /\ \A i \in 1..Len(graph) : Len(graph[i]) = i
  BY DEF TypeOK
<1>2. CASE graph' = graph
  BY <1>1, <1>2 DEF GraphTyped, GraphGrows
<1>3. CASE graph = << >> /\ graph' = <<<<prog.init>>>>
  <2>1. prog.init \in SUBSET Fact
    BY ProgFacts
  <2>2. Len(graph) = 0 /\ Len(graph') = 1 /\ graph'[1] = <<prog.init>> /\ Len(<<prog.init>>) = 1
    BY <1>3
  <2>3. <<prog.init>> \in Seq(SUBSET Fact)
    BY <2>1
  <2>4. graph' \in Seq(Seq(SUBSET Fact))
    BY <1>3, <2>3
  <2> QED
    BY <2>2, <2>4 DEF GraphTyped, GraphGrows
<1>4. CASE /\ Len(graph) > 0
           /\ \E new \in SUBSET Fact :
                /\ Follow(new, Frame(Len(graph)))
                /\ graph' = Append(graph, Append(graph[Len(graph)], new))
  <2>1. PICK new \in SUBSET Fact : graph' = Append(graph, Append(graph[Len(graph)], new))
    BY <1>4
  <2> DEFINE n == Len(graph)
             row == Append(graph[n], new)
  <2>2. n \in 1..n /\ graph[n] \in Seq(SUBSET Fact) /\ Len(graph[n]) = n
    BY <1>1, <1>4
  <2>3. row \in Seq(SUBSET Fact) /\ Len(row) = n + 1
    BY ONLY <2>2, new \in SUBSET Fact, AppendFacts
  <2> HIDE DEF row
  <2>4. /\ graph' \in Seq(Seq(SUBSET Fact))
        /\ Len(graph') = Len(graph) + 1
        /\ \A i \in 1..Len(graph) : graph'[i] = graph[i]
        /\ graph'[Len(graph) + 1] = row
    <3>1. graph' = Append(graph, row)
      BY <2>1 DEF row
    <3> QED
      BY ONLY <1>1, <2>3, <3>1, AppendFacts
  <2> QED
    BY <1>1, <2>3, <2>4 DEF GraphTyped, GraphGrows
<1>5. CASE \E i \in 1..Len(graph) : \E j \in 2..i : \E X \in SUBSET Fact :
             Follow(X, graph[i][j - 1]) /\ Learn(i, j, X)
  <2> SUFFICES ASSUME NEW i \in 1..Len(graph), NEW j \in 2..i, NEW X \in SUBSET Fact,
                      Learn(i, j, X)
               PROVE  GraphTyped' /\ GraphGrows
    BY <1>5
  <2>2. j \in 1..i /\ j # 1
    BY <1>1
  <2>3. /\ graph' \in Seq(Seq(SUBSET Fact))
        /\ Len(graph') = Len(graph)
        /\ \A a \in 1..Len(graph') : Len(graph'[a]) = a
        /\ \A a \in 1..Len(graph') : \A b \in 1..a :
             graph'[a][b] = IF a = i /\ b = j THEN graph[a][b] \cup X ELSE graph[a][b]
    <3>1. Learned(i, j, X)
      BY <2>2, LearnFacts, Zenon
    <3> QED
      BY <3>1 DEF Learned
  <2>4. GraphTyped'
    BY <2>3 DEF GraphTyped
  <2>5. \A a \in 1..Len(graph) : \A b \in 1..a : graph[a][b] \subseteq graph'[a][b]
    BY <2>3
  <2>6. \A a \in 1..Len(graph) : graph'[a][1] = graph[a][1]
    <3> TAKE a \in 1..Len(graph)
    <3>1. 1 \in 1..a /\ a \in 1..Len(graph')
      BY <1>1, <2>3
    <3> QED
      BY <2>2, <2>3, <3>1
  <2> QED
    BY <1>1, <2>3, <2>4, <2>5, <2>6 DEF GraphGrows
<1> QED
  BY <1>2, <1>3, <1>4, <1>5 DEF GraphStep

-----------------------------------------------------------------------------
(* An execution: its states, its steps and its beginnings.                   *)
LEMMA ExecutionFacts ==
  ASSUME TypeOK, NEW n \in Nat \ {0}, NEW w \in Executions(n)
  PROVE  /\ \A j \in 1..n : w[j] \in State
         /\ w[1] \in Models(prog.init)
         /\ \A j \in 1..n - 1 : w[j + 1] \in ForwardImage({w[j]})
  BY DEF Executions, ForwardImage

LEMMA Beginning ==
  ASSUME TypeOK, NEW n \in Nat \ {0}, NEW w \in Executions(n + 1)
  PROVE  [j \in 1..n |-> w[j]] \in Executions(n)
<1> DEFINE u == [j \in 1..n |-> w[j]]
<1>1. /\ w \in [1..n + 1 -> State] /\ w[1] \in Models(prog.init)
      /\ \A j \in 1..n : w[j + 1] \in prog.step[w[j]]
  BY DEF Executions
<1>2. u \in [1..n -> State] /\ u[1] \in Models(prog.init)
  BY <1>1
<1>3. \A j \in 1..n - 1 : u[j + 1] \in prog.step[u[j]]
  BY <1>1
<1> QED
  BY <1>2, <1>3 DEF Executions

(* A state after one that satisfies a node satisfies what follows from it.   *)
LEMMA FollowFacts ==
  ASSUME NEW node, NEW X \in SUBSET Fact, Follow(X, node),
         NEW s \in Models(node), NEW t \in State, t \in ForwardImage({s})
  PROVE  t \in Models(X)
<1>1. t \in ForwardImage(Models(node))
  BY DEF ForwardImage
<1> QED
  BY <1>1 DEF Follow, Models

LEMMA ModelsUnion == \A A, B : Models(A \cup B) = Models(A) \cap Models(B)
  BY DEF Models

(* No step makes a node exclude a state that an execution has there.         *)
LEMMA FramesStep ==
  ASSUME TypeOK, FramesOverApproximate, GraphStep, prog' = prog
  PROVE  FramesOverApproximate'
<1>0. GraphTyped' /\ GraphGrows
  BY GraphStepGrows
<1>1. \A n : Executions(n)' = Executions(n)
  BY DEF Executions
<1>2. SUFFICES ASSUME NEW i \in 1..Len(graph'), NEW w \in Executions(i), NEW j \in 1..i
               PROVE  w[j] \in Models(graph'[i][j])
  BY <1>1 DEF FramesOverApproximate
<1>3. Len(graph) \in Nat /\ i \in Nat \ {0} /\ i \in 1..i /\ j \in Nat \ {0}
  BY <1>0 DEF GraphGrows
<1>4. \A jj \in 1..i : w[jj] \in State
  BY <1>3, ExecutionFacts
<1>5. i \in 1..Len(graph) => \A jj \in 1..i : w[jj] \in Models(graph[i][jj])
  BY DEF FramesOverApproximate
<1>6. CASE graph' = graph
  BY <1>5, <1>6
<1>7. CASE graph = << >> /\ graph' = <<<<prog.init>>>>
  <2>1. i = 1 /\ j = 1 /\ graph'[1][1] = prog.init
    BY <1>3, <1>7
  <2> QED
    BY <1>3, <2>1, ExecutionFacts
<1>8. CASE /\ Len(graph) > 0
           /\ \E new \in SUBSET Fact :
                /\ Follow(new, Frame(Len(graph)))
                /\ graph' = Append(graph, Append(graph[Len(graph)], new))
  <2>1. PICK new \in SUBSET Fact :
          /\ Follow(new, Frame(Len(graph)))
          /\ graph' = Append(graph, Append(graph[Len(graph)], new))
    BY <1>8
  <2> DEFINE n == Len(graph)
             row == Append(graph[n], new)
  <2>2. n \in 1..n /\ n \in Nat \ {0} /\ graph[n] \in Seq(SUBSET Fact) /\ Len(graph[n]) = n
    BY <1>3, <1>8, NodeFacts
  <2>3. /\ row \in Seq(SUBSET Fact) /\ Len(row) = n + 1
        /\ \A b \in 1..n : row[b] = graph[n][b]
        /\ row[n + 1] = new
    BY ONLY <2>2, new \in SUBSET Fact, AppendFacts
  <2>4. Len(graph') = n + 1 /\ graph'[n + 1] = row /\ \A a \in 1..n : graph'[a] = graph[a]
    <3>1. graph \in Seq(Seq(SUBSET Fact)) /\ graph' = Append(graph, row)
      BY <2>1 DEF TypeOK
    <3> HIDE DEF row
    <3> QED
      BY ONLY <2>3, <3>1, AppendFacts
  <2> HIDE DEF row, n
  <2>5. CASE i \in 1..n
    <3>1. graph'[i] = graph[i] /\ i \in 1..Len(graph)
      BY <2>4, <2>5 DEF n
    <3> QED
      BY <1>5, <3>1
  <2>6. CASE i = n + 1
    <3> DEFINE u == [jj \in 1..n |-> w[jj]]
    <3>1. u \in Executions(n)
      BY <2>2, <2>6, Beginning
    <3>2. \A jj \in 1..n : w[jj] \in Models(graph[n][jj])
      <4>1. \A jj \in 1..n : u[jj] \in Models(graph[n][jj])
        <5> HIDE DEF u
        <5>1. n \in 1..Len(graph)
          BY <2>2 DEF n
        <5> QED
          BY <3>1, <5>1 DEF FramesOverApproximate
      <4> QED
        BY <4>1
    <3>3. CASE j \in 1..n
      BY <2>3, <2>4, <2>6, <3>2, <3>3
    <3>4. CASE j = n + 1
      <4>1. w[n] \in Models(Frame(n)) /\ w[n + 1] \in State
        BY <1>4, <2>2, <2>6, <3>2, <3>4 DEF Frame
      <4>2. w[n + 1] \in ForwardImage({w[n]})
        BY <1>3, <2>2, <2>6, ExecutionFacts
      <4>3. Follow(new, Frame(n))
        BY <2>1 DEF n
      <4>4. w[n + 1] \in Models(new)
        BY <4>1, <4>2, <4>3, FollowFacts
      <4> QED
        BY <2>3, <2>4, <2>6, <3>4, <4>4
    <3> QED
      BY <2>2, <2>6, <3>3, <3>4
  <2> QED
    BY <2>2, <2>4, <2>5, <2>6
<1>9. CASE \E a \in 1..Len(graph) : \E b \in 2..a : \E X \in SUBSET Fact :
             Follow(X, graph[a][b - 1]) /\ Learn(a, b, X)
  <2> SUFFICES ASSUME NEW a \in 1..Len(graph), NEW b \in 2..a, NEW X \in SUBSET Fact,
                      Follow(X, graph[a][b - 1]), Learn(a, b, X)
               PROVE  w[j] \in Models(graph'[i][j])
    BY <1>9
  <2>1. b \in 1..a /\ b - 1 \in 1..a /\ b - 1 \in 1..a - 1 /\ b - 1 + 1 = b
    BY <1>3
  <2>2. Learned(a, b, X)
    BY <2>1, LearnFacts, Zenon
  <2>3. i \in 1..Len(graph)
    BY <2>2 DEF Learned
  <2>4. w[j] \in Models(graph[i][j])
    BY <1>5, <2>3
  <2>5. graph'[i][j] = IF i = a /\ j = b THEN graph[i][j] \cup X ELSE graph[i][j]
    BY <2>2 DEF Learned
  <2>6. CASE i = a /\ j = b
    <3>1. w[b - 1] \in Models(graph[a][b - 1]) /\ w[b] \in State
      BY <1>4, <1>5, <2>1, <2>3, <2>6
    <3>2. w[b] \in ForwardImage({w[b - 1]})
      <4>1. \A jj \in 1..a - 1 : w[jj + 1] \in ForwardImage({w[jj]})
        BY <1>3, <2>6, ExecutionFacts
      <4> QED
        BY <2>1, <4>1
    <3>3. w[b] \in Models(X)
      BY <3>1, <3>2, FollowFacts
    <3> QED
      BY <2>4, <2>5, <2>6, <3>3, ModelsUnion
  <2>7. CASE ~ (i = a /\ j = b)
    BY <2>4, <2>5, <2>7
  <2> QED
    BY <2>6, <2>7
<1> QED
  BY <1>6, <1>7, <1>8, <1>9 DEF GraphStep

-----------------------------------------------------------------------------
(* A goal at a node of a graph of n states.                                  *)
Placed(g, n) == g \in Goal /\ g.at[1] \in 1..n /\ g.at[2] \in 1..g.at[1]

GoalsTyped == goals \in Seq(Goal) /\ \A n \in 1..Len(goals) : Placed(goals[n], Len(graph))

(* The state a diagram is drawn from, and the diagram.                       *)
LEMMA DiagramFacts ==
  ASSUME TypeOK, goals # << >>, NEW s \in Models(Node(Top.at)) \cap Top.formula
  PROVE  /\ s \in State /\ Diagram[s] \in Fact /\ s \in Diagram[s]
         /\ BackwardImage(Diagram[s]) \in Fact
  BY DiagramAssumption DEF Models, Fact, BackwardImage

(* What the stack becomes in a turn that refines, reverses or stays.         *)
LEMMA TurnGoals ==
  ASSUME TypeOK, goals # << >>, NEW s \in Models(Node(Top.at)) \cap Top.formula,
         Refine(Diagram[s]) \/ Reverse(Diagram[s]) \/ Stay(Diagram[s])
  PROVE  /\ goals' \in Seq(Goal)
         /\ Len(goals') \in Nat /\ Len(goals) <= Len(goals')
         /\ \A n \in 1..Len(goals) : goals'[n] = goals[n]
         /\ \A n \in 1..Len(goals') : n > Len(goals) =>
              /\ goals'[n] \in Goal
              /\ goals'[n].at[1] = Top.at[1]
              /\ goals'[n].at[2] \in {Top.at[2], Top.at[2] - 1} \cap 1..Top.at[1]
<1> DEFINE d == Diagram[s]
           i == Top.at[1]
           j == Top.at[2]
           g == GoalAt(Top.at, d)
           p == GoalAt(PredOf(Top.at), BackwardImage(d))
<1>1. /\ Len(goals) \in Nat /\ Len(goals) > 0 /\ goals \in Seq(Goal)
      /\ i \in Nat \ {0} /\ j \in 1..i /\ j \in Nat \ {0} /\ Top.at = <<i, j>>
  <2>1. goals \in Seq(Goal) /\ Len(graph) \in Nat
    BY DEF TypeOK
  <2> QED
    BY <2>1, TopFacts
<1>2. g \in Goal /\ g.at[1] = i /\ g.at[2] = j
  <2>1. d \in Fact /\ g = GoalAt(<<i, j>>, d)
    BY <1>1, DiagramFacts
  <2> QED
    BY ONLY <1>1, <2>1, GoalAtFacts
<1>3. CASE Refine(d)
  BY <1>1, <1>3 DEF Refine
<1>4. CASE Stay(d)
  <2>1. goals' = Append(goals, g)
    BY <1>4 DEF Stay
  <2> HIDE DEF g, i, j
  <2>2. /\ goals' \in Seq(Goal)
        /\ Len(goals') = Len(goals) + 1
        /\ \A n \in 1..Len(goals) : goals'[n] = goals[n]
        /\ goals'[Len(goals) + 1] = g
    BY ONLY <1>1, <1>2, <2>1, AppendFacts
  <2>3. ASSUME NEW n \in 1..Len(goals'), n > Len(goals) PROVE n = Len(goals) + 1
    BY ONLY <1>1, <2>2, <2>3
  <2> QED
    BY <1>1, <1>2, <2>2, <2>3 DEF i, j
<1>5. CASE Reverse(d)
  <2>1. goals' = goals \o <<g, p>> /\ HasPred(Top.at)
    BY <1>5 DEF Reverse
  <2>2. PredOf(Top.at) = <<i, j - 1>> /\ j - 1 \in 1..i /\ j - 1 \in Nat \ {0}
    BY <1>1, <2>1, PredFacts
  <2>3. p \in Goal /\ p.at[1] = i /\ p.at[2] = j - 1
    BY <1>1, <2>2, DiagramFacts, GoalAtFacts
  <2> HIDE DEF g, p, i, j
  <2>4. /\ goals' \in Seq(Goal)
        /\ Len(goals') = Len(goals) + 2
        /\ \A n \in 1..Len(goals) : goals'[n] = goals[n]
        /\ goals'[Len(goals) + 1] = g
        /\ goals'[Len(goals) + 2] = p
    BY ONLY <1>1, <1>2, <2>1, <2>3, AppendTwoFacts
  <2>5. ASSUME NEW n \in 1..Len(goals'), n > Len(goals)
        PROVE  n = Len(goals) + 1 \/ n = Len(goals) + 2
    BY ONLY <1>1, <2>4, <2>5
  <2> QED
    BY <1>1, <1>2, <2>2, <2>3, <2>4, <2>5 DEF i, j
<1> QED
  BY <1>3, <1>4, <1>5

(* The goals stay at nodes of the graph.                                     *)
LEMMA GoalsTypedNext == Typed /\ [Next]_vars => GoalsTyped'
<1> SUFFICES ASSUME Typed, [Next]_vars PROVE GoalsTyped'
  OBVIOUS
<1>0. /\ TypeOK /\ goals \in Seq(Goal) /\ Len(goals) \in Nat
      /\ GraphTyped' /\ GraphGrows /\ prog' = prog
  BY GraphSteps, GraphStepGrows DEF Typed, TypeOK
<1>1. ASSUME NEW g, Placed(g, Len(graph)) PROVE Placed(g, Len(graph'))
  BY <1>0, <1>1 DEF Placed, GraphGrows
<1>2. \A n \in 1..Len(goals) : Placed(goals[n], Len(graph))
  BY <1>0, GoalFacts DEF Placed
<1>3. GoalsTyped
  BY <1>0, <1>2 DEF GoalsTyped
<1>4. CASE goals' = goals
  BY <1>1, <1>3, <1>4 DEF GoalsTyped
<1>5. CASE goals' = << >>
  BY <1>5 DEF GoalsTyped
<1>6. CASE AddFrame
  <2> DEFINE n == Len(graph)
             g == GoalAt(<<n + 1, n + 1>>, Bad)
  <2>1. goals' = Append(goals, g)
    BY <1>6 DEF AddFrame
  <2>2. Len(graph') = n + 1 /\ n \in Nat
    <3>1. n \in Nat
      BY <1>0 DEF GraphGrows
    <3>2. PICK new : graph' = Append(graph, new)
      BY <1>6 DEF AddFrame
    <3> QED
      BY <1>0, <3>1, <3>2, LenProperties DEF TypeOK
  <2>3. Bad \in Fact
    BY DEF Bad, Fact
  <2>4. g \in Goal /\ g.at[1] = n + 1 /\ g.at[2] = n + 1
    BY <2>2, <2>3, GoalAtFacts
  <2>5. Placed(g, Len(graph'))
    BY <2>2, <2>4 DEF Placed
  <2> HIDE DEF g
  <2>6. /\ goals' \in Seq(Goal)
        /\ Len(goals') = Len(goals) + 1
        /\ \A m \in 1..Len(goals) : goals'[m] = goals[m]
        /\ goals'[Len(goals) + 1] = g
    BY ONLY <1>0, <2>1, <2>4, AppendFacts
  <2> QED
    BY <1>0, <1>1, <1>2, <2>5, <2>6 DEF GoalsTyped
<1>7. CASE Refuted
  <2>1. goals # << >> /\ goals' = SubSeq(goals, 1, Len(goals) - 1)
    BY <1>7 DEF Refuted, Turn
  <2>2. /\ goals' \in Seq(Goal) /\ Len(goals') = Len(goals) - 1
        /\ \A m \in 1..Len(goals) - 1 : goals'[m] = goals[m]
    BY ONLY <1>0, <2>1, FrontFacts
  <2> QED
    BY <1>0, <1>1, <1>2, <2>2 DEF GoalsTyped
<1>8. CASE Pursue
  <2>1. goals # << >>
    BY <1>8 DEF Pursue, Turn
  <2>2. CASE goals' # goals
    <3>1. PICK s \in Models(Node(Top.at)) \cap Top.formula :
            Refine(Diagram[s]) \/ Reverse(Diagram[s]) \/ Stay(Diagram[s])
      BY <1>8, <2>2 DEF Pursue, NoDiagram
    <3>2. /\ goals' \in Seq(Goal)
          /\ Len(goals') \in Nat /\ Len(goals) <= Len(goals')
          /\ \A n \in 1..Len(goals) : goals'[n] = goals[n]
          /\ \A n \in 1..Len(goals') : n > Len(goals) =>
               /\ goals'[n] \in Goal
               /\ goals'[n].at[1] = Top.at[1]
               /\ goals'[n].at[2] \in {Top.at[2], Top.at[2] - 1} \cap 1..Top.at[1]
      BY <1>0, <2>1, <3>1, TurnGoals
    <3>3. Top.at[1] \in 1..Len(graph')
      BY <1>0, <2>1, TopFacts DEF GraphGrows
    <3>4. \A n \in 1..Len(goals') : n > Len(goals) => Placed(goals'[n], Len(graph'))
      BY <3>2, <3>3 DEF Placed
    <3>5. \A n \in 1..Len(goals') : n <= Len(goals) => Placed(goals'[n], Len(graph'))
      BY <1>0, <1>1, <1>2, <3>2
    <3> QED
      BY <1>0, <3>2, <3>4, <3>5 DEF GoalsTyped
  <2> QED
    BY <1>4, <2>2
<1>9. CASE Begin
  BY <1>5, <1>9 DEF Begin
<1>10. CASE FindInvariant \/ NoFrame \/ GoalLimit \/ NoGoalLeft \/ Propagate \/ Propagated
  BY <1>4, <1>10 DEF FindInvariant, NoFrame, GoalLimit, NoGoalLeft, Propagate, Propagated
<1>11. CASE UNCHANGED vars
  BY <1>4, <1>11 DEF vars
<1> QED
  BY <1>6, <1>7, <1>8, <1>9, <1>10, <1>11 DEF Next, UpdrStep

(* The initial states are typed. *)
LEMMA TypedInit == Init => Typed
<1> SUFFICES ASSUME Init PROVE Typed
  OBVIOUS
<1>1. graph \in Seq(Seq(SUBSET Fact)) /\ Len(graph) = 0 /\ goals \in Seq(Goal) /\ Len(goals) = 0
  BY DEF Init
<1>2. Running
  BY DEF Init, Running
<1> QED
  BY <1>1, <1>2, BoundsAssumption DEF Init, Typed, TypeOK, Results

(* The rest of the state: the program counter, the counters and the result.  *)
Rest == /\ prog \in Programs
        /\ pc \in {"idle", "cover", "goals", "propagate"}
        /\ iter \in 0..MaxFrames
        /\ steps \in 0..MaxGoalSteps + 1
        /\ base \in 0..Len(graph)
        /\ k \in Nat \ {0}
        /\ result \in Results
        /\ runs \in 0..MaxRuns
        /\ Running

LEMMA RestNext == Typed /\ [Next]_vars => Rest'
<1> SUFFICES ASSUME Typed, [Next]_vars PROVE Rest'
  OBVIOUS
<1>0. /\ Rest /\ GraphGrows /\ prog' = prog
      /\ MaxFrames \in Nat /\ MaxGoalSteps \in Nat /\ MaxRuns \in Nat
  BY GraphSteps, GraphStepGrows, BoundsAssumption DEF Typed, TypeOK, Rest
<1>1. /\ Len(graph) \in Nat /\ Len(graph') \in Nat /\ Len(graph) <= Len(graph')
      /\ base \in 0..Len(graph')
  BY <1>0 DEF GraphGrows, Rest
<1> USE DEF Rest, Running, Results
<1>2. CASE Begin
  <2>1. Len(graph') > 0
    <3>1. CASE graph = << >>
      <4>1. graph' = <<<<prog.init>>>>
        BY <1>2, <3>1 DEF Begin
      <4> QED
        BY <4>1
    <3>2. CASE graph # << >>
      <4>1. Len(graph) > 0
        BY <3>2, <1>1 DEF Typed, TypeOK
      <4> QED
        BY <1>1, <4>1
    <3> QED
      BY <3>1, <3>2
  <2>2. prog' \in Programs /\ steps' = 0 /\ iter' = 0 /\ k' = 1 /\ base' = Len(graph')
        /\ runs' = runs + 1 /\ runs < MaxRuns
    BY <1>0, <1>2 DEF Begin
  <2>3. \/ pc' = "idle" /\ result' = "nothing_to_prove"
        \/ pc' = "cover" /\ result' = "none"
    BY <1>2 DEF Begin, Return
  <2> QED
    BY <1>0, <1>1, <2>1, <2>2, <2>3
<1>3. CASE FindInvariant
  BY <1>0, <1>1, <1>3 DEF FindInvariant, Return
<1>4. CASE AddFrame
  <2>1. Len(graph) > 0
    BY <1>0, <1>4 DEF AddFrame
  <2> QED
    BY <1>0, <1>1, <1>4, <2>1 DEF AddFrame
<1>5. CASE NoFrame
  BY <1>0, <1>1, <1>5 DEF NoFrame, Return
<1>6. CASE GoalLimit
  BY <1>0, <1>1, <1>6 DEF GoalLimit, Return
<1>7. CASE Refuted
  BY <1>0, <1>1, <1>7 DEF Refuted, Turn
<1>8. CASE Pursue
  <2>1. /\ steps' = steps + 1 /\ steps < MaxGoalSteps /\ UNCHANGED <<prog, iter, base, runs>>
        /\ pc = "goals"
    BY <1>8 DEF Pursue, Turn
  <2>2. /\ pc' \in {"idle", "goals", "propagate"}
        /\ result' \in {result, "no_invariant", "no_progress"}
        /\ pc' # "idle" => result' = result
        /\ k' \in {k, 2}
    BY <1>8, <2>1 DEF Pursue, NoDiagram, Refine, Reverse, Stay, EndTurn, Return
  <2> QED
    BY <1>0, <1>1, <2>1, <2>2
<1>9. CASE NoGoalLeft
  BY <1>0, <1>1, <1>9 DEF NoGoalLeft
<1>10. CASE Propagate
  BY <1>0, <1>1, <1>10 DEF Propagate
<1>11. CASE Propagated
  BY <1>0, <1>1, <1>11 DEF Propagated
<1>12. CASE UNCHANGED vars
  BY <1>0, <1>1, <1>12 DEF vars
<1> QED
  BY <1>2, <1>3, <1>4, <1>5, <1>6, <1>7, <1>8, <1>9, <1>10, <1>11, <1>12 DEF Next, UpdrStep

(* Every step keeps the types. *)
LEMMA TypedNext == Typed /\ [Next]_vars => Typed'
<1> SUFFICES ASSUME Typed, [Next]_vars PROVE Typed'
  OBVIOUS
<1>1. GraphTyped'
  BY GraphSteps, GraphStepGrows DEF Typed
<1>2. GoalsTyped' /\ Rest'
  BY GoalsTypedNext, RestNext
<1> QED
  BY <1>1, <1>2 DEF Typed, TypeOK, GraphTyped, GoalsTyped, Placed, Rest

(* Type correctness of the tactic's state, for any programs and bounds: each *)
(* state of the graph keeps all its predecessors, and each goal its node.    *)
THEOREM TypeCorrect == Spec => []TypeOK
<1>1. Typed => TypeOK
  BY DEF Typed
<1> QED
  BY <1>1, TypedInit, TypedNext, PTL DEF Spec

(* The frames over-approximate, for any programs and interpolants, with any  *)
(* queries left undecided, and over any number of runs on one graph.         *)
THEOREM FramesAreSound == Spec => []FramesOverApproximate
<1>1. Init => FramesOverApproximate
  BY DEF Init, FramesOverApproximate
<1>2. Typed /\ FramesOverApproximate /\ [Next]_vars => FramesOverApproximate'
  BY GraphSteps, FramesStep DEF Typed
<1> QED
  BY <1>1, <1>2, TypedInit, TypedNext, PTL DEF Spec

-----------------------------------------------------------------------------
(* A turn that refines adds a fact: the interpolant excludes the state that  *)
(* the diagram was drawn from, which the node did not.                       *)
LEMMA RefineProgress ==
  ASSUME TypeOK, goals # << >>, NEW s \in Models(Node(Top.at)) \cap Top.formula,
         Refine(Diagram[s])
  PROVE  graph' # graph
<1> DEFINE i == Top.at[1]
           j == Top.at[2]
<1>1. PICK x \in Interpolants(Node(PredOf(Top.at)), Diagram[s]) : graph' = AddFact(Top.at, x)
  BY DEF Refine
<1>2. x \cap Diagram[s] = {} /\ s \in Diagram[s] /\ x \in Fact
  BY <1>1, DiagramFacts DEF Interpolants
<1>3. x \notin graph[i][j]
  BY <1>2 DEF Models, Node
<1>4. i \in 1..Len(graph) /\ j \in 1..i /\ {x} \in SUBSET Fact
  BY <1>2, TopFacts
<1>5. Learn(i, j, {x})
  BY <1>1 DEF Learn, AddFact
<1> HIDE DEF i, j
<1>6. Learned(i, j, {x})
  BY <1>4, <1>5, LearnFacts, Zenon
<1>7. graph'[i][j] = graph[i][j] \cup {x}
  BY <1>4, <1>6 DEF Learned
<1> QED
  BY <1>3, <1>7

(* Every turn makes progress, whatever interpolants and diagrams are.        *)
THEOREM ProgressAlways == Spec => []AlwaysProgress
<1>1. Init => AlwaysProgress
  BY DEF Init, AlwaysProgress
<1>2. ASSUME Typed, AlwaysProgress, [Next]_vars PROVE AlwaysProgress'
  <2>1. CASE Pursue
    <3>1. goals # << >> /\ TypeOK /\ goals \in Seq(Goal)
      BY <1>2, <2>1 DEF Pursue, Turn, Typed, TypeOK
    <3>2. \/ result' \in {result, "no_invariant"}
          \/ \E s \in Models(Node(Top.at)) \cap Top.formula :
               Refine(Diagram[s]) \/ Reverse(Diagram[s]) \/ Stay(Diagram[s])
      BY <2>1 DEF Pursue, NoDiagram, Return
    <3>3. ASSUME NEW s \in Models(Node(Top.at)) \cap Top.formula,
                 Refine(Diagram[s]) \/ Reverse(Diagram[s]) \/ Stay(Diagram[s])
          PROVE  ~ (goals' = goals /\ graph' = graph)
      <4>1. CASE Refine(Diagram[s])
        BY <3>1, <4>1, RefineProgress
      <4>2. CASE Reverse(Diagram[s])
        <5>1. PICK a, b : goals' = goals \o <<a, b>>
          BY <4>2 DEF Reverse
        <5>2. Len(goals \o <<a, b>>) = Len(goals) + 2 /\ Len(goals) \in Nat
          BY <3>1
        <5> QED
          BY <5>1, <5>2
      <4>3. CASE Stay(Diagram[s])
        <5>1. PICK a : goals' = Append(goals, a)
          BY <4>3 DEF Stay
        <5>2. Len(Append(goals, a)) = Len(goals) + 1 /\ Len(goals) \in Nat
          BY <3>1
        <5> QED
          BY <5>1, <5>2
      <4> QED
        BY <3>3, <4>1, <4>2, <4>3
    <3>4. result' \in {result, "no_invariant"}
      <4>1. ASSUME NEW s \in Models(Node(Top.at)) \cap Top.formula,
                   Refine(Diagram[s]) \/ Reverse(Diagram[s]) \/ Stay(Diagram[s])
            PROVE  result' = result
        BY <3>3, <4>1 DEF Refine, Reverse, Stay, EndTurn
      <4> QED
        BY <3>2, <4>1
    <3> QED
      BY <1>2, <3>4 DEF AlwaysProgress
  <2>2. CASE Begin
    BY <2>2 DEF Begin, Return, AlwaysProgress
  <2>3. CASE FindInvariant \/ NoFrame \/ GoalLimit
    BY <2>3 DEF FindInvariant, NoFrame, GoalLimit, Return, AlwaysProgress
  <2>4. CASE AddFrame \/ Refuted \/ NoGoalLeft \/ Propagate \/ Propagated
    BY <1>2, <2>4 DEF AddFrame, Refuted, NoGoalLeft, Propagate, Propagated, AlwaysProgress
  <2>5. CASE UNCHANGED vars
    BY <1>2, <2>5 DEF vars, AlwaysProgress
  <2> QED
    BY <1>2, <2>1, <2>2, <2>3, <2>4, <2>5 DEF Next, UpdrStep
<1> QED
  BY <1>1, <1>2, TypedInit, TypedNext, PTL DEF Spec

-----------------------------------------------------------------------------
(* A goal leaves the stack when it is refuted, or when a new run begins.     *)
LEMMA GoalsKept ==
  ASSUME Typed, [Next]_vars, ~ Begin, NEW n \in 1..Len(goals)
  PROVE  \/ n \in 1..Len(goals') /\ goals'[n] = goals[n]
         \/ n = Len(goals) /\ RefutedGoal(goals[n])
<1>0. TypeOK /\ goals \in Seq(Goal) /\ Len(goals) \in Nat /\ n \in Nat /\ goals # << >>
  BY DEF Typed, TypeOK
<1>1. CASE goals' = goals
  BY <1>1
<1>2. CASE AddFrame
  <2> DEFINE i == Len(graph)
  <2>1. goals' = Append(goals, GoalAt(<<i + 1, i + 1>>, Bad)) /\ i \in Nat
    BY <1>0, <1>2 DEF AddFrame, TypeOK
  <2>2. GoalAt(<<i + 1, i + 1>>, Bad) \in Goal
    BY <2>1, GoalAtFacts DEF Bad, Fact
  <2> HIDE DEF i
  <2>3. Len(goals') = Len(goals) + 1 /\ \A m \in 1..Len(goals) : goals'[m] = goals[m]
    BY ONLY <1>0, <2>1, <2>2, AppendFacts
  <2> QED
    BY <1>0, <2>3
<1>3. CASE Refuted
  <2>1. goals' = SubSeq(goals, 1, Len(goals) - 1) /\ RefutedGoal(goals[Len(goals)])
    BY <1>3 DEF Refuted, Top
  <2>2. /\ Len(goals') = Len(goals) - 1
        /\ \A m \in 1..Len(goals) - 1 : goals'[m] = goals[m]
    BY ONLY <1>0, <2>1, FrontFacts
  <2>3. CASE n = Len(goals)
    BY <2>1, <2>3
  <2>4. CASE n \in 1..Len(goals) - 1
    BY <2>2, <2>4
  <2> QED
    BY <1>0, <2>3, <2>4
<1>4. CASE Pursue /\ goals' # goals
  <2>1. PICK s \in Models(Node(Top.at)) \cap Top.formula :
          Refine(Diagram[s]) \/ Reverse(Diagram[s]) \/ Stay(Diagram[s])
    BY <1>4 DEF Pursue, NoDiagram
  <2>2. /\ Len(goals') \in Nat /\ Len(goals) <= Len(goals')
        /\ \A m \in 1..Len(goals) : goals'[m] = goals[m]
    BY <1>0, <2>1, TurnGoals
  <2> QED
    BY <1>0, <2>2
<1>5. CASE FindInvariant \/ NoFrame \/ GoalLimit \/ NoGoalLeft \/ Propagate \/ Propagated
  BY <1>1, <1>5 DEF FindInvariant, NoFrame, GoalLimit, NoGoalLeft, Propagate, Propagated
<1>6. CASE UNCHANGED vars
  BY <1>1, <1>6 DEF vars
<1> QED
  BY <1>1, <1>2, <1>3, <1>4, <1>5, <1>6 DEF Next, UpdrStep

(* The facts of the initial states, and the copies of them, never change.    *)
LEMMA InitialKept ==
  ASSUME Typed, [Next]_vars, NEW n \in 1..Len(goals)
  PROVE  goals[n].at[2] = 1 => graph'[goals[n].at[1]][goals[n].at[2]] = Node(goals[n].at)
<1>1. GraphGrows /\ TypeOK
  BY GraphSteps, GraphStepGrows DEF Typed
<1>2. goals[n].at[1] \in 1..Len(graph)
  BY <1>1, GoalFacts
<1> QED
  BY <1>1, <1>2 DEF GraphGrows, Node

LEMMA SameAtInitial ==
  ASSUME Typed, [Next]_vars, NEW n \in 1..Len(goals), NEW m, goals'[m] = goals[n]
  PROVE  AtInitialState(goals[m])' <=> AtInitialState(goals[n])
<1>1. AtInitialState(goals[m])' <=>
        /\ goals[n].at[2] = 1
        /\ Models(graph'[goals[n].at[1]][goals[n].at[2]]) \cap goals[n].formula # {}
  BY DEF AtInitialState, RefutedGoal, Node
<1> QED
  BY <1>1, InitialKept DEF AtInitialState, RefutedGoal

(* A counterexample at the initial state stays on the stack.                 *)
THEOREM KeptCounterexample == Spec => CounterexampleKept
<1>1. ASSUME Typed, [Next]_vars
      PROVE  [\A n \in 1..Len(goals) :
                AtInitialState(goals[n]) /\ pc # "idle" /\ pc' # "idle" =>
                  n <= Len(goals') /\ goals'[n] = goals[n] /\ AtInitialState(goals[n])']_vars
  <2> SUFFICES ASSUME NEW n \in 1..Len(goals), AtInitialState(goals[n]), pc # "idle"
               PROVE  n <= Len(goals') /\ goals'[n] = goals[n] /\ AtInitialState(goals[n])'
    OBVIOUS
  <2>1. ~ Begin
    BY DEF Begin
  <2>2. ~ RefutedGoal(goals[n])
    BY DEF AtInitialState
  <2>3. n \in 1..Len(goals') /\ goals'[n] = goals[n]
    BY <1>1, <2>1, <2>2, GoalsKept
  <2>4. AtInitialState(goals[n])'
    BY <1>1, <2>3, SameAtInitial
  <2> QED
    BY <2>3, <2>4
<1> QED
  BY <1>1, TypedInit, TypedNext, PTL DEF Spec, CounterexampleKept

-----------------------------------------------------------------------------
(* A frame that the run has added is clear of bad states, or its goal is     *)
(* still on the stack.                                                       *)
Cleared ==
  \A i \in base + 1..Len(graph) : Abandoned(i) \/ Models(Frame(i)) \cap Bad = {}

LEMMA ModelsShrink == \A A, B : A \subseteq B => Models(B) \subseteq Models(A)
  BY DEF Models

(* States are added to the graph by a new run and with a new frame.          *)
LEMMA SameLength ==
  ASSUME Typed, [Next]_vars, ~ Begin, ~ AddFrame
  PROVE  Len(graph') = Len(graph)
<1>1. graph \in Seq(Seq(SUBSET Fact))
  BY DEF Typed, TypeOK
<1>2. CASE Pursue
  <2>1. CASE graph' = graph
    BY <2>1
  <2>2. CASE graph' # graph
    <3>1. PICK x : graph' = AddFact(Top.at, x)
      BY <1>2, <2>2 DEF Pursue, NoDiagram, Refine, Reverse, Stay
    <3>2. PICK row : graph' = [graph EXCEPT ![Top.at[1]] = row]
      BY <3>1 DEF AddFact
    <3> QED
      BY <1>1, <3>2
  <2> QED
    BY <2>1, <2>2
<1>3. CASE Propagate
  BY <1>1, <1>3 DEF Propagate
<1>4. CASE FindInvariant \/ NoFrame \/ GoalLimit \/ Refuted \/ NoGoalLeft \/ Propagated
  BY <1>4 DEF FindInvariant, NoFrame, GoalLimit, Refuted, NoGoalLeft, Propagated
<1>5. CASE UNCHANGED vars
  BY <1>5 DEF vars
<1> QED
  BY <1>2, <1>3, <1>4, <1>5 DEF Next, UpdrStep

LEMMA ClearedNext == Typed /\ Cleared /\ [Next]_vars => Cleared'
<1> SUFFICES ASSUME Typed, Cleared, [Next]_vars PROVE Cleared'
  OBVIOUS
<1>0. /\ TypeOK /\ GraphGrows /\ prog' = prog
      /\ base \in Nat /\ Len(graph) \in Nat /\ Len(graph') \in Nat
      /\ goals \in Seq(Goal) /\ Len(goals) \in Nat
  BY GraphSteps, GraphStepGrows DEF Typed, TypeOK, GraphGrows
<1>1. Bad' = Bad
  BY <1>0 DEF Bad
<1>2. CASE Begin
  BY <1>0, <1>2 DEF Begin, Cleared
<1>3. CASE ~ Begin
  <2>1. base' = base
    BY <1>3 DEF Next, UpdrStep, FindInvariant, AddFrame, NoFrame, GoalLimit, Refuted, Turn, Pursue,
                NoGoalLeft, Propagate, Propagated, vars
  <2> SUFFICES ASSUME NEW i \in base + 1..Len(graph')
               PROVE  Abandoned(i)' \/ Models(Frame(i))' \cap Bad = {}
    BY <1>1, <2>1 DEF Cleared
  <2>2. CASE i \in 1..Len(graph)
    <3>1. i \in base + 1..Len(graph) /\ i \in 1..i
      BY <1>0, <2>2
    <3>2. Models(Frame(i))' \subseteq Models(Frame(i))
      BY <1>0, <2>2, <3>1, ModelsShrink DEF GraphGrows, Frame, Models
    <3>3. CASE Models(Frame(i)) \cap Bad = {}
      BY <3>2, <3>3
    <3>4. CASE Abandoned(i)
      <4>1. PICK n \in 1..Len(goals) : goals[n] = GoalAt(<<i, i>>, Bad)
        BY <3>4 DEF Abandoned
      <4>2. CASE n \in 1..Len(goals') /\ goals'[n] = goals[n]
        BY <1>1, <4>1, <4>2 DEF Abandoned, GoalAt
      <4>3. CASE RefutedGoal(goals[n])
        <5>1. goals[n].at = <<i, i>> /\ goals[n].formula = Bad
          BY <4>1 DEF GoalAt
        <5>2. Models(Frame(i)) \cap Bad = {}
          BY <4>3, <5>1 DEF RefutedGoal, Node, Frame
        <5> QED
          BY <3>2, <5>2
      <4> QED
        BY <1>3, <4>2, <4>3, GoalsKept
    <3> QED
      BY <3>1, <3>3, <3>4 DEF Cleared
  <2>3. CASE i \notin 1..Len(graph)
    <3>1. AddFrame
      BY <1>0, <1>3, <2>3, SameLength
    <3> DEFINE m == Len(graph)
               g == GoalAt(<<m + 1, m + 1>>, Bad)
    <3>2. goals' = Append(goals, g)
      BY <3>1 DEF AddFrame
    <3>3. g \in Goal
      BY <1>0, GoalAtFacts DEF Bad, Fact
    <3> HIDE DEF g
    <3>4. Len(goals') = Len(goals) + 1 /\ goals'[Len(goals) + 1] = g
      BY ONLY <1>0, <3>2, <3>3, AppendFacts
    <3>5. Len(graph') = m + 1
      <4>1. PICK new : graph' = Append(graph, new)
        BY <3>1 DEF AddFrame
      <4> QED
        BY <1>0, <4>1, LenProperties DEF TypeOK
    <3>6. i = m + 1 /\ Len(goals) + 1 \in 1..Len(goals')
      BY <1>0, <2>3, <3>4, <3>5
    <3>7. goals'[Len(goals) + 1] = GoalAt(<<i, i>>, Bad)
      BY <3>4, <3>6 DEF g
    <3> QED
      BY <1>1, <3>6, <3>7 DEF Abandoned, GoalAt
  <2> QED
    BY <2>2, <2>3
<1> QED
  BY <1>2, <1>3

(* A proof holds to the depth of the frames that the run has cleared, for    *)
(* any programs: the frames over-approximate, and they are clear.            *)
THEOREM ProofToDepth == Spec => []ProvedToDepth
<1>1. Init => Cleared
  BY DEF Init, Cleared
<1>2. Init => FramesOverApproximate
  BY DEF Init, FramesOverApproximate
<1>3. Typed /\ FramesOverApproximate /\ [Next]_vars => FramesOverApproximate'
  BY GraphSteps, FramesStep DEF Typed
<1>4. Typed /\ Cleared /\ FramesOverApproximate => ProvedToDepth
  <2> SUFFICES ASSUME Typed, Cleared, FramesOverApproximate,
                      NEW i \in base + 1..Len(graph), ~ Abandoned(i), NEW w \in Executions(i)
               PROVE  w[i] \notin Bad
    BY DEF ProvedToDepth
  <2>1. i \in 1..Len(graph) /\ i \in 1..i
    BY DEF Typed, TypeOK
  <2>2. w[i] \in Models(Frame(i))
    BY <2>1 DEF FramesOverApproximate, Frame
  <2> QED
    BY <2>2 DEF Cleared
<1> QED
  BY <1>1, <1>2, <1>3, <1>4, ClearedNext, TypedInit, TypedNext, PTL DEF Spec

-----------------------------------------------------------------------------
(* A counterexample that has reached the initial state is on top, and the    *)
(* run stays in the loop or has ended there.                                 *)
Stuck == pc \in {"goals", "idle"} /\ result # "invariant"
OnTop ==
  ~ Undecided("diagram") =>
    \A n \in 1..Len(goals) :
      AtInitialState(goals[n]) => AtInitialState(goals[Len(goals)]) /\ Stuck

LEMMA StuckNext ==
  ASSUME Typed, Pursue, Stuck, ~ Undecided("diagram"), AtInitialState(Top)
  PROVE  Stuck'
<1>1. ~ NoDiagram
  BY DEF NoDiagram, AtInitialState
<1> QED
  BY <1>1 DEF Pursue, Turn, Return, Refine, Reverse, Stay, EndTurn, Stuck

LEMMA OnTopPursue == Typed /\ OnTop /\ Pursue => OnTop'
<1> SUFFICES ASSUME Typed, OnTop, Pursue, ~ Undecided("diagram"),
                    NEW n \in 1..Len(goals'), AtInitialState(goals[n])'
             PROVE  (AtInitialState(goals[Len(goals)]) /\ Stuck)'
  BY DEF OnTop, Pursue, Turn, Undecided
<1>0. /\ TypeOK /\ [Next]_vars /\ goals # << >> /\ pc = "goals"
      /\ goals \in Seq(Goal) /\ Len(goals) \in Nat /\ Len(goals) > 0
      /\ Top = goals[Len(goals)] /\ Len(goals) \in 1..Len(goals)
  <2>1. goals # << >> /\ pc = "goals"
    BY DEF Pursue, Turn
  <2>2. TypeOK /\ goals \in Seq(Goal)
    BY DEF Typed, TypeOK
  <2>3. Len(goals) \in Nat /\ Len(goals) > 0 /\ Top = goals[Len(goals)]
    BY <2>1, <2>2, TopFacts
  <2>4. [Next]_vars
    BY DEF Next, UpdrStep
  <2> QED
    BY <2>1, <2>2, <2>3, <2>4
<1>1. CASE AtInitialState(Top)
  <2>1. Stuck'
    BY <1>0, <1>1, StuckNext DEF OnTop
  <2>2. CASE goals' = goals
    <3>1. AtInitialState(goals[Len(goals)])'
      BY <1>0, <1>1, <2>2, SameAtInitial
    <3> QED
      BY <2>1, <2>2, <3>1
  <2>3. CASE goals' # goals
    <3>1. PICK s \in Models(Node(Top.at)) \cap Top.formula : Stay(Diagram[s])
      BY <1>1, <2>3 DEF Pursue, NoDiagram, AtInitialState, Refine, Reverse, HasPred
    <3> DEFINE g == GoalAt(Top.at, Diagram[s])
    <3>2. goals' = Append(goals, g) /\ graph' = graph
      BY <3>1 DEF Stay
    <3>3. g \in Goal /\ g.at = Top.at /\ g.formula = Diagram[s]
      BY <1>0, <3>1, DiagramFacts, TopFacts DEF GoalAt, Goal
    <3>4. Top.at[2] = 1 /\ s \in Models(graph[Top.at[1]][Top.at[2]]) \cap Diagram[s]
      BY <1>0, <1>1, <3>1, DiagramFacts DEF AtInitialState, Node
    <3> HIDE DEF g
    <3>5. Len(goals') = Len(goals) + 1 /\ goals'[Len(goals) + 1] = g
      BY ONLY <1>0, <3>2, <3>3, AppendFacts
    <3>6. goals'[Len(goals')] = g
      BY <3>5
    <3>7. AtInitialState(goals[Len(goals)])'
      BY <3>2, <3>3, <3>4, <3>6 DEF AtInitialState, RefutedGoal, Node
    <3> QED
      BY <2>1, <3>7
  <2> QED
    BY <2>2, <2>3
<1>2. CASE ~ AtInitialState(Top)
  <2>1. \A m \in 1..Len(goals) : ~ AtInitialState(goals[m])
    BY <1>0, <1>2 DEF OnTop
  <2>2. ~ (n \in 1..Len(goals) /\ goals'[n] = goals[n])
    BY <1>0, <2>1, SameAtInitial
  <2>3. goals' # goals
    BY <2>2
  <2>4. PICK s \in Models(Node(Top.at)) \cap Top.formula :
          Refine(Diagram[s]) \/ Reverse(Diagram[s]) \/ Stay(Diagram[s])
    BY <2>3 DEF Pursue, NoDiagram
  <2>5. /\ \A m \in 1..Len(goals) : goals'[m] = goals[m]
        /\ Len(goals') \in Nat
    BY <1>0, <2>4, TurnGoals
  <2>6. ~ Stay(Diagram[s])
    BY <1>0, <1>2, <2>4, TopFacts DEF Stay, HasPred, AtInitialState, RefutedGoal
  <2>7. Reverse(Diagram[s])
    BY <2>3, <2>4, <2>6 DEF Refine
  <2> DEFINE g == GoalAt(Top.at, Diagram[s])
             p == GoalAt(PredOf(Top.at), BackwardImage(Diagram[s]))
  <2>8. goals' = goals \o <<g, p>> /\ HasPred(Top.at)
    BY <2>7 DEF Reverse
  <2>9. g \in Goal /\ g.at[2] # 1 /\ p \in Goal
    <3>1. g \in Goal /\ g.at = Top.at
      BY <1>0, <2>4, DiagramFacts, TopFacts DEF GoalAt, Goal
    <3>2. PredOf(Top.at) \in (Nat \ {0}) \X (Nat \ {0})
      <4>1. Top.at[1] \in Nat \ {0}
        BY <1>0, TopFacts DEF TypeOK
      <4> QED
        BY <1>0, <2>8, <4>1, PredFacts
    <3>3. p \in Goal
      BY <1>0, <2>4, <3>2, DiagramFacts DEF GoalAt, Goal
    <3> QED
      BY <2>8, <3>1, <3>3 DEF HasPred
  <2> HIDE DEF g, p
  <2>10. /\ Len(goals') = Len(goals) + 2
         /\ goals'[Len(goals) + 1] = g
    BY ONLY <1>0, <2>8, <2>9, AppendTwoFacts
  <2>11. n # Len(goals) + 1
    BY <2>9, <2>10 DEF AtInitialState
  <2>12. n = Len(goals')
    BY <1>0, <2>2, <2>5, <2>10, <2>11
  <2>13. Stuck'
    BY <1>0, <2>7 DEF Reverse, EndTurn, Return, Stuck, Typed, Running
  <2> QED
    BY <2>12, <2>13
<1> QED
  BY <1>1, <1>2

LEMMA OnTopNext == Typed /\ OnTop /\ [Next]_vars => OnTop'
<1> SUFFICES ASSUME Typed, OnTop, [Next]_vars PROVE OnTop'
  OBVIOUS
<1>0. /\ TypeOK /\ prog' = prog
      /\ goals \in Seq(Goal) /\ Len(goals) \in Nat
  BY GraphSteps DEF Typed, TypeOK
<1>1. Undecided("diagram")' <=> Undecided("diagram")
  BY <1>0 DEF Undecided
<1>2. CASE Begin
  BY <1>2 DEF Begin, OnTop
<1>3. CASE Pursue
  BY <1>3, OnTopPursue
<1>4. ASSUME ~ Undecided("diagram"), ~ Stuck, goals' = goals PROVE OnTop'
  <2>1. \A n \in 1..Len(goals) : ~ AtInitialState(goals[n])
    BY <1>4 DEF OnTop
  <2>2. \A n \in 1..Len(goals') : ~ AtInitialState(goals[n])'
    BY <1>4, <2>1, SameAtInitial
  <2> QED
    BY <2>2 DEF OnTop
<1>5. CASE FindInvariant \/ NoFrame \/ Propagate \/ Propagated
  <2>1. goals' = goals /\ ~ Stuck
    BY <1>5 DEF FindInvariant, NoFrame, Propagate, Propagated, Stuck
  <2> QED
    BY <1>1, <1>4, <2>1 DEF OnTop
<1>6. CASE AddFrame
  <2> SUFFICES ASSUME ~ Undecided("diagram"), NEW n \in 1..Len(goals'), AtInitialState(goals[n])'
               PROVE  FALSE
    BY <1>1 DEF OnTop
  <2>1. \A m \in 1..Len(goals) : ~ AtInitialState(goals[m])
    BY <1>6 DEF AddFrame, OnTop, Stuck
  <2> DEFINE i == Len(graph)
             g == GoalAt(<<i + 1, i + 1>>, Bad)
  <2>2. goals' = Append(goals, g) /\ i \in Nat /\ i > 0
    BY <1>0, <1>6 DEF AddFrame, Typed, TypeOK, Running
  <2>3. g \in Goal /\ g.at[2] = i + 1
    BY <2>2, GoalAtFacts DEF Bad, Fact
  <2> HIDE DEF g, i
  <2>4. /\ Len(goals') = Len(goals) + 1
        /\ \A m \in 1..Len(goals) : goals'[m] = goals[m]
        /\ goals'[Len(goals) + 1] = g
    BY ONLY <1>0, <2>2, <2>3, AppendFacts
  <2>5. CASE n \in 1..Len(goals)
    BY <2>1, <2>4, <2>5, SameAtInitial
  <2>6. CASE n = Len(goals) + 1
    BY <2>2, <2>3, <2>4, <2>6 DEF AtInitialState
  <2> QED
    BY <1>0, <2>4, <2>5, <2>6
<1>7. CASE GoalLimit
  <2>1. goals' = goals /\ Stuck'
    BY <1>7 DEF GoalLimit, Return, Stuck
  <2> SUFFICES ASSUME ~ Undecided("diagram"), NEW n \in 1..Len(goals'), AtInitialState(goals[n])'
               PROVE  AtInitialState(goals[Len(goals)])'
    BY <1>1, <2>1 DEF OnTop
  <2>2. AtInitialState(goals[n]) /\ Len(goals) \in 1..Len(goals)
    BY <1>0, <2>1, SameAtInitial
  <2>3. AtInitialState(goals[Len(goals)])
    BY <2>1, <2>2 DEF OnTop
  <2> QED
    BY <2>1, <2>2, <2>3, SameAtInitial
<1>8. CASE Refuted
  <2> SUFFICES ASSUME ~ Undecided("diagram"), NEW n \in 1..Len(goals'), AtInitialState(goals[n])'
               PROVE  FALSE
    BY <1>1 DEF OnTop
  <2>1. goals # << >> /\ goals' = SubSeq(goals, 1, Len(goals) - 1) /\ RefutedGoal(goals[Len(goals)])
    BY <1>8 DEF Refuted, Turn, Top
  <2>2. /\ Len(goals) > 0 /\ Len(goals') = Len(goals) - 1
        /\ \A m \in 1..Len(goals) - 1 : goals'[m] = goals[m]
    BY ONLY <1>0, <2>1, FrontFacts
  <2>3. n \in 1..Len(goals) /\ goals'[n] = goals[n]
    BY <1>0, <2>2
  <2>4. AtInitialState(goals[n])
    BY <2>3, SameAtInitial
  <2>5. AtInitialState(goals[Len(goals)])
    BY <2>3, <2>4 DEF OnTop
  <2> QED
    BY <2>1, <2>5 DEF AtInitialState
<1>9. CASE NoGoalLeft
  BY <1>9 DEF NoGoalLeft, OnTop
<1>10. CASE UNCHANGED vars
  BY <1>10 DEF vars, OnTop, Undecided, AtInitialState, RefutedGoal, Node, Stuck
<1> QED
  BY <1>2, <1>3, <1>5, <1>6, <1>7, <1>8, <1>9, <1>10 DEF Next, UpdrStep

(* A run that has followed a counterexample to the initial state does not    *)
(* end in a proof, unless the solver has left a diagram undecided.           *)
THEOREM NoProofOfCounterexample == Spec => []CounterexampleNotProved
<1>1. Init => OnTop
  BY DEF Init, OnTop
<1>2. OnTop => CounterexampleNotProved
  BY DEF OnTop, Stuck, CounterexampleNotProved
<1> QED
  BY <1>1, <1>2, OnTopNext, TypedInit, TypedNext, PTL DEF Spec

=============================================================================
