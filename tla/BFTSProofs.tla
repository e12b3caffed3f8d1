----------------------------- MODULE BFTSProofs -----------------------------
(***************************************************************************)
(* What holds of the priority-queue search for every number of children,   *)
(* depth, budget and range of values.                                      *)
(***************************************************************************)
EXTENDS BFTS, SearchTreeProofs

(* What the callback has seen are proofs of the tree.                      *)
CheckedEnd == \A n \in checked : n \in Present /\ IsTermination(n)

(* The strengthening under which the properties of the frontier hold.      *)
IInv == TypeOK /\ CheckedEnd /\ FrontierIsFresh

(* A round works on a node and keeps the bookkeeping of the loop.          *)
LEMMA RoundFacts ==
  ASSUME TypeOK, NEW e \in frontier, Round(e)
  PROVE  /\ e.node \in Node /\ status = "running"
         /\ iter' \in 0..ExpansionCount
         /\ opts' = opts /\ final' = final
BY BFTSAssumption DEF TypeOK, Round

(* The tree grows only below a node taken from the frontier.               *)
LEMMA TreeStep ==
  ASSUME TypeOK, Next
  PROVE  /\ TreeShape'
         /\ \A m \in Present : kind'[m] = kind[m]
         /\ \A m \in Node : kind'[m] # kind[m] =>
              \E e \in frontier : /\ Expand(e) \/ ExpandRaises(e)
                                  /\ IsExpandable(e.node) /\ IsChildOf(m, e.node)
<1>1. CASE kind' = kind
  BY <1>1 DEF TypeOK, TreeShape, Children, Present
<1>2. ASSUME NEW e \in frontier, Expand(e) \/ ExpandRaises(e), kind' # kind
      PROVE  /\ TreeShape'
             /\ \A m \in Present : kind'[m] = kind[m]
             /\ \A m \in Node : kind'[m] # kind[m] => IsChildOf(m, e.node)
             /\ IsExpandable(e.node)
  <2>1. /\ e.node \in Node /\ IsExpandable(e.node)
        /\ \E d : \E ks \in Samples(e.node, d) : kind' = WithChildren(e.node, ks)
    BY <1>2, RoundFacts DEF Expand, ExpandRaises, LeftBehind
  <2> QED BY <2>1, GrowKeepsTree DEF TypeOK
<1>3. kind' # kind => \E e \in frontier : Expand(e) \/ ExpandRaises(e)
  BY DEF Next, LoopEnds, BestAnswer, Solve, Refuse, Skip, ExpandNothing
<1> QED BY <1>1, <1>2, <1>3

-----------------------------------------------------------------------------
(* Type correctness.                                                       *)

Keys == {-v : v \in Values \union {NegInf}}

LEMMA PushedType ==
  ASSUME NEW w \in [Node -> Values \union {NegInf}], NEW n \in Node
  PROVE  Pushed(n, w) \in [node : Node, key : Keys]
BY DEF Pushed, Keys

LEMMA InitTypeOK == Init => TypeOK
<1> SUFFICES ASSUME Init PROVE TypeOK
  OBVIOUS
<1>1. TreeShape
  BY OnlyRootIsTree DEF Init
<1>2. win \in [Node -> Values \union {NegInf}]
  BY BFTSAssumption DEF Init, Values
<1>3. frontier \subseteq [node : Node, key : Keys]
  BY <1>2, RootIsNode, PushedType DEF Init
<1> QED BY <1>1, <1>2, <1>3, BFTSAssumption DEF Init, TypeOK, Keys

LEMMA NextTypeOK == TypeOK /\ [Next]_vars => TypeOK'
<1> SUFFICES ASSUME TypeOK, [Next]_vars PROVE TypeOK'
  OBVIOUS
<1>1. CASE UNCHANGED vars
  BY <1>1 DEF TypeOK, TreeShape, Present, Children, vars
<1>2. CASE Next
  <2>1. TreeShape'
    BY <1>2, TreeStep
  <2>2. CASE LoopEnds
    BY <2>1, <2>2 DEF TypeOK, LoopEnds
  <2>3. CASE BestAnswer
    <3>1. \A n \in Leaves : Pushed(n, win) \in [node : Node, key : Keys] /\ n \in Node
      BY PushedType DEF TypeOK, Leaves, Present
    <3>2. final' \in Node /\ frontier' \subseteq [node : Node, key : Keys]
      BY <2>3, <3>1, RootIsNode DEF BestAnswer, TypeOK, Heads, Keys
    <3> QED BY <2>1, <2>3, <3>2 DEF TypeOK, BestAnswer, Keys
  <2>4. ASSUME NEW e \in frontier, Solve(e) PROVE TypeOK'
    <3>1. answer' \in Node /\ checked' \subseteq Node
      BY <2>4, RoundFacts DEF Solve, Confirmed, Reach, TypeOK
    <3> QED BY <2>1, <2>4, <3>1, RoundFacts DEF TypeOK, Solve
  <2>5. ASSUME NEW e \in frontier, Refuse(e) PROVE TypeOK'
    <3>1. checked' \subseteq Node
      BY <2>5, RoundFacts DEF Refuse, TypeOK
    <3>2. win' \in [Node -> Values \union {NegInf}]
      BY <2>5 DEF Refuse, TypeOK
    <3> QED BY <2>1, <2>5, <3>1, <3>2, RoundFacts DEF TypeOK, Refuse
  <2>6. ASSUME NEW e \in frontier, Skip(e) \/ ExpandNothing(e) PROVE TypeOK'
    BY <2>1, <2>6, RoundFacts DEF TypeOK, Skip, ExpandNothing
  <2>7. ASSUME NEW e \in frontier, Expand(e) PROVE TypeOK'
    <3> DEFINE born == {c \in Node : kind'[c] # kind[c]}
    <3>1. PICK score \in [born -> Values] :
            /\ win' = [n \in Node |-> IF n \in born THEN score[n] ELSE win[n]]
            /\ frontier' = (frontier \ {e}) \union Pushes(born, win')
      BY <2>7 DEF Expand
    <3>2. win' \in [Node -> Values \union {NegInf}]
      BY <3>1 DEF TypeOK
    <3>3. Pushes(born, win') \subseteq [node : Node, key : Keys]
      BY <3>2, PushedType DEF Pushes
    <3>4. frontier' \subseteq [node : Node, key : Keys]
      BY <3>1, <3>3 DEF TypeOK, Keys
    <3> QED BY <2>1, <2>7, <3>2, <3>4, RoundFacts DEF TypeOK, Expand, Keys
  <2>8. ASSUME NEW e \in frontier, ExpandRaises(e) PROVE TypeOK'
    BY <2>1, <2>8, RoundFacts DEF TypeOK, ExpandRaises
  <2> QED BY <1>2, <2>2, <2>3, <2>4, <2>5, <2>6, <2>7, <2>8 DEF Next
<1> QED BY <1>1, <1>2

(* Every variable keeps its type and the nodes keep forming a tree.        *)
THEOREM TypeCorrect == Spec => []TypeOK
BY InitTypeOK, NextTypeOK, PTL DEF Spec

-----------------------------------------------------------------------------
(* The frontier.                                                           *)

LEMMA CheckedStep == TypeOK /\ CheckedEnd /\ [Next]_vars => CheckedEnd'
<1> SUFFICES ASSUME TypeOK, CheckedEnd, [Next]_vars PROVE CheckedEnd'
  OBVIOUS
<1>1. \A n \in checked : n \in Present' /\ IsTermination(n)'
  <2>1. CASE Next
    BY <2>1, TreeStep DEF CheckedEnd, Present, IsTermination
  <2>2. CASE UNCHANGED vars
    BY <2>2 DEF CheckedEnd, Present, IsTermination, vars
  <2> QED BY <2>1, <2>2
<1>2. CASE checked' = checked
  BY <1>1, <1>2 DEF CheckedEnd
<1>3. ASSUME NEW e \in frontier, Solve(e) \/ Refuse(e) PROVE CheckedEnd'
  <2>1. /\ e.node \in Node /\ IsTermination(e.node) /\ kind' = kind
        /\ checked' = checked \union {e.node}
    BY <1>3, RoundFacts DEF Solve, Refuse
  <2>2. e.node \in Present' /\ IsTermination(e.node)'
    BY <2>1 DEF Present, IsTermination
  <2> QED BY <1>1, <2>1, <2>2 DEF CheckedEnd
<1> QED BY <1>2, <1>3
        DEF Next, vars, LoopEnds, BestAnswer, Skip, Expand, ExpandNothing, ExpandRaises

(* A leaf other than the one that grows stays a leaf, and what is born is  *)
(* a leaf.                                                                 *)
LEMMA LeavesAfterGrowth ==
  ASSUME TypeOK, Next, NEW e \in frontier,
         \A m \in Node : kind'[m] # kind[m] => IsChildOf(m, e.node),
         IsExpandable(e.node)
  PROVE  /\ \A n \in Leaves : n # e.node => n \in Leaves'
         /\ \A n \in Leaves' : n \in Leaves \/ kind'[n] # kind[n]
         /\ \A n \in Node : kind'[n] # kind[n] => n \in Leaves' /\ n \notin Present
<1>1. e.node \in Node /\ TreeShape /\ Children(e.node) = {}
  BY DEF TypeOK, IsExpandable
<1>2. \A m \in Node : kind'[m] # kind[m] => m \notin Present /\ m \in Present'
  <2>1. \A m \in Present : kind'[m] = kind[m]
    BY TreeStep
  <2> QED BY <1>1, <2>1 DEF Present
<1>3. ASSUME NEW n \in Leaves, n # e.node PROVE n \in Leaves'
  <2>1. n \in Present' /\ n \in Node
    BY <1>2, <1>3 DEF Leaves, Present
  <2>2. ASSUME NEW m \in Node, m \in Present', IsChildOf(m, n) PROVE FALSE
    <3>1. m \notin Present
      BY <1>3, <2>2 DEF Leaves, Children
    <3>2. IsChildOf(m, e.node)
      BY <2>2, <3>1 DEF Present
    <3> QED BY <1>1, <1>3, <2>1, <2>2, <3>2, OneParent
  <2> QED BY <2>1, <2>2 DEF Leaves, Children, Present, IsChildOf, OnPathTo
<1>4. ASSUME NEW n \in Leaves', n \in Present PROVE n \in Leaves
  <2>1. ASSUME NEW m \in Present, IsChildOf(m, n) PROVE FALSE
    <3>1. m \in Present'
      BY <1>2, <2>1 DEF Present
    <3> QED BY <1>4, <2>1, <3>1 DEF Leaves, Children, Present, IsChildOf, OnPathTo
  <2> QED BY <1>4, <2>1 DEF Leaves, Children
<1>5. ASSUME NEW n \in Node, kind'[n] # kind[n] PROVE n \in Leaves'
  <2>1. IsChildOf(n, e.node) /\ n \notin Present /\ n \in Present'
    BY <1>2, <1>5
  <2>2. ASSUME NEW m \in Node, m \in Present', IsChildOf(m, n) PROVE FALSE
    <3>1. n # e.node
      BY <1>1, <2>1, NodeIsSeq DEF IsChildOf
    <3>2. ~IsChildOf(m, e.node)
      BY <1>1, <2>2, <3>1, OneParent
    <3>3. m \in Present
      BY <2>2, <3>2 DEF Present
    <3>4. OnPathTo(n, m) /\ m # n
      BY <2>2, NodeIsSeq DEF IsChildOf
    <3>5. kind[n] = "step"
      BY <1>1, <3>3, <3>4, AboveIsStep
    <3> QED BY <2>1, <3>5 DEF Present
  <2> QED BY <2>1, <2>2 DEF Leaves, Children, Present, IsChildOf, OnPathTo
<1> QED BY <1>2, <1>3, <1>4, <1>5 DEF Leaves, Present

LEMMA FreshStep == IInv /\ [Next]_vars => FrontierIsFresh'
<1> SUFFICES ASSUME IInv, [Next]_vars, status' # "stopped" PROVE FrontierIsFresh'
  BY DEF FrontierIsFresh
<1>1. CASE UNCHANGED vars
  BY <1>1 DEF IInv, FrontierIsFresh, vars, Leaves, Children, Present
<1>2. status # "stopped" => /\ \A e, f \in frontier : e.node = f.node => e = f
                            /\ \A e \in frontier : /\ e.node \in Leaves /\ e.node \notin checked
                                                   /\ e.key = -win[e.node] /\ e.node \in Node
  BY DEF IInv, FrontierIsFresh, Leaves, Present
<1>3. ASSUME NEW e \in frontier, Solve(e) \/ Refuse(e) \/ Skip(e) \/ ExpandNothing(e)
      PROVE  FrontierIsFresh'
  <2>1. /\ status = "running" /\ kind' = kind /\ frontier' = frontier \ {e}
        /\ checked' \subseteq checked \union {e.node}
        /\ \A n \in Node : n \notin checked' => win'[n] = win[n]
    BY <1>3, RoundFacts DEF IInv, TypeOK, Solve, Refuse, Skip, ExpandNothing
  <2>2. \A f \in frontier' : f.node \notin checked'
    BY <1>2, <2>1
  <2>3. Leaves' = Leaves
    BY <2>1 DEF Leaves, Children, Present
  <2> QED BY <1>2, <2>1, <2>2, <2>3 DEF FrontierIsFresh
<1>4. ASSUME NEW e \in frontier, Expand(e) \/ ExpandRaises(e)
      PROVE  FrontierIsFresh'
  <2> DEFINE born == {c \in Node : kind'[c] # kind[c]}
  <2>1. /\ status = "running" /\ checked' = checked /\ e.node \in Node
        /\ IsExpandable(e.node) /\ Next
    BY <1>4, RoundFacts DEF IInv, Expand, ExpandRaises, Next
  <2>2. \A m \in Node : kind'[m] # kind[m] => IsChildOf(m, e.node)
    <3>1. \/ kind' = kind
          \/ \E d : \E ks \in Samples(e.node, d) : kind' = WithChildren(e.node, ks)
      BY <1>4 DEF Expand, ExpandRaises, LeftBehind
    <3> QED BY <2>1, <3>1, GrowKeepsTree DEF IInv, TypeOK
  <2>3. /\ \A n \in Leaves : n # e.node => n \in Leaves'
        /\ \A n \in born : n \in Leaves' /\ n \notin Present /\ n \notin checked
    BY <2>1, <2>2, LeavesAfterGrowth DEF IInv, CheckedEnd
  <2>4. \A f \in frontier \ {e} : /\ f.node \in Leaves' /\ f.node \notin checked'
                                  /\ f.node \notin born /\ f.node # e.node
    BY <1>2, <2>1, <2>3 DEF Leaves
  <2>5. CASE ExpandRaises(e)
    BY <1>2, <2>1, <2>4, <2>5 DEF ExpandRaises, FrontierIsFresh
  <2>6. CASE Expand(e)
    <3>1. /\ \A n \in Node : n \notin born => win'[n] = win[n]
          /\ frontier' = (frontier \ {e}) \union Pushes(born, win')
      BY <2>6 DEF Expand
    <3>2. \A f \in Pushes(born, win') : f.node \in born /\ f.key = -win'[f.node]
      BY DEF Pushes, Pushed
    <3>3. \A f, g \in Pushes(born, win') : f.node = g.node => f = g
      BY DEF Pushes, Pushed
    <3>4. \A f, g \in frontier' : f.node = g.node => f = g
      BY <1>2, <2>1, <2>4, <3>1, <3>2, <3>3
    <3>5. \A f \in frontier' : /\ f.node \in Leaves' /\ f.node \notin checked'
                               /\ f.key = -win'[f.node]
      BY <1>2, <2>1, <2>3, <2>4, <3>1, <3>2
    <3> QED BY <3>4, <3>5 DEF FrontierIsFresh
  <2> QED BY <1>4, <2>5, <2>6
<1> QED BY <1>1, <1>3, <1>4 DEF Next, LoopEnds, BestAnswer

LEMMA InitInv == Init => IInv
<1> SUFFICES ASSUME Init PROVE IInv
  OBVIOUS
<1>1. Root \in Leaves
  <2>1. Present = {Root}
    BY RootIsNode DEF Init, OnlyRoot, Present
  <2>2. ~IsChildOf(Root, Root)
    BY RootIsNode DEF IsChildOf
  <2> QED BY <2>1, <2>2 DEF Leaves, Children
<1>2. frontier = {Pushed(Root, win)} /\ checked = {}
  BY DEF Init
<1> QED BY <1>1, <1>2, InitTypeOK DEF IInv, CheckedEnd, FrontierIsFresh, Pushed

LEMMA Invariance == Spec => []IInv
<1>1. IInv /\ [Next]_vars => IInv'
  BY NextTypeOK, CheckedStep, FreshStep DEF IInv
<1> QED BY <1>1, InitInv, PTL DEF Spec

(* What is in the frontier is a leaf that the callback has not seen, once, *)
(* under the value it has now.                                             *)
THEOREM FrontierStaysFresh == Spec => []FrontierIsFresh
BY Invariance, PTL DEF IInv

-----------------------------------------------------------------------------
(* Nothing is lost.                                                        *)

(* A node that gets children is no leaf any more.                          *)
LEMMA GrownIsNoLeaf ==
  ASSUME NEW n \in Node, NEW d, NEW ks \in Samples(n, d),
         kind' = WithChildren(n, ks)
  PROVE  n \notin Leaves'
<1>1. PICK k \in 1..MaxChildren : ks \in [1..k -> TextKind]
  BY SamplesType
<1>2. Len(n) < MaxDepth
  BY DEF Samples
<1> DEFINE c == [i \in 1..(Len(n) + 1) |-> IF i = Len(n) + 1 THEN 1 ELSE n[i]]
<1>3. Len(n) \in Nat /\ \A i \in 1..Len(n) : n[i] \in 1..MaxChildren
  BY NodeIsSeq
<1>4. c \in [1..(Len(n) + 1) -> 1..MaxChildren] /\ Len(n) + 1 \in 0..MaxDepth
  BY <1>2, <1>3, SizeAssumption
<1>5. c \in Node
  BY <1>4 DEF Node, BoundedSeq, SeqOf
<1>6. Len(c) = Len(n) + 1 /\ c[Len(n) + 1] = 1 /\ \A i \in 1..Len(n) : c[i] = n[i]
  <2>1. DOMAIN c = 1..Len(c) /\ Len(c) \in Nat
    BY <1>5, NodeIsSeq
  <2>2. Len(c) = Len(n) + 1
    BY <1>3, <2>1
  <2> QED BY <1>3, <2>2
<1>7. IsChildOf(c, n) /\ Position(c) = 1
  BY <1>3, <1>6 DEF IsChildOf, OnPathTo, Position
<1>8. 1 \in DOMAIN ks /\ ks[1] \in TextKind
  BY <1>1, SizeAssumption
<1>9. kind'[c] = ks[1]
  BY <1>5, <1>7, <1>8 DEF WithChildren
<1>10. c \in Present'
  BY <1>5, <1>8, <1>9 DEF Present, TextKind
<1> HIDE DEF c
<1> QED BY <1>7, <1>10 DEF Leaves, Children, IsChildOf, OnPathTo

(* Nodes that explain what is missing, no more of them than failures.      *)
Explains(F) ==
  /\ F \subseteq Node /\ IsFiniteSet(F) /\ Cardinality(F) <= failed
  /\ \A n \in Missing : \E f \in F : n = f \/ IsChildOf(n, f)

Counted == status # "stopped" => \E F : Explains(F)

(* A round in which nothing more is missing needs no more nodes.           *)
LEMMA NoneMissing ==
  ASSUME IInv, Counted, status # "stopped", failed' = failed, Missing' \subseteq Missing
  PROVE  \E F : Explains(F)'
<1>1. PICK F : Explains(F)
  BY DEF Counted
<1> QED BY <1>1 DEF Explains, IsChildOf, OnPathTo

(* The leaves after a round that changes no node.                          *)
LEMMA MissingWithout ==
  ASSUME kind' = kind, opts' = opts, checked \subseteq checked', NEW e \in frontier,
         frontier \ {e} \subseteq frontier'
  PROVE  \A n \in Missing' : n \in Missing \/ n = e.node
<1>1. \A n \in Queued : n # e.node => n \in Queued'
  BY DEF Queued
<1>2. Leaves' = Leaves /\ \A n : IsTermination(n)' = IsTermination(n)
  BY DEF Leaves, Children, Present, IsTermination
<1> QED BY <1>1, <1>2 DEF Missing

LEMMA CountedStep == IInv /\ Counted /\ [Next]_vars => Counted'
<1> SUFFICES ASSUME IInv, Counted, [Next]_vars, status' # "stopped"
             PROVE  \E F : Explains(F)'
  BY DEF Counted
<1>1. CASE UNCHANGED vars
  <2>1. status # "stopped" /\ failed' = failed /\ Missing' = Missing
    BY <1>1 DEF vars, Missing, Leaves, Children, Present, Queued, IsTermination
  <2> QED BY <2>1, NoneMissing
<1>2. failed \in Nat
  BY DEF IInv, TypeOK
<1>3. ASSUME NEW e \in frontier, Solve(e) \/ Refuse(e) \/ Skip(e)
      PROVE  \E F : Explains(F)'
  <2>1. /\ kind' = kind /\ opts' = opts /\ frontier' = frontier \ {e}
        /\ checked \subseteq checked' /\ status = "running" /\ failed' = failed
        /\ IsTermination(e.node)
        /\ e.node \in checked' \/ opts.callback = "none"
    BY <1>3 DEF Solve, Refuse, Skip, Round
  <2>2. \A n \in Missing' : n \in Missing \/ n = e.node
    BY <2>1, MissingWithout
  <2>3. e.node \notin Missing'
    BY <2>1 DEF Missing, IsTermination
  <2> QED BY <2>1, <2>2, <2>3, NoneMissing
<1>4. ASSUME NEW e \in frontier, Expand(e) \/ ExpandRaises(e)
      PROVE  \A n \in Missing' : n \in Missing \/ n = e.node \/ kind'[n] # kind[n]
  <2>1. /\ checked' = checked /\ opts' = opts /\ e.node \in Node
        /\ IsExpandable(e.node) /\ Next /\ frontier \ {e} \subseteq frontier'
    BY <1>4, RoundFacts DEF IInv, Expand, ExpandRaises, Next
  <2>2. \A m \in Node : kind'[m] # kind[m] => IsChildOf(m, e.node)
    <3>1. \/ kind' = kind
          \/ \E d : \E ks \in Samples(e.node, d) : kind' = WithChildren(e.node, ks)
      BY <1>4 DEF Expand, ExpandRaises, LeftBehind
    <3> QED BY <2>1, <3>1, GrowKeepsTree DEF IInv, TypeOK
  <2>3. \A n \in Leaves' : n \in Leaves \/ kind'[n] # kind[n]
    BY <2>1, <2>2, LeavesAfterGrowth DEF IInv
  <2>4. \A n \in Queued : n # e.node => n \in Queued'
    BY <2>1 DEF Queued
  <2> QED BY <2>1, <2>3, <2>4 DEF Missing, IsTermination
<1>5. ASSUME NEW e \in frontier, Expand(e)
      PROVE  \E F : Explains(F)'
  <2>1. /\ status = "running" /\ failed' = failed /\ e.node \in Node
        /\ IsExpandable(e.node) /\ Next
        /\ frontier' = (frontier \ {e}) \union Pushes({c \in Node : kind'[c] # kind[c]}, win')
    BY <1>5, RoundFacts DEF IInv, Expand, Next
  <2>2. e.node \notin Leaves'
    BY <1>5, <2>1, GrownIsNoLeaf DEF Expand
  <2>3. ASSUME NEW n \in Node, kind'[n] # kind[n] PROVE n \in Queued'
    <3>1. Pushed(n, win') \in frontier'
      BY <2>1, <2>3 DEF Pushes
    <3>2. Pushed(n, win').node = n
      BY DEF Pushed
    <3> QED BY <3>1, <3>2 DEF Queued
  <2>4. \A n \in Missing' : n \in Node /\ n \in Leaves' /\ n \notin Queued'
    BY DEF Missing, Leaves, Present
  <2> QED BY <1>4, <1>5, <2>1, <2>2, <2>3, <2>4, NoneMissing
<1>6. ASSUME NEW e \in frontier, status = "running", failed' = failed + 1,
             \A n \in Missing' : n \in Missing \/ n = e.node \/ IsChildOf(n, e.node)
      PROVE  \E F : Explains(F)'
  <2>1. PICK F : Explains(F)
    BY <1>6 DEF Counted
  <2>2. e.node \in Node
    BY DEF IInv, TypeOK
  <2>3. /\ IsFiniteSet(F \union {e.node})
        /\ Cardinality(F \union {e.node}) <= Cardinality(F) + 1
    BY <2>1, FS_AddElement, FS_CardinalityType DEF Explains
  <2>4. Cardinality(F \union {e.node}) <= failed'
    BY <1>2, <1>6, <2>1, <2>3, FS_CardinalityType DEF Explains
  <2>5. Explains(F \union {e.node})'
    BY <1>6, <2>1, <2>2, <2>3, <2>4 DEF Explains, IsChildOf, OnPathTo
  <2> QED BY <2>5
<1>7. ASSUME NEW e \in frontier, ExpandNothing(e)
      PROVE  \E F : Explains(F)'
  <2>1. /\ kind' = kind /\ opts' = opts /\ checked' = checked /\ failed' = failed + 1
        /\ frontier' = frontier \ {e} /\ status = "running"
    BY <1>7 DEF ExpandNothing, Round
  <2> QED BY <1>6, <2>1, MissingWithout
<1>8. ASSUME NEW e \in frontier, ExpandRaises(e)
      PROVE  \E F : Explains(F)'
  <2>1. /\ failed' = failed + 1 /\ status = "running" /\ IsExpandable(e.node)
        /\ e.node \in Node
    BY <1>8, RoundFacts DEF IInv, ExpandRaises
  <2>2. \A n \in Node : kind'[n] # kind[n] => IsChildOf(n, e.node)
    <3>1. \/ kind' = kind
          \/ \E d : \E ks \in Samples(e.node, d) : kind' = WithChildren(e.node, ks)
      BY <1>8 DEF ExpandRaises, LeftBehind
    <3> QED BY <2>1, <3>1, GrowKeepsTree DEF IInv, TypeOK
  <2>3. \A n \in Missing' : n \in Node
    BY DEF Missing, Leaves, Present
  <2> QED BY <1>4, <1>6, <1>8, <2>1, <2>2, <2>3
<1>9. ~LoopEnds /\ ~BestAnswer
  BY DEF LoopEnds, BestAnswer, IInv, TypeOK
<1> QED BY <1>1, <1>3, <1>5, <1>7, <1>8, <1>9 DEF Next

LEMMA AlwaysCounted == Spec => []Counted
<1>1. Init => Counted
  <2> SUFFICES ASSUME Init PROVE Explains({})
    BY DEF Counted
  <2>1. \A n \in Leaves : n = Root
    BY DEF Init, OnlyRoot, Leaves, Present
  <2>2. Root \in Queued
    BY DEF Init, Queued, Pushed
  <2>3. Missing = {}
    BY <2>1, <2>2 DEF Missing
  <2> QED BY <2>3, FS_EmptySet DEF Init, Explains
<1> QED BY <1>1, CountedStep, Invariance, PTL DEF Spec

(* LossesAreCounted: a failed expansion costs the search its node or the   *)
(* children it has just made, and nothing else is ever missing.            *)
THEOREM NothingElseGetsLost == Spec => []LossesAreCounted
<1>1. Counted => LossesAreCounted
  BY DEF Counted, Explains, LossesAreCounted
<1> QED BY <1>1, AlwaysCounted, PTL

-----------------------------------------------------------------------------
(* The order of expansion.                                                 *)

(* With no failure so far, the node that gets children has the highest     *)
(* value of all nodes that could get them.                                 *)
THEOREM ExpandsBestFirst == Spec => BestFirst
<1>1. ASSUME IInv, Counted, Next, failed = 0,
             NEW n \in Node, IsExpandable(n), ~IsExpandable(n)',
             NEW m \in Node, IsExpandable(m)
      PROVE  win[m] <= win[n]
  <2>1. PICK e \in frontier : Expand(e) \/ ExpandRaises(e)
    <3>1. kind' # kind
      BY <1>1 DEF IsExpandable, Children, Present, IsTermination
    <3> QED BY <1>1, <3>1 DEF Next, LoopEnds, BestAnswer, Solve, Refuse, Skip, ExpandNothing
  <2>2. /\ status = "running" /\ e.node \in Node /\ IsExpandable(e.node)
        /\ \A f \in frontier : e.key <= f.key
    BY <1>1, <2>1, RoundFacts DEF IInv, Expand, ExpandRaises, Round, Heads
  <2>3. \A k \in Node : kind'[k] # kind[k] => IsChildOf(k, e.node)
    <3>1. \/ kind' = kind
          \/ \E d : \E ks \in Samples(e.node, d) : kind' = WithChildren(e.node, ks)
      BY <2>1 DEF Expand, ExpandRaises, LeftBehind
    <3> QED BY <1>1, <2>2, <3>1, GrowKeepsTree DEF IInv, TypeOK
  <2>4. n = e.node
    <3>1. n \in Leaves /\ (n # e.node => n \in Leaves')
      BY <1>1, <2>2, <2>3, LeavesAfterGrowth DEF IInv, IsExpandable, Leaves
    <3>2. kind'[n] = kind[n]
      BY <1>1, TreeStep DEF IInv, IsExpandable
    <3> QED BY <1>1, <3>1, <3>2 DEF IsExpandable, Leaves, IsTermination
  <2>5. PICK f \in frontier : f.node = m
    <3>1. m \in Leaves /\ m \notin checked
      BY <1>1 DEF IInv, CheckedEnd, IsExpandable, Leaves
    <3>2. m \notin Missing
      <4>1. PICK F : Explains(F)
        BY <1>1, <2>2 DEF Counted
      <4>2. F = {}
        BY <1>1, <4>1, FS_CardinalityType, FS_EmptySet DEF Explains
      <4> QED BY <4>1, <4>2 DEF Explains
    <3> QED BY <1>1, <2>2, <3>1, <3>2 DEF Missing, IsExpandable, Queued
  <2>6. e.key = -win[n] /\ f.key = -win[m]
    BY <1>1, <2>2, <2>4, <2>5 DEF IInv, FrontierIsFresh
  <2>7. win[n] \in Int /\ win[m] \in Int
    BY <1>1, BFTSAssumption DEF IInv, TypeOK, Values, NegInf
  <2> QED BY <2>2, <2>6, <2>7
<1>2. IInv /\ Counted /\ [Next]_vars => [ExpandsBest]_vars
  BY <1>1 DEF ExpandsBest
<1> QED BY <1>2, Invariance, AlwaysCounted, PTL DEF Spec, BestFirst

-----------------------------------------------------------------------------
(* The contract.                                                           *)

(* The priority-queue search implements the search its caller expects: the *)
(* callback sees a node once although no list of seen nodes is kept.       *)
THEOREM ImplementsTreeSearch == Spec => ContractSpec
<1>1. Init => Contract!Init
  BY DEF Init, Contract!Init, OnlyRoot, Contract!OnlyRoot, Node, Contract!Node,
         Root, Contract!Root, BoundedSeq, Contract!BoundedSeq, SeqOf,
         Contract!SeqOf
<1>2. IInv /\ [Next]_vars => [Contract!Next]_(Contract!vars)
  <2> SUFFICES ASSUME IInv, Next PROVE Contract!Next \/ UNCHANGED Contract!vars
    BY DEF vars, Contract!vars
  <2>1. Contract!Node = Node
    BY DEF Node, Contract!Node, BoundedSeq, Contract!BoundedSeq, SeqOf,
           Contract!SeqOf
  <2>2. ASSUME NEW n \in Node
        PROVE  /\ IsExpandable(n) => Contract!IsExpandable(n)
               /\ IsTermination(n) = Contract!IsTermination(n)
               /\ n \in Present => n \in Contract!Present
               /\ \A d : Contract!Samples(n, d) = Samples(n, d)
               /\ \A ks : Contract!WithChildren(n, ks) = WithChildren(n, ks)
    BY <2>1 DEF IsExpandable, Contract!IsExpandable, IsTermination,
       Contract!IsTermination, Present, Contract!Present, Children,
       Contract!Children, IsChildOf, Contract!IsChildOf, OnPathTo,
       Contract!OnPathTo, Samples, Contract!Samples, TextKind, Contract!TextKind,
       WithChildren, Contract!WithChildren, Position, Contract!Position
  <2>3. opts.dedupe \in BOOLEAN
    BY DEF IInv, TypeOK, Settings
  <2>4. CASE LoopEnds
    BY <2>4 DEF LoopEnds, Contract!Next, Contract!Stop
  <2>5. CASE BestAnswer
    BY <2>5 DEF BestAnswer, Contract!vars
  <2>6. ASSUME NEW e \in frontier, Solve(e) \/ Refuse(e) PROVE Contract!Next
    <3>1. e.node \in Node /\ e.node \in Present /\ e.node \notin checked
      BY <2>6, RoundFacts DEF IInv, FrontierIsFresh, Leaves, Solve, Refuse
    <3>2. Contract!Probe(e.node)
      BY <2>2, <2>6, <3>1 DEF Solve, Confirmed, Reach, Refuse, Round, Contract!Probe
    <3> QED BY <2>1, <3>1, <3>2 DEF Contract!Next
  <2>7. ASSUME NEW e \in frontier, Expand(e) \/ ExpandRaises(e)
        PROVE  Contract!Next \/ UNCHANGED Contract!vars
    <3>1. e.node \in Node /\ IsExpandable(e.node) /\ status = "running"
          /\ UNCHANGED <<checked, answer>> /\ status' \in {"running", "stopped"}
      BY <2>7, RoundFacts DEF IInv, Expand, ExpandRaises
    <3>2. CASE kind' = kind
      BY <3>1, <3>2 DEF Contract!Next, Contract!Stop, Contract!vars
    <3>3. CASE kind' # kind
      <4>1. Contract!Grow(e.node)
        BY <2>2, <2>3, <2>7, <3>1, <3>3 DEF Expand, ExpandRaises, LeftBehind, Contract!Grow
      <4> QED BY <2>1, <3>1, <4>1 DEF Contract!Next
    <3> QED BY <3>2, <3>3
  <2>8. ASSUME NEW e \in frontier, Skip(e) \/ ExpandNothing(e)
        PROVE  Contract!Next \/ UNCHANGED Contract!vars
    BY <2>8 DEF Skip, ExpandNothing, Round, Contract!vars, Contract!Next, Contract!Stop
  <2> QED BY <2>4, <2>5, <2>6, <2>7, <2>8 DEF Next
<1> QED BY <1>1, <1>2, Invariance, PTL DEF Spec, ContractSpec, Contract!Spec
=============================================================================
