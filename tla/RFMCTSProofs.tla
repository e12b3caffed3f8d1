---------------------------- MODULE RFMCTSProofs ----------------------------
(***************************************************************************)
(* What holds of rollout-free MCTS for every number of children, depth and *)
(* budget.                                                                 *)
(***************************************************************************)
EXTENDS RFMCTS, SearchTreeProofs, FiniteSetTheorems

(* The steps of the search, with the round's bookkeeping unfolded once.    *)
LEMMA RoundFacts ==
  ASSUME TypeOK, NEW n \in Node, Round(n)
  PROVE  /\ n \in Present /\ Children(n) = {}
         /\ iter' \in 0..ExpansionCount
         /\ opts' = opts /\ final' = final
         /\ status = "running"
BY RFMCTSAssumption DEF TypeOK, Round, Selected, Leaves

(* Every round either leaves the tree alone or grows it at the selected    *)
(* leaf.                                                                   *)
LEMMA TreeStep ==
  ASSUME TypeOK, [Next]_vars
  PROVE  /\ TreeShape'
         /\ \A m \in Present : kind'[m] = kind[m]
         /\ \A m \in Node : kind'[m] # kind[m] =>
              \E n \in Node : IsExpandable(n) /\ Round(n) /\ IsChildOf(m, n)
<1>1. CASE kind' = kind
  BY <1>1 DEF TypeOK, TreeShape, Children, Present
<1>2. ASSUME NEW n \in Node, Round(n), IsExpandable(n),
             \E d : \E ks \in Samples(n, d) : kind' = WithChildren(n, ks)
      PROVE  /\ TreeShape'
             /\ \A m \in Present : kind'[m] = kind[m]
             /\ \A m \in Node : kind'[m] # kind[m] => IsChildOf(m, n)
  BY <1>2, GrowKeepsTree DEF TypeOK
<1>3. ASSUME kind' # kind
      PROVE  \E n \in Node : /\ Round(n) /\ IsExpandable(n)
                             /\ \E d : \E ks \in Samples(n, d) :
                                  kind' = WithChildren(n, ks)
  BY <1>3 DEF Next, vars, Return, BestAnswer, Solve, Refute, Expand, ExpandNothing,
              ExpandRaises, LeftBehind, Stall
<1> QED BY <1>1, <1>2, <1>3

-----------------------------------------------------------------------------
(* Type correctness.                                                       *)

LEMMA InitTypeOK == Init => TypeOK
BY OnlyRootIsTree, RFMCTSAssumption
   DEF Init, TypeOK, Finite, NegInf

LEMMA NextTypeOK == TypeOK /\ [Next]_vars => TypeOK'
<1> SUFFICES ASSUME TypeOK, [Next]_vars PROVE TypeOK'
  OBVIOUS
<1>1. TreeShape'
  BY TreeStep
<1>2. ASSUME NEW n \in Node PROVE Visited(n) \in [Node -> Nat]
  BY DEF TypeOK, Visited
<1>3. ASSUME NEW n \in Node, NEW w \in [Node -> {Finite, NegInf}]
      PROVE  Credited(w, n) \in [Node -> {Finite, NegInf}]
  BY DEF Credited, Plus
<1>4. CASE UNCHANGED vars
  BY <1>1, <1>4 DEF TypeOK, vars
<1>5. CASE Return
  BY <1>1, <1>5, RFMCTSAssumption DEF TypeOK, Return
<1>10. CASE BestAnswer
  BY <1>1, <1>10 DEF TypeOK, BestAnswer
<1>6. ASSUME NEW n \in Node, Solve(n) PROVE TypeOK'
  <2>1. iter' \in 0..ExpansionCount /\ opts' = opts /\ final' = final
    BY <1>6, RoundFacts DEF Solve
  <2>2. checked' \subseteq Node
    BY <1>6 DEF TypeOK, Solve
  <2>3. answer' \in Node
    BY <1>6, <2>2 DEF Solve, Confirmed, Reach, TypeOK
  <2> QED BY <1>1, <1>6, <2>1, <2>2, <2>3 DEF TypeOK, Solve
<1>7. ASSUME NEW n \in Node, Refute(n) PROVE TypeOK'
  <2>1. iter' \in 0..ExpansionCount /\ opts' = opts /\ final' = final
    BY <1>7, RoundFacts DEF Refute
  <2>2. [win EXCEPT ![n] = Finite] \in [Node -> {Finite, NegInf}]
    BY DEF TypeOK
  <2>3. win' \in [Node -> {Finite, NegInf}]
    BY <1>7, <1>3, <2>2 DEF Refute, Penalised
  <2> QED BY <1>1, <1>2, <1>7, <2>1, <2>3 DEF TypeOK, Refute
<1>8. ASSUME NEW n \in Node, Expand(n) \/ ExpandNothing(n) PROVE TypeOK'
  <2>1. iter' \in 0..ExpansionCount /\ opts' = opts /\ final' = final
    BY <1>8, RoundFacts DEF Expand, ExpandNothing
  <2>2. win' \in [Node -> {Finite, NegInf}]
    BY <1>8, <1>3 DEF TypeOK, Expand, ExpandNothing
  <2> QED BY <1>1, <1>2, <1>8, <2>1, <2>2 DEF TypeOK, Expand, ExpandNothing
<1>9. ASSUME NEW n \in Node, ExpandRaises(n) \/ Stall(n) PROVE TypeOK'
  <2>1. iter' \in 0..ExpansionCount /\ opts' = opts /\ final' = final
    BY <1>9, RoundFacts DEF ExpandRaises, Stall
  <2> QED BY <1>1, <1>9, <2>1 DEF TypeOK, ExpandRaises, Stall
<1> QED BY <1>4, <1>5, <1>6, <1>7, <1>8, <1>9, <1>10 DEF Next

(* Every variable keeps its type and the nodes keep forming a tree.        *)
THEOREM TypeCorrect == Spec => []TypeOK
BY InitTypeOK, NextTypeOK, PTL DEF Spec

-----------------------------------------------------------------------------
(* Visits.                                                                 *)

(* Visits change only by backpropagation from the selected leaf.           *)
LEMMA VisitStep ==
  ASSUME [Next]_vars
  PROVE  \/ visits' = visits
         \/ \E n \in Node : Round(n) /\ visits' = Visited(n)
BY DEF Next, vars, Return, BestAnswer, Solve, Refute, Expand, ExpandNothing, ExpandRaises,
       Stall

(* On a path to a node, every child of a node on it is the one Toward      *)
(* names.                                                                  *)
LEMMA TowardChild ==
  ASSUME NEW s \in Node, NEW n \in Node, NEW c \in Node,
         IsChildOf(c, n), OnPathTo(c, s)
  PROVE  n \in Ancestors(s) /\ Toward(n, s) = c
<1>1. OnPathTo(n, s)
  BY PathTransitive DEF IsChildOf
<1>2. Len(n) + 1 = Len(c) /\ Len(c) <= Len(s) /\ \A i \in 1..Len(c) : s[i] = c[i]
  BY DEF IsChildOf, OnPathTo
<1>3. n # s
  BY <1>2, NodeIsSeq
<1>4. SubSeq(s, 1, Len(c)) = c
  <2>1. s \in Seq(1..MaxChildren) /\ c \in Seq(1..MaxChildren)
    BY NodeIsSeq
  <2>2. SubSeq(s, 1, Len(c)) \in Seq(1..MaxChildren)
    BY <2>1, <1>2, NodeIsSeq, SubSeqProperties
  <2>3. Len(SubSeq(s, 1, Len(c))) = Len(c)
    BY <2>1, <1>2, NodeIsSeq, SubSeqProperties
  <2>4. \A i \in 1..Len(c) : SubSeq(s, 1, Len(c))[i] = c[i]
    BY <2>1, <1>2, NodeIsSeq, SubSeqProperties
  <2> QED BY <2>1, <2>2, <2>3, <2>4, SeqEqual
<1> QED BY <1>1, <1>2, <1>3, <1>4 DEF Ancestors, PathTo, Toward

(* A node is visited at least as often as any of its descendants, so the   *)
(* logarithm and the quotient in best_child_uct are of numbers >= 1        *)
(* whenever a visited child is scored, whatever expansions failed between. *)
THEOREM VisitsAreMonotone == Spec => []VisitsMonotone
<1>1. Init => VisitsMonotone
  BY DEF Init, VisitsMonotone
<1>2. TypeOK /\ VisitsMonotone /\ [Next]_vars => VisitsMonotone'
  <2> SUFFICES ASSUME TypeOK, VisitsMonotone, [Next]_vars,
                      NEW m \in Node, NEW n \in Node, OnPathTo(m, n)
               PROVE  visits'[n] <= visits'[m]
    BY DEF VisitsMonotone, OnPathTo
  <2>1. visits[n] <= visits[m] /\ visits[n] \in Nat /\ visits[m] \in Nat
    BY DEF VisitsMonotone, TypeOK
  <2>2. CASE visits' = visits
    BY <2>1, <2>2
  <2>3. ASSUME NEW s \in Node, visits' = Visited(s) PROVE visits'[n] <= visits'[m]
    <3>1. OnPathTo(n, s) => OnPathTo(m, s)
      BY PathTransitive
    <3> QED BY <2>1, <2>3, <3>1 DEF Visited
  <2> QED BY <2>2, <2>3, VisitStep
<1> QED BY <1>1, <1>2, TypeCorrect, PTL DEF Spec

(* The strengthening under which UnvisitedFirst is inductive: a child that *)
(* has just been created has not been visited.                             *)
AbsentUnvisited == \A n \in Node : kind[n] = "absent" => visits[n] = 0

LEMMA NextAbsentUnvisited == TypeOK /\ AbsentUnvisited /\ [Next]_vars => AbsentUnvisited'
<1> SUFFICES ASSUME TypeOK, AbsentUnvisited, [Next]_vars,
                    NEW n \in Node, kind'[n] = "absent"
             PROVE  visits'[n] = 0
  BY DEF AbsentUnvisited
<1>1. kind[n] = "absent" /\ visits[n] = 0
  BY TreeStep DEF AbsentUnvisited, Present
<1>2. ASSUME NEW s \in Node, Round(s), visits' = Visited(s) PROVE visits'[n] = 0
  <2>1. ~OnPathTo(n, s)
    BY <1>1, <1>2, RoundFacts, AboveIsStep DEF Present, TypeOK
  <2> QED BY <1>1, <1>2, <2>1 DEF Visited
<1> QED BY <1>1, <1>2, VisitStep

(* The strengthening of VisitFlow: the sets counted are finite, for nodes  *)
(* that do not exist too.                                                  *)
FlowCounted ==
  \A n \in Node : IsFiniteSet(Through(n)) /\ Cardinality(Through(n)) <= visits[n]

LEMMA InThrough ==
  ASSUME NEW n, NEW t
  PROVE  t \in Through(n) <=>
           \E c \in Children(n) : \E i \in 1..visits[c] : t = <<c, i>>
BY DEF Through

LEMMA InThroughNext ==
  ASSUME NEW n, NEW t
  PROVE  t \in Through(n)' <=>
           \E c \in Children(n)' : \E i \in 1..visits'[c] : t = <<c, i>>
BY DEF Through

(* A child that has just been created brings no visits.                    *)
LEMMA NewChildUnvisited ==
  ASSUME TypeOK, AbsentUnvisited, [Next]_vars, NEW n \in Node, NEW c \in Node
  PROVE  /\ c \in Children(n) => c \in Children(n)'
         /\ c \in Children(n)' => IsChildOf(c, n)
         /\ c \in Children(n)' /\ c \notin Children(n) => visits[c] = 0 /\ visits'[c] = 0
<1>1. c \in Children(n) => c \in Children(n)'
  BY TreeStep DEF Children, Present
<1>2. c \in Children(n)' => IsChildOf(c, n)
  BY DEF Children, IsChildOf, OnPathTo
<1>3. ASSUME c \in Children(n)', c \notin Children(n) PROVE visits[c] = 0 /\ visits'[c] = 0
  <2>1. kind[c] = "absent" /\ kind'[c] # "absent"
    BY <1>2, <1>3 DEF Children, Present
  <2>2. visits[c] = 0
    BY <2>1 DEF AbsentUnvisited
  <2>3. ASSUME NEW s \in Node, Round(s), visits' = Visited(s) PROVE visits'[c] = 0
    <3>1. ~OnPathTo(c, s)
      BY <2>1, <2>3, RoundFacts, AboveIsStep DEF Present, TypeOK
    <3> QED BY <2>2, <2>3, <3>1 DEF Visited
  <2> QED BY <2>2, <2>3, VisitStep
<1> QED BY <1>1, <1>2, <1>3

(* When no child of n is visited, the visits through n stay the same.      *)
LEMMA FlowUnchanged ==
  ASSUME TypeOK, AbsentUnvisited, [Next]_vars, NEW n \in Node,
         \A c \in Children(n) : visits'[c] = visits[c]
  PROVE  Through(n)' = Through(n)
<1>1. ASSUME NEW t PROVE t \in Through(n)' <=> t \in Through(n)
  <2>1. ASSUME NEW c \in Children(n) PROVE c \in Children(n)' /\ visits'[c] = visits[c]
    BY NewChildUnvisited DEF Children, Present
  <2>2. ASSUME NEW c \in Children(n)', visits'[c] # 0
        PROVE  c \in Children(n) /\ visits'[c] = visits[c]
    BY <2>2, NewChildUnvisited DEF Children, Present
  <2>3. \A c : (1..visits'[c] # {}) /\ visits'[c] = 0 => FALSE
    OBVIOUS
  <2> QED BY <2>1, <2>2, <2>3, InThrough, InThroughNext
<1> QED BY <1>1

(* When one child is visited, there is one more.                           *)
LEMMA FlowGrows ==
  ASSUME TypeOK, AbsentUnvisited, [Next]_vars, NEW n \in Node, NEW c \in Children(n),
         visits'[c] = visits[c] + 1,
         \A d \in Children(n) : d # c => visits'[d] = visits[d]
  PROVE  Through(n)' = Through(n) \union {<<c, visits[c] + 1>>}
<1>1. ASSUME NEW t
      PROVE  t \in Through(n)' <=> t \in Through(n) \/ t = <<c, visits[c] + 1>>
  <2>1. ASSUME NEW d \in Children(n)
        PROVE  d \in Children(n)' /\ (d # c => visits'[d] = visits[d]) /\ visits[d] \in Nat
    BY NewChildUnvisited DEF Children, Present, TypeOK
  <2>2. ASSUME NEW d \in Children(n)', visits'[d] # 0
        PROVE  d \in Children(n) /\ (d # c => visits'[d] = visits[d])
    BY <2>2, NewChildUnvisited DEF Children, Present
  <2>3. \A i : i \in 1..visits'[c] <=> i \in 1..visits[c] \/ i = visits[c] + 1
    BY <2>1
  <2>4. \A d : \A i \in 1..visits'[d] : visits'[d] # 0
    OBVIOUS
  <2>5. c \in Children(n)' /\ visits[c] + 1 \in 1..visits'[c]
    BY <2>1
  <2>6. t \in Through(n) \/ t = <<c, visits[c] + 1>> => t \in Through(n)'
    BY <2>1, <2>3, <2>5, InThrough, InThroughNext
  <2>7. t \in Through(n)' => t \in Through(n) \/ t = <<c, visits[c] + 1>>
    BY <2>2, <2>3, <2>4, InThrough, InThroughNext
  <2> QED BY <2>6, <2>7
<1> QED BY <1>1

LEMMA FlowStep == TypeOK /\ AbsentUnvisited /\ FlowCounted /\ [Next]_vars => FlowCounted'
<1> SUFFICES ASSUME TypeOK, AbsentUnvisited, FlowCounted, [Next]_vars, NEW n \in Node
             PROVE  IsFiniteSet(Through(n)') /\ Cardinality(Through(n)') <= visits'[n]
  BY DEF FlowCounted
<1>1. /\ IsFiniteSet(Through(n)) /\ Cardinality(Through(n)) <= visits[n]
      /\ Cardinality(Through(n)) \in Nat /\ visits[n] \in Nat
  BY FS_CardinalityType DEF FlowCounted, TypeOK
<1>2. CASE visits' = visits
  BY <1>1, <1>2, FlowUnchanged
<1>3. ASSUME NEW s \in Node, Round(s), visits' = Visited(s)
      PROVE  IsFiniteSet(Through(n)') /\ Cardinality(Through(n)') <= visits'[n]
  <2>1. \A m \in Node : visits'[m] = IF OnPathTo(m, s) THEN visits[m] + 1 ELSE visits[m]
    BY <1>3 DEF Visited
  <2>2. visits'[n] >= visits[n]
    BY <1>1, <2>1
  <2>3. CASE \E c \in Children(n) : OnPathTo(c, s)
    <3>1. PICK c \in Children(n) : OnPathTo(c, s)
      BY <2>3
    <3>2. c \in Node /\ IsChildOf(c, n)
      BY DEF Children, Present
    <3>3. n \in Ancestors(s) /\ Toward(n, s) = c
      BY <3>1, <3>2, TowardChild
    <3>4. \A d \in Children(n) : d # c => ~OnPathTo(d, s)
      BY <3>3, TowardChild DEF Children, Present
    <3>5. visits'[c] = visits[c] + 1 /\ \A d \in Children(n) : d # c => visits'[d] = visits[d]
      BY <2>1, <3>1, <3>2, <3>4 DEF Children, Present
    <3>6. visits'[n] = visits[n] + 1
      BY <2>1, <3>3 DEF Ancestors, PathTo
    <3>7. Through(n)' = Through(n) \union {<<c, visits[c] + 1>>}
      BY <3>5, FlowGrows
    <3>8. /\ IsFiniteSet(Through(n) \union {<<c, visits[c] + 1>>})
          /\ Cardinality(Through(n) \union {<<c, visits[c] + 1>>})
               \in {Cardinality(Through(n)), Cardinality(Through(n)) + 1}
      BY <1>1, FS_AddElement
    <3> HIDE DEF Through
    <3> QED BY <1>1, <3>6, <3>7, <3>8
  <2>4. CASE \A c \in Children(n) : ~OnPathTo(c, s)
    <3>1. Through(n)' = Through(n)
      BY <2>1, <2>4, FlowUnchanged DEF Children, Present
    <3> QED BY <1>1, <2>2, <3>1, <2>1
  <2> QED BY <2>3, <2>4
<1> QED BY <1>2, <1>3, VisitStep

(* Backpropagation counts every visit of a child in its parent exactly     *)
(* once: the visits of all children together are no more than those of the *)
(* parent, so none is lost on the way to the root.                         *)
THEOREM VisitsFlow == Spec => []VisitFlow
<1>1. Init => AbsentUnvisited /\ FlowCounted
  <2> SUFFICES ASSUME Init, NEW n \in Node
               PROVE  /\ visits[n] = 0
                      /\ IsFiniteSet(Through(n)) /\ Cardinality(Through(n)) <= visits[n]
    BY DEF AbsentUnvisited, FlowCounted
  <2>1. \A m \in Node : visits[m] = 0
    BY DEF Init
  <2>2. \A t : t \notin Through(n)
    BY <2>1, InThrough DEF Children, Present
  <2>3. Through(n) = {}
    BY <2>2
  <2> QED BY <2>1, <2>3, FS_EmptySet
<1>2. FlowCounted => VisitFlow
  BY DEF FlowCounted, VisitFlow, Present
<1> QED BY <1>1, <1>2, NextAbsentUnvisited, FlowStep, TypeCorrect, PTL DEF Spec

(* "Unvisited children receive infinite weight and are always explored     *)
(* first" (_uct.py): no child is visited twice before each of its siblings *)
(* was visited once, and siblings get their first visit in order, in spite *)
(* of failed expansions and refuted proofs.                                *)
THEOREM UnvisitedComeFirst == Spec => []UnvisitedFirst
<1>1. Init => AbsentUnvisited /\ UnvisitedFirst
  BY DEF Init, AbsentUnvisited, UnvisitedFirst, Present, Children
<1>2. TypeOK /\ AbsentUnvisited /\ UnvisitedFirst /\ [Next]_vars => UnvisitedFirst'
  <2> SUFFICES ASSUME TypeOK, AbsentUnvisited, UnvisitedFirst, [Next]_vars,
                      NEW n \in Node, NEW c \in Node, NEW d \in Node,
                      n \in Present', c \in Present', d \in Present',
                      IsChildOf(c, n), IsChildOf(d, n)
               PROVE  /\ visits'[c] >= 2 => visits'[d] >= 1
                      /\ visits'[c] >= 1 /\ Position(d) < Position(c) => visits'[d] >= 1
    BY DEF UnvisitedFirst, Children, Present, IsChildOf, OnPathTo, Position
  <2>1. visits[c] \in Nat /\ visits[d] \in Nat
    BY DEF TypeOK
  <2>2. /\ visits[c] >= 2 => visits[d] >= 1
        /\ visits[c] >= 1 /\ Position(d) < Position(c) => visits[d] >= 1
    <3>1. CASE c \in Present /\ d \in Present
      <4>1. n \in Present
        BY <3>1, AboveIsStep, NodeIsSeq DEF IsChildOf, Present, TypeOK
      <4> QED BY <3>1, <4>1 DEF UnvisitedFirst, Children
    <3>2. CASE c \notin Present
      BY <3>2 DEF AbsentUnvisited, Present
    <3>3. CASE c \in Present /\ d \notin Present
      <4>1. PICK s \in Node : IsExpandable(s) /\ IsChildOf(d, s)
        BY <3>3, TreeStep DEF Present
      <4>2. s = n
        BY <4>1, OneParent
      <4> QED BY <3>3, <4>1, <4>2 DEF IsExpandable, Children
    <3> QED BY <3>1, <3>2, <3>3
  <2>3. CASE visits' = visits
    BY <2>2, <2>3
  <2>4. ASSUME NEW s \in Node, Round(s), visits' = Visited(s)
        PROVE  /\ visits'[c] >= 2 => visits'[d] >= 1
               /\ visits'[c] >= 1 /\ Position(d) < Position(c) => visits'[d] >= 1
    <3>1. visits'[d] >= visits[d]
      BY <2>1, <2>4 DEF Visited
    <3>2. CASE ~OnPathTo(c, s)
      BY <2>1, <2>2, <2>4, <3>1, <3>2 DEF Visited
    <3>3. CASE OnPathTo(c, s)
      <4>1. visits'[c] = visits[c] + 1
        BY <2>4, <3>3 DEF Visited
      <4>2. s \in Present /\ Children(s) = {}
        BY <2>4, RoundFacts
      <4>3. c \in Children(n)
        BY <3>3, <4>2, AboveIsStep DEF Children, Present, TypeOK
      <4>4. BestChild(c, n)
        BY <2>4, <3>3, TowardChild DEF Round, Selected
      <4>5. d \in Present
        <5>1. SUFFICES ASSUME d \notin Present PROVE FALSE
          OBVIOUS
        <5>2. PICK t \in Node : IsExpandable(t) /\ IsChildOf(d, t)
          BY <5>1, TreeStep DEF Present
        <5>3. t = n
          BY <5>2, OneParent
        <5> QED BY <4>3, <5>2, <5>3 DEF IsExpandable
      <4>6. d \in Children(n)
        BY <4>5 DEF Children
      <4>7. CASE visits[d] = 0
        <5>1. d \in Fresh(n)
          BY <4>6, <4>7 DEF Fresh
        <5>2. visits[c] = 0 /\ Position(c) <= Position(d)
          BY <4>4, <5>1 DEF BestChild, FirstOf, Fresh
        <5>3. Position(c) \in Nat /\ Position(d) \in Nat
          BY PositionType, SizeAssumption
        <5> QED BY <4>1, <5>2, <5>3
      <4>8. CASE visits[d] # 0
        BY <2>1, <2>4, <4>8 DEF Visited
      <4> QED BY <4>7, <4>8
    <3> QED BY <3>2, <3>3
  <2> QED BY <2>3, <2>4, VisitStep
<1> QED BY <1>1, <1>2, NextAbsentUnvisited, TypeCorrect, PTL DEF Spec

-----------------------------------------------------------------------------
(* Refutations.                                                            *)

(* A termination node on the way to the selected leaf is that leaf.        *)
LEMMA TerminationEndsPath ==
  ASSUME TypeOK, NEW n \in Node, Round(n), NEW m \in Node, OnPathTo(m, n),
         IsTermination(m)
  PROVE  m = n
BY RoundFacts, AboveIsStep DEF TypeOK, IsTermination

LEMMA RefutationInit == Init => RefutationIsLocal
BY DEF Init, RefutationIsLocal, Finite, NegInf

LEMMA RefutationStep ==
  TypeOK /\ RefutationIsLocal /\ [Next]_vars => RefutationIsLocal'
<1> SUFFICES ASSUME TypeOK, RefutationIsLocal, [Next]_vars
             PROVE  RefutationIsLocal'
  OBVIOUS
<1>1. \A m \in Node : win[m] = NegInf => IsTermination(m)' /\ m \in checked
  BY TreeStep DEF RefutationIsLocal, IsTermination, Present
<1>2. win \in [Node -> {Finite, NegInf}] /\ Finite # NegInf /\ checked \subseteq Node
  BY DEF TypeOK, Finite, NegInf
<1>3. CASE UNCHANGED <<win, checked, status>>
  BY <1>1, <1>3 DEF RefutationIsLocal, IsTermination
<1>4. CASE Return
  BY <1>1, <1>4 DEF Return, RefutationIsLocal, IsTermination
<1>5. ASSUME NEW n \in Node, Solve(n) PROVE RefutationIsLocal'
  BY <1>1, <1>5 DEF Solve, RefutationIsLocal, IsTermination
<1>6. ASSUME NEW n \in Node, Refute(n) PROVE RefutationIsLocal'
  <2>1. IsTermination(n)' /\ n \in checked' /\ checked' = checked \union {n}
    BY <1>6 DEF Refute, ToCheck, IsTermination
  <2>2. ASSUME NEW m \in Node, m # n
        PROVE  win'[m] = win[m]
    <3>1. win'[m] = IF OnPathTo(m, n) THEN Plus(win[m], Finite) ELSE win[m]
      BY <1>2, <1>6, <2>2 DEF Refute, Penalised, Credited
    <3>2. OnPathTo(m, n) => win[m] = Finite
      BY <1>2, <1>6, <2>2, TerminationEndsPath DEF Refute, RefutationIsLocal
    <3> QED BY <1>2, <3>1, <3>2 DEF Plus
  <2>3. win'[n] = NegInf
    BY <1>6 DEF Refute, Penalised, Credited
  <2>4. status' = status /\ status = "running"
    BY <1>6 DEF Refute, Round
  <2> QED BY <1>1, <1>2, <2>1, <2>2, <2>3, <2>4 DEF RefutationIsLocal, IsTermination
<1>7. ASSUME NEW n \in Node, Expand(n) \/ ExpandNothing(n) PROVE RefutationIsLocal'
  <2>1. Round(n) /\ IsExpandable(n) /\ win' = Credited(win, n)
        /\ UNCHANGED <<checked, status>>
    BY <1>7 DEF Expand, ExpandNothing
  <2>2. win[n] = Finite
    BY <1>2, <2>1 DEF RefutationIsLocal, IsExpandable
  <2>3. ASSUME NEW m \in Node PROVE win'[m] = win[m]
    <3>1. win'[m] = IF OnPathTo(m, n) /\ m # n THEN Plus(win[m], Finite) ELSE win[m]
      BY <2>1, <2>2 DEF Credited
    <3>2. OnPathTo(m, n) /\ m # n => win[m] = Finite
      BY <1>2, <2>1, TerminationEndsPath DEF RefutationIsLocal
    <3> QED BY <1>2, <3>1, <3>2 DEF Plus
  <2> QED BY <1>1, <1>2, <2>1, <2>3 DEF RefutationIsLocal, IsTermination
<1>8. ASSUME NEW n \in Node, ExpandRaises(n) PROVE RefutationIsLocal'
  <2>1. status = "running"
    BY <1>8 DEF ExpandRaises, Round
  <2> QED BY <1>1, <1>8, <2>1 DEF ExpandRaises, RefutationIsLocal, IsTermination
<1>9. ASSUME NEW n \in Node, Stall(n) PROVE RefutationIsLocal'
  BY <1>3, <1>9 DEF Stall
<1> QED BY <1>3, <1>4, <1>5, <1>6, <1>7, <1>8, <1>9 DEF Next, vars, BestAnswer

(* Minus infinity marks exactly the refuted proofs and never reaches an    *)
(* ancestor of one.                                                        *)
THEOREM RefutationsStayLocal == Spec => []RefutationIsLocal
BY RefutationInit, RefutationStep, TypeCorrect, PTL DEF Spec

(* A proof is sent to the proof assistant at most once, and a refuted node *)
(* collects no further visit and no other value.                           *)
THEOREM RefutationsAreFinal == Spec => RefutedStaysRefuted
<1>1. ASSUME TypeOK, RefutationIsLocal, [Next]_vars, NEW m \in Node, win[m] = NegInf
      PROVE  win'[m] = NegInf /\ visits'[m] = visits[m]
  <2>1. IsTermination(m) /\ m \in checked
    BY <1>1 DEF RefutationIsLocal
  <2>2. ASSUME NEW n \in Node, Refute(n) \/ Expand(n) \/ ExpandNothing(n)
        PROVE  ~OnPathTo(m, n)
    <3>1. Round(n) /\ (IsTermination(n) => n \notin checked)
      BY <2>2 DEF Refute, Expand, ExpandNothing, ToCheck, IsExpandable
    <3> QED BY <1>1, <2>1, <3>1, TerminationEndsPath
  <2>3. ASSUME NEW n \in Node, Refute(n)
        PROVE  win'[m] = NegInf /\ visits'[m] = visits[m]
    <3>1. m # n /\ ~OnPathTo(m, n)
      BY <2>2, <2>3, PathReflexive
    <3> QED BY <1>1, <2>3, <3>1 DEF Refute, Penalised, Visited, Credited
  <2>4. ASSUME NEW n \in Node, Expand(n) \/ ExpandNothing(n)
        PROVE  win'[m] = NegInf /\ visits'[m] = visits[m]
    BY <1>1, <2>2, <2>4 DEF Expand, ExpandNothing, Visited, Credited
  <2>5. CASE UNCHANGED <<win, visits>>
    BY <1>1, <2>5
  <2> QED BY <1>1, <2>3, <2>4, <2>5
         DEF Next, vars, Return, BestAnswer, Solve, ExpandRaises, Stall
<1>2. TypeOK /\ RefutationIsLocal /\ [Next]_vars
        => [KeepsRefuted]_vars
  BY <1>1 DEF KeepsRefuted
<1> QED BY <1>2, TypeCorrect, RefutationsStayLocal, PTL DEF Spec, RefutedStaysRefuted

(* A termination node has one visit when it was refuted, and none before.  *)
EndsVisitedOnce ==
  \A n \in Node : IsTermination(n) => visits[n] = IF win[n] = NegInf THEN 1 ELSE 0

Undecided == status = "running" => final = NoAnswer

LEMMA EndsVisitedStep ==
  TypeOK /\ AbsentUnvisited /\ RefutationIsLocal /\ EndsVisitedOnce /\ [Next]_vars
    => EndsVisitedOnce'
<1> SUFFICES ASSUME TypeOK, AbsentUnvisited, RefutationIsLocal, EndsVisitedOnce,
                    [Next]_vars, NEW m \in Node, IsTermination(m)'
             PROVE  visits'[m] = IF win'[m] = NegInf THEN 1 ELSE 0
  BY DEF EndsVisitedOnce
<1>0. Finite # NegInf /\ win \in [Node -> {Finite, NegInf}] /\ visits \in [Node -> Nat]
  BY DEF TypeOK, Finite, NegInf
<1>1. visits[m] = IF win[m] = NegInf THEN 1 ELSE 0
  <2>1. CASE kind[m] = "absent"
    BY <2>1 DEF AbsentUnvisited, RefutationIsLocal, IsTermination
  <2>2. CASE kind[m] # "absent"
    BY <2>2, TreeStep DEF EndsVisitedOnce, IsTermination, Present
  <2> QED BY <2>1, <2>2
<1>2. ASSUME NEW n \in Node, Refute(n) \/ Expand(n) \/ ExpandNothing(n), OnPathTo(m, n)
      PROVE  m = n /\ Refute(n)
  <2>1. Round(n) /\ n \in Present
    BY <1>2, RoundFacts DEF Refute, Expand, ExpandNothing
  <2>2. m \in Present
    BY <1>2, <2>1, AboveIsStep DEF Present, TypeOK
  <2>3. IsTermination(m)
    BY <2>2, TreeStep DEF IsTermination
  <2>4. m = n
    BY <1>2, <2>1, <2>3, TerminationEndsPath
  <2> QED BY <1>2, <2>3, <2>4 DEF Expand, ExpandNothing, IsExpandable
<1>3. ASSUME NEW n \in Node, Refute(n)
      PROVE  visits'[m] = IF win'[m] = NegInf THEN 1 ELSE 0
  <2>1. CASE m = n
    <3>1. win[n] = Finite
      BY <1>0, <1>3 DEF Refute, ToCheck, RefutationIsLocal
    <3>2. win'[n] = NegInf /\ visits'[n] = visits[n] + 1
      BY <1>0, <1>3, PathReflexive DEF Refute, Penalised, Credited, Visited
    <3> QED BY <1>0, <1>1, <2>1, <3>1, <3>2
  <2>2. CASE m # n
    <3>1. ~OnPathTo(m, n)
      BY <1>2, <1>3, <2>2
    <3> QED BY <1>0, <1>1, <1>3, <2>2, <3>1 DEF Refute, Penalised, Credited, Visited
  <2> QED BY <2>1, <2>2
<1>4. ASSUME NEW n \in Node, Expand(n) \/ ExpandNothing(n)
      PROVE  visits'[m] = IF win'[m] = NegInf THEN 1 ELSE 0
  <2>1. ~OnPathTo(m, n)
    <3>1. ~Refute(n)
      BY <1>4 DEF Refute, Expand, ExpandNothing, ToCheck, IsTermination, IsExpandable
    <3> QED BY <1>2, <1>4, <3>1
  <2> QED BY <1>1, <1>4, <2>1 DEF Expand, ExpandNothing, Credited, Visited
<1>5. CASE UNCHANGED <<win, visits>>
  BY <1>1, <1>5
<1> QED BY <1>3, <1>4, <1>5
       DEF Next, vars, Return, BestAnswer, Solve, ExpandRaises, Stall

(* A refuted proof is the computed answer only when every sibling that the *)
(* search has visited was refuted too; by UCT, when all of them were.      *)
THEOREM RefutedComesLast == Spec => []RefutedIsLastResort
<1>1. Init => AbsentUnvisited /\ EndsVisitedOnce /\ Undecided /\ RefutedIsLastResort
  BY RFMCTSAssumption
     DEF Init, Undecided, AbsentUnvisited, EndsVisitedOnce, RefutedIsLastResort, Finite,
         NegInf, Children, Present
<1>2. TypeOK /\ RefutationIsLocal /\ EndsVisitedOnce /\ Undecided
        /\ RefutedIsLastResort /\ [Next]_vars => RefutedIsLastResort'
  <2> SUFFICES ASSUME TypeOK, RefutationIsLocal, EndsVisitedOnce,
                      Undecided, RefutedIsLastResort, [Next]_vars,
                      NEW p \in Node, NEW n \in Children(p)', NEW m \in Children(p)',
                      final' = n, win'[n] = NegInf
               PROVE  win'[m] = NegInf \/ (opts'.mode = "maximize_visits" /\ visits'[m] = 0)
    BY DEF RefutedIsLastResort
  <2>1. n \in Node /\ m \in Node /\ n # NoAnswer
    BY RFMCTSAssumption DEF Children, Present
  <2>2. CASE UNCHANGED vars
    BY <2>2 DEF vars, RefutedIsLastResort, Children, Present
  <2>3. CASE BestAnswer
    <3>1. Decided(n) /\ UNCHANGED <<kind, opts, win, visits>>
      BY <2>3 DEF BestAnswer
    <3>2. /\ n \in Children(p) /\ m \in Children(p)
          /\ win[n] = NegInf /\ visits[n] = 1 /\ visits[m] \in Nat
      BY <2>1, <3>1 DEF Children, Present, RefutationIsLocal, EndsVisitedOnce, TypeOK
    <3>3. p \in Ancestors(n) /\ Toward(p, n) = n
      BY <2>1, <3>2, TowardChild, PathReflexive DEF Children
    <3>4. n \notin Live(p) /\ n \notin Fresh(p)
      BY <3>2 DEF Live, Fresh
    <3>5. CASE opts.mode = "maximize_visits"
      <4> DEFINE most == {d \in Children(p) : \A e \in Children(p) : visits[e] <= visits[d]}
      <4>1. MostVisited(n, p)
        BY <3>1, <3>3, <3>5 DEF Decided
      <4>2. n \in most /\ most \intersect Live(p) = {}
        BY <3>4, <4>1 DEF MostVisited, FirstOf
      <4>3. visits[m] <= 1 /\ \A e \in Children(p) : visits[e] <= 1
        BY <3>2, <4>2
      <4>4. visits[m] = 0 \/ m \in most
        BY <3>2, <4>3
      <4>5. m \in Live(p) \/ win[m] = NegInf
        BY <3>2 DEF Live
      <4> QED BY <3>1, <3>5, <4>2, <4>4, <4>5
    <3>6. CASE opts.mode # "maximize_visits"
      <4>1. BestChild(n, p)
        BY <3>1, <3>3, <3>6 DEF Decided, Selected
      <4>2. Live(p) = {}
        BY <3>4, <4>1 DEF BestChild, FirstOf
      <4> QED BY <3>1, <3>2, <4>2 DEF Live
    <3> QED BY <3>5, <3>6
  <2>4. CASE status = "running" /\ final' = final
    BY <2>1, <2>4 DEF Undecided
  <2> QED BY <2>2, <2>3, <2>4
         DEF Next, Return, Solve, Refute, Expand, ExpandNothing, ExpandRaises,
             Stall, Round
<1>3. Undecided /\ [Next]_vars => Undecided'
  BY DEF Undecided, vars, Next, Return, BestAnswer, Solve, Refute, Expand,
         ExpandNothing, ExpandRaises, Stall, Round
<1> QED BY <1>1, <1>2, <1>3, EndsVisitedStep, NextAbsentUnvisited, TypeCorrect,
           RefutationsStayLocal, PTL DEF Spec

-----------------------------------------------------------------------------
(* The contract.                                                           *)

(* CHECKED_AND_TRUE is reported only with a proof that was handed to the   *)
(* callback and is correct.                                                *)
THEOREM OnlyVerifiedProofs == Spec => []SolvedByVerifiedProof
<1>1. Init => SolvedByVerifiedProof
  BY DEF Init, SolvedByVerifiedProof
<1>2. TypeOK /\ SolvedByVerifiedProof /\ [Next]_vars => SolvedByVerifiedProof'
  <2> SUFFICES ASSUME TypeOK, SolvedByVerifiedProof, [Next]_vars
               PROVE  SolvedByVerifiedProof'
    OBVIOUS
  <2>1. CASE UNCHANGED vars
    BY <2>1 DEF SolvedByVerifiedProof, vars
  <2>2. ASSUME NEW n \in Node, Solve(n) PROVE SolvedByVerifiedProof'
    <3>1. answer' \in checked' /\ answer' # NoAnswer
      BY <2>2, RFMCTSAssumption DEF Solve, Confirmed, Reach, TypeOK
    <3> QED BY <2>2, <3>1 DEF Solve, Confirmed, SolvedByVerifiedProof
  <2>3. CASE status = "running" /\ status' \in {"running", "stopped"} /\ answer' = answer
    BY <2>3 DEF SolvedByVerifiedProof
  <2>4. CASE BestAnswer
    BY <2>4 DEF BestAnswer, SolvedByVerifiedProof
  <2> QED BY <2>1, <2>2, <2>3, <2>4
         DEF Next, Return, Refute, Expand, ExpandNothing, ExpandRaises, Stall, Round
<1> QED BY <1>1, <1>2, TypeCorrect, PTL DEF Spec

(* Rollout-free MCTS implements the search its caller expects.             *)
THEOREM ImplementsTreeSearch == Spec => ContractSpec
<1>1. Init => Contract!Init
  BY DEF Init, Contract!Init, OnlyRoot, Contract!OnlyRoot, Node, Contract!Node,
         Root, Contract!Root, BoundedSeq, Contract!BoundedSeq, SeqOf,
         Contract!SeqOf
<1>2. TypeOK /\ [Next]_vars => [Contract!Next]_(Contract!vars)
  <2> SUFFICES ASSUME TypeOK, Next PROVE Contract!Next \/ UNCHANGED Contract!vars
    BY DEF vars, Contract!vars
  <2>1. Contract!Node = Node
    BY DEF Node, Contract!Node, BoundedSeq, Contract!BoundedSeq, SeqOf,
           Contract!SeqOf
  <2>2. ASSUME NEW n \in Node
        PROVE  /\ IsExpandable(n) => Contract!IsExpandable(n)
               /\ IsTermination(n) = Contract!IsTermination(n)
               /\ n \in Present => n \in Contract!Present
               /\ \A d : Contract!Samples(n, d) = Samples(n, d)
               /\ \A ks : Contract!WithChildren(n, ks) = WithChildren(n, ks)
    BY <2>1 DEF IsExpandable, Contract!IsExpandable, IsTermination,
       Contract!IsTermination, Present, Contract!Present, Children,
       Contract!Children, IsChildOf, Contract!IsChildOf, OnPathTo,
       Contract!OnPathTo, Samples, Contract!Samples, TextKind, Contract!TextKind,
       WithChildren, Contract!WithChildren, Position, Contract!Position
  <2>3. opts.dedupe \in BOOLEAN
    BY DEF TypeOK, Settings
  <2>4. CASE Return
    BY <2>4 DEF Return, Contract!Next, Contract!Stop
  <2>9. CASE BestAnswer
    BY <2>9 DEF BestAnswer, Contract!vars
  <2>5. ASSUME NEW n \in Node, Solve(n) \/ Refute(n) PROVE Contract!Next
    <3>1. n \in Present
      BY <2>5, RoundFacts DEF Solve, Refute
    <3>2. Contract!Probe(n)
      BY <2>2, <2>5, <3>1 DEF Solve, Confirmed, Reach, Refute, Round, ToCheck, Contract!Probe
    <3> QED BY <2>1, <3>2 DEF Contract!Next
  <2>6. ASSUME NEW n \in Node, Expand(n) \/ ExpandRaises(n), kind' # kind
        PROVE  Contract!Next
    <3>1. Contract!Grow(n)
      BY <2>2, <2>3, <2>6 DEF Expand, ExpandRaises, LeftBehind, Round, Contract!Grow
    <3> QED BY <2>1, <3>1 DEF Contract!Next
  <2>7. ASSUME NEW n \in Node, Expand(n) \/ ExpandRaises(n), kind' = kind
        PROVE  Contract!Next \/ UNCHANGED Contract!vars
    BY <2>7 DEF Expand, ExpandRaises, Round, Contract!Next, Contract!Stop, Contract!vars
  <2>8. ASSUME NEW n \in Node, ExpandNothing(n) \/ Stall(n)
        PROVE  UNCHANGED Contract!vars
    BY <2>8 DEF ExpandNothing, Stall, Round, Contract!vars
  <2> QED BY <2>4, <2>5, <2>6, <2>7, <2>8, <2>9 DEF Next
<1> QED BY <1>1, <1>2, TypeCorrect, PTL DEF Spec, ContractSpec, Contract!Spec
=============================================================================
