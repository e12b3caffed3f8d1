-------------------------- MODULE SearchTreeProofs --------------------------
(***************************************************************************)
(* Facts about paths and trees that the proofs about search methods share. *)
(***************************************************************************)
EXTENDS SearchTree, SequenceTheorems, FiniteSetTheorems, TLAPS

(* A node is a sequence of positions.                                      *)
LEMMA NodeIsSeq ==
  ASSUME NEW n \in Node
  PROVE  /\ n \in Seq(1..MaxChildren)
         /\ Len(n) \in Nat /\ Len(n) <= MaxDepth
         /\ DOMAIN n = 1..Len(n)
         /\ \A i \in 1..Len(n) : n[i] \in 1..MaxChildren
<1>1. PICK k \in 0..MaxDepth : n \in [1..k -> 1..MaxChildren]
  BY DEF Node, BoundedSeq, SeqOf
<1>2. k \in Nat /\ k <= MaxDepth
  BY <1>1, SizeAssumption
<1>3. n \in Seq(1..MaxChildren) /\ Len(n) = k
  <2>1. n \in Seq(1..MaxChildren)
    BY <1>1, <1>2, SeqDef
  <2>2. Len(n) \in Nat /\ DOMAIN n = 1..Len(n)
    BY <2>1, LenProperties
  <2>3. DOMAIN n = 1..k
    BY <1>1
  <2>4. ~(Len(n) < k) /\ ~(k < Len(n))
    <3>1. Len(n) < k => k \in 1..k /\ k \notin 1..Len(n)
      BY <1>2, <2>2
    <3>2. k < Len(n) => Len(n) \in 1..Len(n) /\ Len(n) \notin 1..k
      BY <1>2, <2>2
    <3> QED BY <2>2, <2>3, <3>1, <3>2
  <2>5. Len(n) = k
    <3>1. \A a, b \in Nat : ~(a < b) /\ ~(b < a) => a = b
      OBVIOUS
    <3> QED BY <1>2, <2>2, <2>4, <3>1, Zenon
  <2> QED BY <2>1, <2>5
<1> QED BY <1>1, <1>2, <1>3

LEMMA RootIsNode == Root \in Node /\ Len(Root) = 0
<1>1. Root \in [1..0 -> 1..MaxChildren]
  BY DEF Root
<1>2. 0 \in 0..MaxDepth
  BY SizeAssumption
<1>3. Root \in Node
  BY <1>1, <1>2 DEF Node, BoundedSeq, SeqOf
<1> QED BY <1>3 DEF Root

(* Nodes with the same positions are the same node.                        *)
LEMMA NodeExtensional ==
  ASSUME NEW m \in Node, NEW n \in Node,
         Len(m) = Len(n), \A i \in 1..Len(m) : m[i] = n[i]
  PROVE  m = n
BY NodeIsSeq, SeqEqual

LEMMA PathReflexive == ASSUME NEW n \in Node PROVE OnPathTo(n, n)
BY NodeIsSeq DEF OnPathTo

LEMMA PathTransitive ==
  ASSUME NEW k \in Node, NEW m \in Node, NEW n \in Node,
         OnPathTo(k, m), OnPathTo(m, n)
  PROVE  OnPathTo(k, n)
BY NodeIsSeq DEF OnPathTo

(* A strict ancestor is strictly shorter.                                  *)
LEMMA AncestorShorter ==
  ASSUME NEW m \in Node, NEW n \in Node, OnPathTo(m, n), m # n
  PROVE  Len(m) < Len(n)
BY NodeIsSeq, NodeExtensional DEF OnPathTo

LEMMA OneParent ==
  ASSUME NEW m \in Node, NEW n \in Node, NEW k \in Node,
         IsChildOf(m, n), IsChildOf(m, k)
  PROVE  n = k
BY NodeIsSeq, NodeExtensional DEF IsChildOf, OnPathTo

(* What lies strictly above a child lies on the path to its parent.        *)
LEMMA AboveChild ==
  ASSUME NEW c \in Node, NEW n \in Node, NEW m \in Node,
         IsChildOf(c, n), OnPathTo(m, c), m # c
  PROVE  OnPathTo(m, n) /\ Len(m) <= Len(n)
<1>1. Len(m) < Len(c)
  BY AncestorShorter
<1> QED BY <1>1, NodeIsSeq DEF IsChildOf, OnPathTo

LEMMA PositionType ==
  ASSUME NEW c \in Node, NEW n \in Node, IsChildOf(c, n)
  PROVE  Position(c) \in 1..MaxChildren
BY NodeIsSeq DEF IsChildOf, Position

(* Every node but the root has a parent.                                   *)
LEMMA NotRootHasParent ==
  ASSUME NEW c \in Node, c # Root
  PROVE  \E n \in Node : IsChildOf(c, n)
<1>1. Len(c) \in Nat \ {0} /\ Len(c) <= MaxDepth
  BY NodeIsSeq, RootIsNode, NodeExtensional
<1> DEFINE k == Len(c) - 1
           n == [i \in 1..k |-> c[i]]
<1>2. k \in 0..MaxDepth /\ k \in Nat
  BY <1>1, SizeAssumption
<1>3. \A i \in 1..k : c[i] \in 1..MaxChildren
  <2>1. \A i \in 1..Len(c) : c[i] \in 1..MaxChildren
    BY NodeIsSeq
  <2> QED BY <1>1, <2>1
<1>4. n \in [1..k -> 1..MaxChildren]
  BY <1>3
<1> HIDE DEF k
<1>5. n \in Node
  BY <1>2, <1>4 DEF Node, BoundedSeq, SeqOf
<1>6. Len(n) = k
  BY <1>2, <1>4, NodeIsSeq, <1>5
<1>7. \A i \in 1..k : n[i] = c[i]
  OBVIOUS
<1> QED BY <1>1, <1>5, <1>6, <1>7 DEF IsChildOf, OnPathTo, k

(* There are finitely many nodes: a node is determined by its positions.   *)
LEMMA NodesAreFinite == IsFiniteSet(Node)
<1> DEFINE Pairs == (1..MaxDepth) \X (1..MaxChildren)
           Of(n) == {<<i, n[i]>> : i \in 1..Len(n)}
           f == [n \in Node |-> Of(n)]
<1>1. IsFiniteSet(SUBSET Pairs)
  <2>1. IsFiniteSet(1..MaxDepth) /\ IsFiniteSet(1..MaxChildren)
    BY SizeAssumption, FS_Interval
  <2>2. IsFiniteSet(Pairs)
    BY <2>1, FS_Product
  <2> QED BY <2>2, FS_SUBSET
<1>2. ASSUME NEW n \in Node PROVE Of(n) \in SUBSET Pairs
  <2>1. \A i \in 1..Len(n) : i \in 1..MaxDepth /\ n[i] \in 1..MaxChildren
    BY NodeIsSeq, SizeAssumption
  <2> QED BY <2>1
<1>3. ASSUME NEW m \in Node, NEW n \in Node, Of(m) = Of(n) PROVE m = n
  <2>1. \A i \in 1..Len(m) : i \in 1..Len(n) /\ m[i] = n[i]
    <3> SUFFICES ASSUME NEW i \in 1..Len(m) PROVE i \in 1..Len(n) /\ m[i] = n[i]
      OBVIOUS
    <3>1. <<i, m[i]>> \in Of(n)
      BY <1>3
    <3> QED BY <3>1
  <2>2. \A i \in 1..Len(n) : i \in 1..Len(m)
    <3> SUFFICES ASSUME NEW i \in 1..Len(n) PROVE i \in 1..Len(m)
      OBVIOUS
    <3>1. <<i, n[i]>> \in Of(m)
      BY <1>3
    <3> QED BY <3>1
  <2>3. Len(m) = Len(n)
    <3>1. Len(m) \in Nat /\ Len(n) \in Nat
      BY NodeIsSeq
    <3>2. Len(m) > 0 => Len(m) <= Len(n)
      BY <2>1, <3>1
    <3>3. Len(n) > 0 => Len(n) <= Len(m)
      BY <2>2, <3>1
    <3> QED BY <3>1, <3>2, <3>3
  <2> QED BY <2>1, <2>3, NodeExtensional
<1>4. f \in Injection(Node, SUBSET Pairs)
  <2>1. f \in [Node -> SUBSET Pairs]
    BY <1>2
  <2>2. \A m, n \in Node : f[m] = f[n] => m = n
    BY <1>3
  <2> HIDE DEF f
  <2> QED BY <2>1, <2>2 DEF Injection, IsInjective
<1> QED BY <1>1, <1>4, FS_Injection

(* The parent of a node is what Front leaves of it.                        *)
LEMMA FrontIsParent ==
  ASSUME NEW c \in Node, NEW n \in Node, IsChildOf(c, n)
  PROVE  Front(c) = n
<1>1. /\ c \in Seq(1..MaxChildren) /\ Len(c) \in Nat
      /\ n \in Seq(1..MaxChildren) /\ Len(n) \in Nat
      /\ Len(c) = Len(n) + 1 /\ \A i \in 1..Len(n) : n[i] = c[i]
  BY NodeIsSeq DEF IsChildOf, OnPathTo
<1>2. /\ Front(c) \in Seq(1..MaxChildren) /\ Len(Front(c)) = Len(n)
      /\ \A i \in 1..Len(n) : Front(c)[i] = c[i]
  <2>1. Front(c) = SubSeq(c, 1, Len(n))
    BY <1>1 DEF Front
  <2>2. \A i \in 1..Len(n) : c[i] \in 1..MaxChildren
    <3>1. \A i \in 1..Len(c) : c[i] \in 1..MaxChildren
      BY NodeIsSeq
    <3> QED BY <1>1, <3>1
  <2>3. Len(n) \in Nat
    BY <1>1
  <2>4. /\ SubSeq(c, 1, Len(n)) \in Seq(1..MaxChildren)
        /\ Len(SubSeq(c, 1, Len(n))) = IF 1 <= Len(n) THEN Len(n) - 1 + 1 ELSE 0
        /\ \A i \in 1..(Len(n) - 1 + 1) : SubSeq(c, 1, Len(n))[i] = c[1 + i - 1]
    BY <2>2, <2>3, SubSeqProperties
  <2> QED BY <2>1, <2>3, <2>4
<1> QED BY <1>1, <1>2, SeqEqual

(* Siblings in the same position are the same node.                        *)
LEMMA SiblingsDiffer ==
  ASSUME NEW c \in Node, NEW d \in Node, NEW n \in Node,
         IsChildOf(c, n), IsChildOf(d, n), Position(c) = Position(d)
  PROVE  c = d
BY NodeIsSeq, NodeExtensional DEF IsChildOf, OnPathTo, Position

-----------------------------------------------------------------------------
(* In a tree, whatever lies strictly above a present node is a proof step. *)
LEMMA AboveIsStep ==
  ASSUME TreeShape, NEW m \in Node, NEW n \in Present, OnPathTo(m, n), m # n
  PROVE  kind[m] = "step"
BY DEF TreeShape, Present

(* The only tree of one node is a tree.                                    *)
LEMMA OnlyRootIsTree == kind = OnlyRoot => TreeShape
<1> SUFFICES ASSUME kind = OnlyRoot PROVE TreeShape
  OBVIOUS
<1>1. kind \in [Node -> Kind] /\ kind[Root] = "step"
  BY RootIsNode DEF OnlyRoot, Kind, TextKind
<1>2. \A m \in Present : m = Root
  BY DEF Present, OnlyRoot
<1>3. \A n \in Node : OnPathTo(n, Root) => n = Root
  BY RootIsNode, AncestorShorter, NodeIsSeq
<1>4. \A n \in Node : ~IsChildOf(Root, n)
  BY RootIsNode, NodeIsSeq DEF IsChildOf
<1> QED BY <1>1, <1>2, <1>3, <1>4 DEF TreeShape, Children

(* What the samples of a policy call look like.                            *)
LEMMA SamplesType ==
  ASSUME NEW n \in Node, NEW dedupe, NEW ks \in Samples(n, dedupe)
  PROVE  \E k \in 1..MaxChildren : ks \in [1..k -> TextKind]
BY DEF Samples

(* Growing an unexpanded step keeps the shape of the tree, touches absent  *)
(* nodes only and leaves every other node as it is.                        *)
LEMMA GrowKeepsTree ==
  ASSUME TreeShape, NEW n \in Node, IsExpandable(n),
         NEW dedupe, NEW ks \in Samples(n, dedupe), kind' = WithChildren(n, ks)
  PROVE  /\ TreeShape'
         /\ \A m \in Present : kind'[m] = kind[m]
         /\ \A m \in Node : kind'[m] # kind[m] => IsChildOf(m, n)
<1>1. PICK k \in 1..MaxChildren : ks \in [1..k -> TextKind]
  BY SamplesType
<1>2. DOMAIN ks = 1..k /\ \A i \in 1..k : ks[i] \in TextKind
  BY <1>1
<1>3. \A m \in Node : kind'[m] = IF IsChildOf(m, n) /\ Position(m) \in 1..k
                                 THEN ks[Position(m)] ELSE kind[m]
  BY <1>2 DEF WithChildren
<1>4. \A m \in Node : kind'[m] # kind[m] => IsChildOf(m, n)
  BY <1>3
<1>5. \A m \in Present : kind'[m] = kind[m]
  BY <1>3 DEF IsExpandable, Children, Present
<1>6. \A m \in Node : m \in Present' => m \in Present \/ IsChildOf(m, n)
  BY <1>4 DEF Present
<1>7. kind[n] = "step"
  BY DEF IsExpandable, IsTermination, Present, TreeShape, Kind, TextKind
<1>8. kind' \in [Node -> Kind]
  <2>1. kind' = [m \in Node |-> IF IsChildOf(m, n) /\ Position(m) \in 1..k
                                THEN ks[Position(m)] ELSE kind[m]]
    BY <1>2 DEF WithChildren
  <2> QED BY <2>1, <1>2 DEF TreeShape, Kind
<1>9. kind'[Root] = "step"
  BY <1>5, RootIsNode DEF TreeShape, Present
<1>10. ASSUME NEW m \in Node, NEW a \in Node, m \in Present', OnPathTo(a, m), a # m
       PROVE  kind'[a] = "step"
  <2>1. CASE m \in Present
    <3>1. kind[a] = "step"
      BY <1>10, <2>1, AboveIsStep
    <3> QED BY <3>1, <1>5 DEF Present
  <2>2. CASE IsChildOf(m, n)
    <3>1. OnPathTo(a, n)
      BY <1>10, <2>2, AboveChild
    <3>2. kind[a] = "step"
      BY <3>1, <1>7, AboveIsStep DEF IsExpandable
    <3> QED BY <3>2, <1>5 DEF Present
  <2> QED BY <1>6, <1>10, <2>1, <2>2
<1>11. ASSUME NEW a \in Node, NEW m \in Node, m \in Present', IsChildOf(m, a),
              NEW c \in Node, IsChildOf(c, a), Position(c) <= Position(m)
       PROVE  c \in Present'
  <2>1. CASE a = n
    <3>1. m \notin Present
      BY <1>11, <2>1 DEF IsExpandable, Children
    <3>2. Position(m) \in 1..k
      BY <1>3, <1>11, <3>1 DEF Present
    <3>3. Position(c) \in 1..k
      BY <3>2, <1>11, PositionType, <1>1, SizeAssumption
    <3>4. kind'[c] = ks[Position(c)]
      BY <1>3, <1>11, <2>1, <3>3
    <3> QED BY <3>3, <3>4, <1>2 DEF Present, TextKind
  <2>2. CASE a # n
    <3>1. ~IsChildOf(m, n)
      BY <1>11, <2>2, OneParent
    <3>2. m \in Present
      BY <3>1, <1>6, <1>11
    <3>3. c \in Present
      BY <3>2, <1>11 DEF TreeShape, Children
    <3> QED BY <3>3, <1>5 DEF Present
  <2> QED BY <2>1, <2>2
<1>12. TreeShape'
  BY <1>8, <1>9, <1>10, <1>11 DEF TreeShape, Children, Present, IsChildOf, OnPathTo, Position
<1> QED BY <1>4, <1>5, <1>12
=============================================================================
