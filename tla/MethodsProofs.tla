---------------------------- MODULE MethodsProofs ----------------------------
(***************************************************************************)
(* What holds of beam search and of traditional MCTS, synchronous and      *)
(* asynchronous, with every policy, evaluator and callback, and for every  *)
(* number of children, depth, width and budget.                            *)
(***************************************************************************)
EXTENDS Methods, SearchTreeProofs, FiniteSetTheorems

LEMMA Options ==
  ASSUME opts \in Setups
  PROVE  /\ opts.method \in MethodType
         /\ opts.async \in BOOLEAN /\ opts.dedupe \in BOOLEAN
         /\ opts.policy \in SyncPolicy \union AsyncPolicy
BY SetupAssumption
   DEF BeamSearch!BeamSetup, MCTS!MCTSSetup, MethodType, SyncPolicy, AsyncPolicy,
       BeamSearch!SyncPolicy, MCTS!SyncPolicy, BeamSearch!AsyncPolicy,
       MCTS!AsyncPolicy

(* The tree that the modules of the methods talk about is this one.        *)
LEMMA BeamTree ==
  /\ BeamSearch!Node = Node
  /\ \A n \in Node : BeamSearch!IsTermination(n) = IsTermination(n)
  /\ \A n \in Node : BeamSearch!IsExpandable(n) = IsExpandable(n)
  /\ \A n, ks : BeamSearch!WithChildren(n, ks) = WithChildren(n, ks)
  /\ \A n, d : BeamSearch!Samples(n, d) = Samples(n, d)
<1>1. BeamSearch!Node = Node
  BY DEF Node, BeamSearch!Node, BoundedSeq, BeamSearch!BoundedSeq, SeqOf,
         BeamSearch!SeqOf
<1> QED
  BY <1>1 DEF IsTermination, BeamSearch!IsTermination, IsExpandable,
     BeamSearch!IsExpandable, Present, BeamSearch!Present, Children,
     BeamSearch!Children, IsChildOf, BeamSearch!IsChildOf, OnPathTo,
     BeamSearch!OnPathTo, Samples, BeamSearch!Samples, TextKind,
     BeamSearch!TextKind, WithChildren, BeamSearch!WithChildren, Position,
     BeamSearch!Position

LEMMA MCTSTree ==
  /\ MCTS!Node = Node
  /\ \A n \in Node : MCTS!IsTermination(n) = IsTermination(n)
  /\ \A n \in Node : MCTS!IsExpandable(n) = IsExpandable(n)
  /\ \A n, ks : MCTS!WithChildren(n, ks) = WithChildren(n, ks)
  /\ \A n, d : MCTS!Samples(n, d) = Samples(n, d)
<1>1. MCTS!Node = Node
  BY DEF Node, MCTS!Node, BoundedSeq, MCTS!BoundedSeq, SeqOf, MCTS!SeqOf
<1> QED
  BY <1>1 DEF IsTermination, MCTS!IsTermination, IsExpandable,
     MCTS!IsExpandable, Present, MCTS!Present, Children, MCTS!Children,
     IsChildOf, MCTS!IsChildOf, OnPathTo, MCTS!OnPathTo, Samples,
     MCTS!Samples, TextKind, MCTS!TextKind, WithChildren, MCTS!WithChildren,
     Position, MCTS!Position

(* Texts that an expansion can leave on node n, if it leaves any.          *)
Sampled(n, ks) ==
  ks = Nothing \/ \E d \in BOOLEAN : ks \in Samples(n, d)

LEMMA BeamTexts ==
  ASSUME opts \in Setups, NEW n \in Node,
         NEW out \in BeamSearch!Expansions(opts, n)
  PROVE  Sampled(n, out.texts)
<1>1. \A p \in SyncPolicy \union AsyncPolicy :
        \A ks \in BeamSearch!Generated(p, n) : Sampled(n, ks)
  BY BeamTree DEF SyncPolicy, AsyncPolicy, Sampled, Nothing,
     BeamSearch!Generated, BeamSearch!VLLMPolicy, BeamSearch!DynamicPolicy,
     BeamSearch!VLLMServerPolicy, BeamSearch!AsyncVLLMPolicy,
     BeamSearch!AsyncBatchVLLMPolicy, BeamSearch!AsyncVLLMServerPolicy,
     BeamSearch!AsyncDynamicPolicy, BeamSearch!Responses,
     BeamSearch!Survivors, BeamSearch!Nothing
<1>2. \A ks \in BeamSearch!Texts(opts, n) : Sampled(n, ks)
  BY <1>1, BeamTree, Options DEF BeamSearch!Texts, Sampled
<1>3. BeamSearch!Nothing = Nothing
  BY DEF BeamSearch!Nothing, Nothing
<1>4. CASE out \in BeamSearch!PolicyRaised(opts)
  BY <1>3, <1>4 DEF BeamSearch!PolicyRaised, BeamSearch!Outcome, Sampled
<1>5. CASE BeamSearch!Unawaited(opts)
  BY <1>3, <1>5 DEF BeamSearch!Expansions, BeamSearch!Outcome, Sampled
<1>6. CASE out \in {BeamSearch!Outcome(ks, BeamSearch!Unscored(ks), TRUE) :
                      ks \in BeamSearch!Generated(opts.policy, n)}
  BY <1>1, <1>6, Options DEF BeamSearch!Outcome
<1>7. CASE out \in BeamSearch!Evaluated(opts, n)
  BY <1>2, <1>7 DEF BeamSearch!Evaluated, BeamSearch!Outcome
<1>8. CASE out \in BeamSearch!EvaluatorRaised(opts, n)
  BY <1>2, <1>8 DEF BeamSearch!EvaluatorRaised, BeamSearch!Outcome
<1> QED BY <1>4, <1>5, <1>6, <1>7, <1>8 DEF BeamSearch!Expansions

LEMMA MCTSTexts ==
  ASSUME opts \in Setups, NEW n \in Node, NEW ks \in MCTS!Texts(opts, n)
  PROVE  Sampled(n, ks)
<1>1. \A p \in SyncPolicy \union AsyncPolicy :
        \A t \in MCTS!Generated(p, n) : Sampled(n, t)
  BY MCTSTree DEF SyncPolicy, AsyncPolicy, Sampled, Nothing,
     MCTS!Generated, MCTS!VLLMPolicy, MCTS!DynamicPolicy,
     MCTS!VLLMServerPolicy, MCTS!AsyncVLLMPolicy, MCTS!AsyncBatchVLLMPolicy,
     MCTS!AsyncVLLMServerPolicy, MCTS!AsyncDynamicPolicy, MCTS!Responses,
     MCTS!Survivors, MCTS!Nothing
<1> QED BY <1>1, MCTSTree, Options DEF MCTS!Texts, Sampled

-----------------------------------------------------------------------------
(* What a step of either method is to its caller: it grows a leaf, hands   *)
(* over a proof, or does neither.                                          *)
Grows(n) ==
  /\ status = "running" /\ IsExpandable(n)
  /\ \E d \in BOOLEAN : \E ks \in Samples(n, d) : kind' = WithChildren(n, ks)
  /\ UNCHANGED <<checked, answer>>
  /\ status' \in {"running", "stopped"}

HandsOver(n) ==
  /\ status = "running" /\ IsTermination(n)
  /\ checked' = checked \union {n}
  /\ KeepsContract => n \notin checked
  /\ \/ /\ answer' \in checked' /\ kind[answer'] = "good"
        /\ status' = IF KeepsContract THEN "solved" ELSE "running"
     \/ answer' = answer /\ status' = "running"
  /\ UNCHANGED kind

Rests ==
  /\ status = "running"
  /\ UNCHANGED <<kind, checked, answer>>
  /\ \/ status' \in {"running", "stopped"}
     \/ status' = "solved" /\ answer # NoAnswer

Step == opts' = opts /\ (Rests \/ \E n \in Node : Grows(n) \/ HandsOver(n))

LEMMA GrowthStep ==
  ASSUME NEW n \in Node, IsExpandable(n), NEW ks, Sampled(n, ks),
         kind' = WithChildren(n, ks), kind \in [Node -> Kind],
         status = "running", status' \in {"running", "stopped"},
         UNCHANGED <<opts, checked, answer>>
  PROVE  Step
<1>1. CASE ks = Nothing
  <2>1. kind' = kind
    BY <1>1 DEF WithChildren, Nothing
  <2> QED BY <2>1 DEF Step, Rests
<1>2. CASE \E d \in BOOLEAN : ks \in Samples(n, d)
  BY <1>2 DEF Step, Grows
<1> QED BY <1>1, <1>2 DEF Sampled

LEMMA BeamStep ==
  ASSUME opts \in Setups, opts.method = "BeamSearch", kind \in [Node -> Kind],
         BeamSearch!Next
  PROVE  Step
<1>1. CASE BeamSearch!TimeUp \/ BeamSearch!Timeout \/ BeamSearch!NoBeam
  BY <1>1 DEF BeamSearch!TimeUp, BeamSearch!Timeout, BeamSearch!NoBeam, Step, Rests
<1>2. CASE BeamSearch!EndLayer \/ BeamSearch!EndSearch
  BY <1>2 DEF BeamSearch!EndLayer, BeamSearch!EndSearch, BeamSearch!LayerDone,
              BeamSearch!Finished, Step, Rests
<1>3. ASSUME NEW n \in Node, BeamSearch!Skip(n) PROVE Step
  BY <1>3 DEF BeamSearch!Skip, Step, Rests
<1>4. ASSUME NEW n \in Node, BeamSearch!Probes(n)
      PROVE  /\ status = "running" /\ IsTermination(n)
             /\ checked' = checked \union {n}
             /\ opts.async => n \in BeamSearch!Unprobed
  BY <1>4, BeamTree DEF BeamSearch!Probes, BeamSearch!IsFirst
<1>5. ASSUME NEW n \in Node, BeamSearch!Solve(n) PROVE Step
  BY <1>4, <1>5, Options
     DEF BeamSearch!Solve, BeamSearch!Confirmed, BeamSearch!Reach,
         BeamSearch!Unprobed, Step, HandsOver, KeepsContract
<1>6. ASSUME NEW n \in Node, BeamSearch!Refuse(n) PROVE Step
  BY <1>4, <1>6
     DEF BeamSearch!Refuse, BeamSearch!Unprobed, Step, HandsOver, KeepsContract
<1>7. ASSUME NEW n \in Node, BeamSearch!Expand(n) PROVE Step
  <2>1. status = "running" /\ IsExpandable(n)
    BY <1>7, BeamTree DEF BeamSearch!Expand, BeamSearch!Expands
  <2>2. PICK out \in BeamSearch!Expansions(opts, n) :
          /\ kind' = BeamSearch!WithChildren(n, out.texts)
          /\ status' = IF out.raised /\ ~opts.async THEN "stopped" ELSE status
    BY <1>7 DEF BeamSearch!Expand
  <2>3. Sampled(n, out.texts)
    BY BeamTexts
  <2>4. kind' = WithChildren(n, out.texts)
    BY <2>2, BeamTree
  <2>5. UNCHANGED <<opts, checked, answer>>
    BY <1>7 DEF BeamSearch!Expand
  <2>6. status' \in {"running", "stopped"}
    BY <2>1, <2>2
  <2> QED BY <2>1, <2>3, <2>4, <2>5, <2>6, GrowthStep
<1> QED
  BY <1>1, <1>2, <1>3, <1>5, <1>6, <1>7, BeamTree DEF BeamSearch!Next

LEMMA MCTSStep ==
  ASSUME opts \in Setups, opts.method = "TraditionalMCTS",
         kind \in [Node -> Kind], MCTS!Next
  PROVE  Step
<1> USE DEF MCTS!Round
<1>1. CASE MCTS!Return
  BY <1>1 DEF MCTS!Return, Step, Rests
<1>2. ASSUME NEW n \in Node, MCTS!Stall(n) \/ MCTS!ExpandNothing(n) PROVE Step
  BY <1>2 DEF MCTS!Stall, MCTS!ExpandNothing, Step, Rests
<1>3. ASSUME NEW n \in Node, MCTS!Solve(n) PROVE Step
  BY <1>3, MCTSTree
     DEF MCTS!Solve, MCTS!ToCheck, MCTS!Confirmed, MCTS!Reach, Step, HandsOver,
         KeepsContract
<1>4. ASSUME NEW n \in Node, MCTS!Refuse(n) PROVE Step
  BY <1>4, MCTSTree
     DEF MCTS!Refuse, MCTS!ToCheck, Step, HandsOver, KeepsContract
<1>5. ASSUME NEW n \in Node, MCTS!Expand(n) PROVE Step
  <2>1. PICK ks \in MCTS!Texts(opts, n) : kind' = WithChildren(n, ks)
    BY <1>5, MCTSTree DEF MCTS!Expand
  <2>2. /\ status = "running" /\ status' = "running" /\ IsExpandable(n)
        /\ UNCHANGED <<opts, checked, answer>>
    BY <1>5, MCTSTree DEF MCTS!Expand
  <2> QED BY <2>1, <2>2, MCTSTexts, GrowthStep
<1>6. ASSUME NEW n \in Node, MCTS!ExpandRaises(n) PROVE Step
  <2>1. /\ status = "running" /\ status' \in {"running", "stopped"}
        /\ IsExpandable(n) /\ UNCHANGED <<opts, checked, answer>>
    BY <1>6, MCTSTree DEF MCTS!ExpandRaises
  <2>2. CASE kind' = kind
    BY <2>1, <2>2 DEF Step, Rests
  <2>3. CASE \E ks \in MCTS!Texts(opts, n) : kind' = WithChildren(n, ks)
    BY <2>1, <2>3, MCTSTexts, GrowthStep
  <2> QED BY <1>6, <2>2, <2>3, MCTSTree DEF MCTS!ExpandRaises
<1> QED
  BY <1>1, <1>2, <1>3, <1>4, <1>5, <1>6, MCTSTree DEF MCTS!Next

LEMMA Steps ==
  ASSUME opts \in Setups, kind \in [Node -> Kind], Next
  PROVE  Step
BY BeamStep, MCTSStep DEF Next

-----------------------------------------------------------------------------
(* The invariant: a tree, proofs of it that were handed over, and an       *)
(* answer among them, which a method that keeps the contract has only when *)
(* it has ended.                                                           *)
Undecided == KeepsContract /\ status = "running" => answer = NoAnswer

Sound ==
  /\ TreeShape /\ opts \in Setups
  /\ checked \subseteq Present
  /\ ProofsAreVerified
  /\ Undecided

LEMMA InitSound == Init => Sound
<1> SUFFICES ASSUME Init PROVE Sound
  OBVIOUS
<1>1. /\ opts \in Setups
      /\ checked = {} /\ answer = NoAnswer /\ status = "running"
  BY DEF Init, BeamSearch!Init, MCTS!Init
<1>2. kind = OnlyRoot
  <2>1. BeamSearch!OnlyRoot = OnlyRoot /\ MCTS!OnlyRoot = OnlyRoot
    BY BeamTree, MCTSTree
       DEF OnlyRoot, BeamSearch!OnlyRoot, MCTS!OnlyRoot, Root,
           BeamSearch!Root, MCTS!Root
  <2> QED BY <2>1 DEF Init, BeamSearch!Init, MCTS!Init
<1>3. TreeShape
  BY <1>2, OnlyRootIsTree
<1> QED BY <1>1, <1>3 DEF Sound, ProofsAreVerified, Undecided

LEMMA NextSound == Sound /\ [Next]_vars => Sound'
<1> SUFFICES ASSUME Sound, [Next]_vars PROVE Sound'
  OBVIOUS
<1>1. CASE UNCHANGED vars
  BY <1>1 DEF vars, Sound, TreeShape, Present, Children, ProofsAreVerified,
              Undecided, KeepsContract
<1>2. CASE Next
  <2>1. Step
    BY <1>2, Steps DEF Sound, TreeShape
  <2>2. opts' = opts /\ KeepsContract' = KeepsContract
    BY <2>1 DEF Step, KeepsContract
  <2>3. CASE Rests
    <3>1. TreeShape' /\ Present' = Present
      BY <2>3 DEF Rests, Sound, TreeShape, Present, Children
    <3> QED BY <2>2, <2>3, <3>1 DEF Rests, Sound, ProofsAreVerified, Undecided
  <2>4. ASSUME NEW n \in Node, Grows(n) PROVE Sound'
    <3>1. TreeShape' /\ \A m \in Present : kind'[m] = kind[m]
      BY <2>4, GrowKeepsTree DEF Grows, Sound
    <3>2. checked' \subseteq Present'
      BY <2>4, <3>1 DEF Grows, Sound, Present
    <3>3. ProofsAreVerified' /\ Undecided'
      BY <2>2, <2>4, <3>1 DEF Grows, Sound, ProofsAreVerified, Undecided
    <3> QED BY <2>2, <3>1, <3>2, <3>3 DEF Sound
  <2>5. ASSUME NEW n \in Node, HandsOver(n) PROVE Sound'
    <3>1. TreeShape' /\ Present' = Present
      BY <2>5 DEF HandsOver, Sound, TreeShape, Present, Children
    <3>2. checked' \subseteq Present'
      BY <2>5, <3>1 DEF HandsOver, Sound, Present, IsTermination
    <3>3. answer' # NoAnswer => answer' \in checked' /\ kind'[answer'] = "good"
      BY <2>5 DEF HandsOver, Sound, ProofsAreVerified
    <3>4. NoAnswer \notin checked'
      BY <2>5, MethodsAssumption DEF HandsOver, Sound, Present
    <3>5. status' = "solved" => answer' # NoAnswer
      BY <2>5, <3>4 DEF HandsOver
    <3>6. Undecided'
      BY <2>2, <2>5 DEF HandsOver, Sound, Undecided
    <3> QED BY <2>2, <3>1, <3>2, <3>3, <3>5, <3>6 DEF Sound, ProofsAreVerified
  <2> QED BY <2>1, <2>3, <2>4, <2>5 DEF Step
<1> QED BY <1>1, <1>2

LEMMA StaysSound == Spec => []Sound
BY InitSound, NextSound, PTL DEF Spec

(* However often a search goes on after a success, what it reports is the  *)
(* path of a proof that was handed over and is correct.                    *)
THEOREM OnlyVerifiedProofs == Spec => []ProofsAreVerified
<1>1. Sound => ProofsAreVerified
  BY DEF Sound
<1> QED BY <1>1, StaysSound, PTL

(* Traditional MCTS and the asynchronous beam search implement the search  *)
(* that the driver expects, whatever policy and evaluator they run with.   *)
THEOREM ImplementsTreeSearch == Spec => ContractSpec
<1>1. ASSUME Init PROVE Contract!Init
  <2>1. /\ checked = {} /\ answer = NoAnswer /\ status = "running"
    BY <1>1 DEF Init, BeamSearch!Init, MCTS!Init
  <2>2. kind = OnlyRoot
    <3>1. BeamSearch!OnlyRoot = OnlyRoot /\ MCTS!OnlyRoot = OnlyRoot
      BY BeamTree, MCTSTree
         DEF OnlyRoot, BeamSearch!OnlyRoot, MCTS!OnlyRoot, Root,
             BeamSearch!Root, MCTS!Root
    <3> QED BY <1>1, <3>1 DEF Init, BeamSearch!Init, MCTS!Init
  <2>3. Contract!OnlyRoot = OnlyRoot
    BY DEF OnlyRoot, Contract!OnlyRoot, Node, Contract!Node, Root,
           Contract!Root, BoundedSeq, Contract!BoundedSeq, SeqOf, Contract!SeqOf
  <2> QED BY <2>1, <2>2, <2>3 DEF Contract!Init
<1>2. ASSUME Sound, [Next]_vars PROVE [Contract!Next]_(Contract!vars)
  <2>1. CASE UNCHANGED vars \/ ~KeepsContract
    <3>1. opts' = opts
      BY <1>2, Steps DEF Sound, TreeShape, Step, vars
    <3>2. UNCHANGED Contract!vars
      BY <2>1, <3>1 DEF vars, Contract!vars, KeepsContract, OnlyRoot
    <3> QED BY <3>2
  <2>2. CASE Next /\ KeepsContract
    <3>1. Step
      BY <1>2, <2>2, Steps DEF Sound, TreeShape
    <3>2. KeepsContract /\ KeepsContract'
      BY <2>2, <3>1 DEF Step, KeepsContract
    <3>3. Contract!Node = Node
      BY DEF Node, Contract!Node, BoundedSeq, Contract!BoundedSeq, SeqOf,
             Contract!SeqOf
    <3>4. ASSUME NEW n \in Node
          PROVE  /\ IsExpandable(n) => Contract!IsExpandable(n)
                 /\ IsTermination(n) = Contract!IsTermination(n)
                 /\ n \in Present => n \in Contract!Present
                 /\ \A d : Contract!Samples(n, d) = Samples(n, d)
                 /\ \A ks : Contract!WithChildren(n, ks) = WithChildren(n, ks)
      BY <3>2, <3>3
         DEF IsExpandable, Contract!IsExpandable, IsTermination,
         Contract!IsTermination, Present, Contract!Present, Children,
         Contract!Children, IsChildOf, Contract!IsChildOf, OnPathTo,
         Contract!OnPathTo, Samples, Contract!Samples, TextKind,
         Contract!TextKind, WithChildren, Contract!WithChildren, Position,
         Contract!Position
    <3>5. ASSUME Rests PROVE Contract!Stop \/ UNCHANGED Contract!vars
      BY <1>2, <3>2, <3>5
         DEF Rests, Sound, Undecided, Contract!Stop, Contract!vars
    <3>6. ASSUME NEW n \in Node, Grows(n) PROVE Contract!Grow(n)
      BY <3>2, <3>4, <3>6 DEF Grows, Contract!Grow
    <3>7. ASSUME NEW n \in Node, HandsOver(n) PROVE Contract!Probe(n)
      BY <3>2, <3>4, <3>7 DEF HandsOver, Contract!Probe, IsTermination, Present
    <3> QED BY <3>1, <3>3, <3>5, <3>6, <3>7 DEF Step, Contract!Next
  <2> QED BY <1>2, <2>1, <2>2
<1> QED BY <1>1, <1>2, StaysSound, PTL DEF Spec, ContractSpec, Contract!Spec

-----------------------------------------------------------------------------
(* Selection of traditional MCTS.                                          *)

LEMMA UCTTree ==
  /\ MCTS!UCT!Node = Node
  /\ \A n \in Node : MCTS!UCT!Children(n) = Children(n)
  /\ MCTS!UCT!Leaves = Leaves
  /\ \A n \in Node : MCTS!UCT!Ancestors(n) = Ancestors(n)
  /\ \A c : MCTS!UCT!Position(c) = Position(c)
<1>1. MCTS!UCT!Node = Node
  BY DEF Node, MCTS!UCT!Node, BoundedSeq, MCTS!UCT!BoundedSeq, SeqOf,
         MCTS!UCT!SeqOf
<1> QED
  BY <1>1 DEF MCTS!UCT!Children, Children, MCTS!UCT!Leaves, Leaves,
     MCTS!UCT!Ancestors, Ancestors, MCTS!UCT!PathTo, PathTo, MCTS!UCT!Position,
     Position, MCTS!UCT!OnPathTo, OnPathTo, MCTS!UCT!IsChildOf, IsChildOf,
     MCTS!UCT!Present, Present

(* On a path to a node, every child of a node on it is the one Toward      *)
(* names.                                                                  *)
LEMMA TowardChild ==
  ASSUME NEW s \in Node, NEW p \in Node, NEW c \in Node,
         IsChildOf(c, p), OnPathTo(c, s)
  PROVE  p \in Ancestors(s) /\ MCTS!UCT!Toward(p, s) = c
<1>1. OnPathTo(p, s)
  BY PathTransitive DEF IsChildOf
<1>2. Len(p) + 1 = Len(c) /\ Len(c) <= Len(s) /\ \A i \in 1..Len(c) : s[i] = c[i]
  BY DEF IsChildOf, OnPathTo
<1>3. p # s
  BY <1>2, NodeIsSeq
<1>4. SubSeq(s, 1, Len(c)) = c
  <2>1. s \in Seq(1..MaxChildren) /\ c \in Seq(1..MaxChildren)
    BY NodeIsSeq
  <2>2. SubSeq(s, 1, Len(c)) \in Seq(1..MaxChildren)
    BY <2>1, <1>2, NodeIsSeq, SubSeqProperties
  <2>3. Len(SubSeq(s, 1, Len(c))) = Len(c)
    BY <2>1, <1>2, NodeIsSeq, SubSeqProperties
  <2>4. \A i \in 1..Len(c) : SubSeq(s, 1, Len(c))[i] = c[i]
    BY <2>1, <1>2, NodeIsSeq, SubSeqProperties
  <2> QED BY <2>1, <2>2, <2>3, <2>4, SeqEqual
<1> QED BY <1>1, <1>2, <1>3, <1>4 DEF Ancestors, PathTo, MCTS!UCT!Toward

(* Where a node has an unvisited child, the search goes to the first such. *)
LEMMA FirstUnvisited ==
  ASSUME NEW s \in Node, MCTS!Round(s), NEW p \in Node, NEW c \in Node,
         IsChildOf(c, p), OnPathTo(c, s),
         NEW d \in Children(p), visits[d] = 0
  PROVE  c \in Children(p) /\ visits[c] = 0 /\ Position(c) <= Position(d)
<1>1. MCTS!UCT!BestChild(c, p)
  BY TowardChild, UCTTree DEF MCTS!Round, MCTS!UCT!Selected
<1>2. d \in MCTS!UCT!Fresh(p)
  BY UCTTree DEF MCTS!UCT!Fresh
<1>3. c \in MCTS!UCT!Fresh(p) /\ Position(c) <= Position(d)
  BY <1>1, <1>2, UCTTree DEF MCTS!UCT!BestChild, MCTS!UCT!FirstOf
<1> QED BY <1>3, UCTTree DEF MCTS!UCT!Fresh

(* A sample puts at least one child on a node.                             *)
LEMMA FirstChild ==
  ASSUME NEW s \in Node, NEW d, NEW ks \in Samples(s, d),
         kind' = WithChildren(s, ks)
  PROVE  Children(s)' # {}
<1>1. PICK k \in 1..MaxChildren : ks \in [1..k -> TextKind]
  BY SamplesType
<1>2. Len(s) < MaxDepth /\ s \in Seq(1..MaxChildren) /\ Len(s) \in Nat
  BY NodeIsSeq DEF Samples
<1> DEFINE c == Append(s, 1)
<1>3. /\ c \in Seq(1..MaxChildren) /\ Len(c) = Len(s) + 1
      /\ c[Len(s) + 1] = 1 /\ \A i \in 1..Len(s) : c[i] = s[i]
  BY <1>2, SizeAssumption
<1> HIDE DEF c
<1>4. c \in Node
  <2>1. c \in [1..Len(c) -> 1..MaxChildren] /\ Len(c) \in 0..MaxDepth
    BY <1>2, <1>3, SizeAssumption, SeqDef, LenProperties
  <2> QED BY <2>1 DEF Node, BoundedSeq, SeqOf
<1>5. IsChildOf(c, s) /\ Position(c) = 1
  BY <1>2, <1>3 DEF IsChildOf, OnPathTo, Position
<1>6. 1 \in DOMAIN ks /\ ks[1] \in TextKind
  BY <1>1, SizeAssumption
<1>7. kind'[c] = ks[1]
  BY <1>4, <1>5, <1>6 DEF WithChildren
<1> QED BY <1>4, <1>5, <1>6, <1>7 DEF Children, Present, TextKind

(* A round that changes tree or visits is an expansion.  What it visits    *)
(* without leaving children, or leaves without visiting, counts as failed, *)
(* or ends the search.                                                     *)
Visiting(s) ==
  [m \in Node |-> IF m \in Ancestors(s) THEN visits[m] + 1 ELSE visits[m]]

Expands(s) ==
  /\ MCTS!Round(s) /\ IsExpandable(s)
  /\ TreeShape'
  /\ \A m \in Present : kind'[m] = kind[m]
  /\ \A m \in Node : kind'[m] # kind[m] => IsChildOf(m, s)
  /\ \/ visits' = visits /\ (status' = "running" => failed' = failed + 1)
     \/ /\ visits' = Visiting(s)
        /\ (failed' = failed /\ Children(s)' # {}) \/ failed' = failed + 1

LEMMA VisitStep ==
  ASSUME Sound, opts.method = "TraditionalMCTS", Next
  PROVE  \/ UNCHANGED <<kind, visits>> /\ (status' = "running" => failed' \in {failed, failed + 1})
         \/ \E s \in Node : Expands(s)
<1> USE DEF Sound
<1>1. MCTS!Next
  BY DEF Next
<1>2. \A s \in Node : MCTS!Visited(s) = Visiting(s)
  <2>1. \A s \in Node : MCTS!Ancestors(s) = Ancestors(s)
    BY MCTSTree DEF MCTS!Ancestors, Ancestors, MCTS!PathTo, PathTo,
       MCTS!OnPathTo, OnPathTo
  <2> QED BY <2>1, MCTSTree DEF MCTS!Visited, Visiting
<1>3. ASSUME NEW s \in Node, IsExpandable(s), NEW ks \in MCTS!Texts(opts, s),
             kind' = WithChildren(s, ks)
      PROVE  /\ TreeShape'
             /\ \A m \in Present : kind'[m] = kind[m]
             /\ \A m \in Node : kind'[m] # kind[m] => IsChildOf(m, s)
             /\ ks # Nothing => Children(s)' # {}
  <2>1. CASE ks = Nothing
    <3>1. kind' = kind
      BY <1>3, <2>1 DEF WithChildren, Nothing, TreeShape
    <3> QED BY <2>1, <3>1 DEF TreeShape, Present, Children
  <2>2. ASSUME NEW d \in BOOLEAN, ks \in Samples(s, d)
        PROVE  /\ TreeShape'
               /\ \A m \in Present : kind'[m] = kind[m]
               /\ \A m \in Node : kind'[m] # kind[m] => IsChildOf(m, s)
               /\ Children(s)' # {}
    BY <1>3, <2>2, GrowKeepsTree, FirstChild
  <2> QED BY <2>1, <2>2, MCTSTexts DEF Sampled
<1>4. ASSUME NEW s \in Node, MCTS!Expand(s) PROVE Expands(s)
  <2>1. /\ MCTS!Round(s) /\ IsExpandable(s) /\ visits' = MCTS!Visited(s)
        /\ failed' = failed
    BY <1>4, MCTSTree DEF MCTS!Expand
  <2>2. PICK ks \in MCTS!Texts(opts, s) : ks # Nothing /\ kind' = WithChildren(s, ks)
    BY <1>4, MCTSTree DEF MCTS!Expand, MCTS!Nothing, Nothing
  <2> QED BY <1>2, <1>3, <2>1, <2>2 DEF Expands
<1>5. ASSUME NEW s \in Node, MCTS!ExpandNothing(s) PROVE Expands(s)
  <2>1. /\ MCTS!Round(s) /\ IsExpandable(s) /\ visits' = MCTS!Visited(s)
        /\ kind' = kind /\ failed' = failed + 1
    BY <1>5, MCTSTree DEF MCTS!ExpandNothing
  <2>2. TreeShape'
    BY <2>1 DEF TreeShape, Present, Children
  <2> QED BY <1>2, <2>1, <2>2 DEF Expands
<1>6. ASSUME NEW s \in Node, MCTS!ExpandRaises(s)
      PROVE  \/ UNCHANGED <<kind, visits>> /\ (status' = "running" => failed' = failed + 1)
             \/ Expands(s)
  <2>1. /\ MCTS!Round(s) /\ IsExpandable(s) /\ visits' = visits
        /\ status' = "running" => failed' = failed + 1
    BY <1>6, MCTSTree DEF MCTS!ExpandRaises
  <2>2. ASSUME NEW ks \in MCTS!Texts(opts, s), kind' = WithChildren(s, ks)
        PROVE  Expands(s)
    BY <1>3, <2>1, <2>2 DEF Expands
  <2> QED BY <1>6, <2>1, <2>2, MCTSTree DEF MCTS!ExpandRaises
<1>7. CASE MCTS!Return
  BY <1>7 DEF MCTS!Return
<1>8. ASSUME NEW s \in Node, MCTS!Solve(s) \/ MCTS!Refuse(s) \/ MCTS!Stall(s)
      PROVE  UNCHANGED <<kind, visits, failed>>
  BY <1>8 DEF MCTS!Solve, MCTS!Refuse, MCTS!Stall
<1> QED BY <1>1, <1>4, <1>5, <1>6, <1>7, <1>8, MCTSTree DEF MCTS!Next

(* Nodes that do not exist and termination nodes are not visited.          *)
Unvisited ==
  /\ visits \in [Node -> Nat]
  /\ \A m \in Node : kind[m] # "step" => visits[m] = 0

Blocked ==
  \A p \in Present : \A n, m \in Children(p) :
    IsTermination(n) =>
      /\ Position(n) < Position(m) => visits[m] = 0 /\ Children(m) = {}
      /\ Position(m) < Position(n) => visits[m] <= 1

BlockInv == opts.method = "TraditionalMCTS" => Unvisited /\ Blocked

LEMMA UnvisitedStep ==
  ASSUME Sound, Unvisited, NEW s \in Node, Expands(s)
  PROVE  Unvisited'
<1>1. visits' \in [Node -> Nat]
  BY DEF Expands, Visiting, Unvisited
<1>2. ASSUME NEW m \in Node, kind'[m] # "step" PROVE visits'[m] = 0
  <2>1. s \in Present
    BY DEF Expands, IsExpandable
  <2>2. kind[m] # "step"
    BY <1>2 DEF Expands, Present
  <2>3. m \notin Ancestors(s)
    BY <2>1, <2>2, AboveIsStep DEF Ancestors, PathTo, Sound
  <2> QED BY <2>2, <2>3 DEF Expands, Visiting, Unvisited
<1> QED BY <1>1, <1>2 DEF Unvisited

(* New children have no visits and no children of their own; between old   *)
(* siblings the unvisited termination node keeps the search from the later *)
(* ones, and from the earlier ones once they were visited.                 *)
LEMMA BlockedStep ==
  ASSUME Sound, Unvisited, Blocked, NEW s \in Node, Expands(s)
  PROVE  Blocked'
<1> SUFFICES ASSUME NEW p \in Present', NEW n \in Children(p)',
                    NEW m \in Children(p)', IsTermination(n)'
             PROVE  /\ Position(n) < Position(m) => visits'[m] = 0 /\ Children(m)' = {}
                    /\ Position(m) < Position(n) => visits'[m] <= 1
  BY DEF Blocked, Position
<1>1. /\ p \in Node /\ n \in Node /\ m \in Node
      /\ IsChildOf(n, p) /\ IsChildOf(m, p)
      /\ kind'[n] \in {"good", "bad"} /\ kind'[m] # "absent"
  BY DEF Present, Children, IsTermination
<1>2. s \in Present /\ Children(s) = {} /\ kind[s] = "step"
  BY DEF Expands, IsExpandable, IsTermination, Sound, TreeShape, Kind, TextKind, Present
<1>3. /\ Position(n) \in Nat /\ Position(m) \in Nat
      /\ visits[m] \in Nat /\ visits[n] \in Nat
  BY <1>1, PositionType, SizeAssumption DEF Unvisited
<1>4. CASE p = s
  <2>1. n \notin Present /\ m \notin Present
    BY <1>1, <1>2, <1>4 DEF Children
  <2>2. visits[m] = 0
    BY <1>1, <2>1 DEF Unvisited, Present
  <2>3. m \notin Ancestors(s)
    BY <1>1, <1>2, <2>1, AboveIsStep DEF Ancestors, PathTo, Sound, Present
  <2>4. visits'[m] = 0
    BY <1>1, <2>2, <2>3 DEF Expands, Visiting
  <2>5. Children(m)' = {}
    <3>1. SUFFICES ASSUME NEW c \in Node, IsChildOf(c, m), kind'[c] # "absent"
                   PROVE  FALSE
      BY DEF Children, Present
    <3>2. c \notin Present
      <4>1. SUFFICES ASSUME c \in Present PROVE FALSE
        OBVIOUS
      <4>2. OnPathTo(m, c) /\ m # c
        BY <1>1, <3>1, NodeIsSeq DEF IsChildOf
      <4> QED BY <1>1, <2>1, <4>1, <4>2, AboveIsStep DEF Sound, Present
    <3>3. IsChildOf(c, s)
      BY <3>1, <3>2 DEF Expands, Present
    <3>4. m = s
      BY <1>1, <3>1, <3>3, OneParent
    <3> QED BY <1>2, <2>1, <3>4
  <2> QED BY <2>4, <2>5
<1>5. CASE p # s
  <2>1. n \in Present /\ m \in Present
    <3>1. ~IsChildOf(n, s) /\ ~IsChildOf(m, s)
      BY <1>1, <1>5, OneParent
    <3> QED BY <1>1, <3>1 DEF Expands, Present
  <2>2. n \in Children(p) /\ m \in Children(p) /\ p \in Present /\ IsTermination(n)
    <3>1. p \in Present
      <4>1. OnPathTo(p, n) /\ p # n
        BY <1>1, NodeIsSeq DEF IsChildOf
      <4> QED BY <1>1, <2>1, <4>1, AboveIsStep DEF Sound, Present
    <3> QED BY <1>1, <2>1, <3>1 DEF Children, IsTermination, Expands
  <2>3. visits[n] = 0
    BY <1>1, <2>2 DEF Unvisited, IsTermination
  <2>4. ASSUME OnPathTo(m, s)
        PROVE  visits[m] = 0 /\ Position(m) <= Position(n)
    BY <1>1, <2>2, <2>3, <2>4, FirstUnvisited DEF Expands
  <2>5. CASE OnPathTo(m, s)
    <3>1. visits'[m] <= 1
      BY <1>1, <2>4, <2>5 DEF Expands, Visiting
    <3> QED BY <1>3, <2>4, <2>5, <3>1
  <2>6. CASE ~OnPathTo(m, s)
    <3>1. visits'[m] = visits[m]
      BY <1>1, <2>6 DEF Expands, Visiting, Ancestors, PathTo
    <3>2. m # s
      BY <2>6, PathReflexive
    <3>3. Children(m)' = Children(m)
      <4>1. \A c \in Node : IsChildOf(c, m) => kind'[c] = kind[c]
        BY <1>1, <3>2, OneParent DEF Expands
      <4> QED BY <4>1 DEF Children, Present
    <3> QED BY <2>2, <3>1, <3>3 DEF Blocked
  <2> QED BY <2>5, <2>6
<1> QED BY <1>4, <1>5

(* A termination node is never visited, so UCT does not get past it to a   *)
(* later sibling, and comes back to an earlier one only until it has been  *)
(* visited once.                                                           *)
THEOREM ProofsBlockSiblings == Spec => []ProofBlocksSiblings
<1>1. Init => BlockInv
  <2> SUFFICES ASSUME Init, opts.method = "TraditionalMCTS"
               PROVE  Unvisited /\ Blocked
    BY DEF BlockInv
  <2>1. visits = [n \in Node |-> 0] /\ kind = OnlyRoot
    <3>1. MCTS!OnlyRoot = OnlyRoot
      BY MCTSTree DEF OnlyRoot, MCTS!OnlyRoot, Root, MCTS!Root
    <3> QED BY <3>1, MCTSTree DEF Init, MCTS!Init
  <2>2. Unvisited
    BY <2>1 DEF Unvisited
  <2>3. \A n \in Present : ~IsTermination(n)
    BY <2>1 DEF OnlyRoot, Present, IsTermination
  <2> QED BY <2>2, <2>3 DEF Blocked, Children
<1>2. Sound /\ BlockInv /\ [Next]_vars => BlockInv'
  <2> SUFFICES ASSUME Sound, BlockInv, [Next]_vars, opts'.method = "TraditionalMCTS"
               PROVE  Unvisited' /\ Blocked'
    BY DEF BlockInv
  <2>1. opts' = opts
    BY Steps DEF vars, Step, Sound, TreeShape
  <2>2. CASE UNCHANGED <<kind, visits>>
    BY <2>1, <2>2 DEF BlockInv, Unvisited, Blocked, Present, Children,
                      IsTermination
  <2>3. ASSUME NEW s \in Node, Expands(s) PROVE Unvisited' /\ Blocked'
    BY <2>1, <2>3, UnvisitedStep, BlockedStep DEF BlockInv
  <2> QED BY <2>1, <2>2, <2>3, VisitStep DEF vars
<1>3. Sound /\ BlockInv => ProofBlocksSiblings
  <2> SUFFICES ASSUME Sound, Unvisited, Blocked PROVE MCTS!ProofBlocksSiblings
    BY DEF BlockInv, ProofBlocksSiblings
  <2>1. /\ \A n \in Node : MCTS!Children(n) = Children(n)
        /\ MCTS!Present = Present
        /\ \A c : MCTS!Position(c) = Position(c)
    BY MCTSTree DEF MCTS!Children, Children, MCTS!Present, Present,
       MCTS!IsChildOf, IsChildOf, MCTS!OnPathTo, OnPathTo, MCTS!Position, Position
  <2>2. \A p \in Present : \A n \in Children(p) :
          n \in Node /\ p \in Node /\ (IsTermination(n) => visits[n] = 0)
    BY DEF Unvisited, Present, Children, IsTermination
  <2> SUFFICES ASSUME NEW p \in MCTS!Present, NEW n \in MCTS!Children(p),
                      NEW m \in MCTS!Children(p), MCTS!IsTermination(n)
               PROVE  /\ visits[n] = 0
                      /\ MCTS!Position(n) < MCTS!Position(m)
                           => visits[m] = 0 /\ MCTS!Children(m) = {}
                      /\ MCTS!Position(m) < MCTS!Position(n) => visits[m] <= 1
    BY DEF MCTS!ProofBlocksSiblings
  <2>3. p \in Present /\ p \in Node
    BY <2>1 DEF Present
  <2>4. n \in Children(p) /\ m \in Children(p) /\ m \in Node /\ n \in Node
    BY <2>1, <2>3 DEF Children, Present
  <2>5. IsTermination(n) /\ MCTS!Children(m) = Children(m)
    BY <2>1, <2>4, MCTSTree
  <2>6. MCTS!Position(n) = Position(n) /\ MCTS!Position(m) = Position(m)
    BY DEF MCTS!Position, Position
  <2> QED BY <2>2, <2>3, <2>4, <2>5, <2>6 DEF Blocked
<1> QED BY <1>1, <1>2, <1>3, StaysSound, PTL DEF Spec

-----------------------------------------------------------------------------
(* Finiteness and numbers.                                                 *)

(* Points scaled by the number of rounds stay within the scale.            *)
LEMMA ScaleType ==
  ASSUME NEW R \in Nat, NEW p \in 1..R + 1
  PROVE  (p * MaxScore) \div (R + 1) \in 0..MaxScore
<1> DEFINE a == p * MaxScore
           b == R + 1
           q == a \div b
<1>1. MaxScore \in Nat /\ b \in Nat /\ b > 0 /\ p \in Nat /\ p <= b
  BY ScoreAssumption
<1>2. a \in Nat /\ a <= b * MaxScore
  BY <1>1
<1>3. q \in Int /\ b * q <= a /\ a < b * q + b
  BY <1>1, <1>2
<1> HIDE DEF a, b, q
<1>4. q >= 0
  <2> SUFFICES ASSUME q <= -1 PROVE FALSE
    BY <1>3
  <2>1. b * q <= b * (-1)
    BY <1>1, <1>3
  <2> QED BY <1>1, <1>2, <1>3, <2>1
<1>5. q <= MaxScore
  <2> SUFFICES ASSUME q >= MaxScore + 1 PROVE FALSE
    BY <1>1, <1>3
  <2>1. b * q >= b * (MaxScore + 1)
    BY <1>1, <1>3
  <2>2. b * (MaxScore + 1) = b * MaxScore + b
    BY <1>1
  <2> QED BY <1>1, <1>2, <1>3, <2>1, <2>2
<1>6. q \in 0..MaxScore
  BY <1>1, <1>3, <1>4, <1>5
<1> QED BY <1>6 DEF q, a, b

(* Counting in the modules of the methods is counting.                     *)
LEMMA SameCardinality ==
  /\ \A S : BeamSearch!Cardinality(S) = Cardinality(S)
  /\ \A S : MCTS!Cardinality(S) = Cardinality(S)
BY DEF BeamSearch!Cardinality, MCTS!Cardinality, Cardinality

LEMMA RoundsType == ASSUME NEW k \in Nat PROVE BeamSearch!Rounds(k) \in Nat
<1>1. IsFiniteSet(0..k)
  BY FS_Interval
<1>2. IsFiniteSet({r \in 0..k : BeamSearch!Pow2[r] < k})
  BY <1>1, FS_Subset
<1> QED BY <1>2, FS_CardinalityType, SameCardinality DEF BeamSearch!Rounds

(* Whatever evaluator is called, the children get values of the scale.     *)
LEMMA ScoresType ==
  ASSUME NEW e \in BeamSearch!EvaluatorName, NEW k \in Nat, NEW ks, DOMAIN ks = 1..k,
         Len(ks) = k,
         NEW s \in BeamSearch!Scores(e, ks) \union BeamSearch!AsyncScores(e, ks)
  PROVE  s \in [1..k -> Score]
<1> DEFINE F == [1..k -> Score]
<1>0. /\ BeamSearch!Score = Score
      /\ 0 \in Score /\ MaxScore \in Score
      /\ BeamSearch!Neutral \in Score
  BY ScoreAssumption DEF Score, BeamSearch!Score, BeamSearch!Neutral
<1>1. BeamSearch!Unscored(ks) \in F
  BY <1>0 DEF BeamSearch!Unscored
<1>2. \A r : BeamSearch!Right(r, ks) \in F
  BY <1>0 DEF BeamSearch!Right
<1>3. /\ BeamSearch!REPLEvaluator(ks) \subseteq F
      /\ BeamSearch!AsyncREPLEvaluator(ks) \subseteq F
  BY <1>1, <1>2 DEF BeamSearch!REPLEvaluator, BeamSearch!AsyncREPLEvaluator
<1>4. /\ BeamSearch!LogprobEvaluator(ks) \subseteq F
      /\ BeamSearch!ProbEvaluator(ks) \subseteq F
      /\ BeamSearch!NormLenEvaluator(ks) \subseteq F
      /\ BeamSearch!NormLenProbEvaluator(ks) \subseteq F
      /\ BeamSearch!RewardModelEvaluator(ks) \subseteq F
  BY <1>0, <1>1
     DEF BeamSearch!LogprobEvaluator, BeamSearch!ProbEvaluator,
         BeamSearch!NormLenEvaluator, BeamSearch!NormLenProbEvaluator,
         BeamSearch!RewardModelEvaluator
<1>5. BeamSearch!RMaxTSEvaluator(ks) \subseteq F
  <2>1. [1..k -> {0, MaxScore}] \subseteq F
    BY <1>0
  <2> QED BY <2>1 DEF BeamSearch!RMaxTSEvaluator
<1>6. BeamSearch!JudgeEvaluator(ks) \subseteq F
  <2> SUFFICES ASSUME NEW p \in [DOMAIN ks -> BeamSearch!Score], NEW X
               PROVE  [i \in DOMAIN ks |-> IF i \in X THEN BeamSearch!Neutral ELSE p[i]] \in F
    BY DEF BeamSearch!JudgeEvaluator
  <2> QED BY <1>0
<1>7. BeamSearch!TournamentEvaluator(ks) \subseteq F
  <2> SUFFICES ASSUME NEW t \in BeamSearch!Ranking(k)
               PROVE  BeamSearch!Share(t, k) \in F
    BY DEF BeamSearch!TournamentEvaluator
  <2>1. t \in [1..k -> 1..BeamSearch!Rounds(k) + 1]
    BY DEF BeamSearch!Ranking
  <2>2. ASSUME NEW i \in 1..k
        PROVE  (t[i] * MaxScore) \div (BeamSearch!Rounds(k) + 1) \in Score
    BY <2>1, RoundsType, ScaleType DEF Score
  <2> QED BY <2>2 DEF BeamSearch!Share
<1>8. s \in BeamSearch!Scores(e, ks) => s \in F
  BY <1>3, <1>4, <1>5, <1>6, <1>7
     DEF BeamSearch!Scores, BeamSearch!EvaluatorName, BeamSearch!EvaluatorType
<1>9. s \in BeamSearch!AsyncScores(e, ks) => s \in F
  BY <1>3, <1>6, <1>7, <1>8
     DEF BeamSearch!AsyncScores, BeamSearch!AsyncJudgeEvaluator,
         BeamSearch!AsyncTournamentEvaluator
<1> QED BY <1>8, <1>9

-----------------------------------------------------------------------------
(* Type correctness of the beam search.                                    *)

LEMMA BeamNames ==
  /\ BeamSearch!Present = Present
  /\ \A n \in Node : BeamSearch!Children(n) = Children(n)
  /\ \A m, n : BeamSearch!IsChildOf(m, n) = IsChildOf(m, n)
  /\ \A c : BeamSearch!Position(c) = Position(c)
  /\ \A b : BeamSearch!ToSet(b) = ToSet(b)
BY BeamTree
   DEF BeamSearch!Present, Present, BeamSearch!Children, Children,
       BeamSearch!IsChildOf, IsChildOf, BeamSearch!OnPathTo, OnPathTo,
       BeamSearch!Position, Position, BeamSearch!ToSet, ToSet

LEMMA BeamOptions ==
  ASSUME opts \in Setups, opts.method = "BeamSearch"
  PROVE  /\ opts \in BeamSearch!BeamSetup
         /\ opts.evaluator \in BeamSearch!EvaluatorName
         /\ BeamSearch!Width(opts) \in Nat \ {0}
<1>1. opts \in BeamSearch!BeamSetup
  BY SetupAssumption DEF MCTS!MCTSSetup
<1> QED BY <1>1, MethodsAssumption DEF BeamSearch!BeamSetup, BeamSearch!Width

(* The values that come with the texts.                                    *)
LEMMA OutcomeType ==
  ASSUME opts \in Setups, opts.method = "BeamSearch", NEW n \in Node,
         NEW out \in BeamSearch!Expansions(opts, n)
  PROVE  \E k \in Nat : /\ DOMAIN out.texts = 1..k
                        /\ out.score \in [1..k -> Score]
<1>1. ASSUME NEW ks, Sampled(n, ks)
      PROVE  \E k \in Nat : DOMAIN ks = 1..k /\ Len(ks) = k
  <2>1. CASE ks = Nothing
    BY <2>1 DEF Nothing
  <2>2. CASE \E d \in BOOLEAN : ks \in Samples(n, d)
    <3>1. PICK k \in 1..MaxChildren : ks \in [1..k -> TextKind]
      BY <2>2, SamplesType
    <3>2. k \in Nat /\ ks \in Seq(TextKind)
      BY <3>1, SizeAssumption, SeqDef
    <3>3. DOMAIN ks = 1..k /\ Len(ks) = k
      BY <3>1, <3>2, LenProperties
    <3> QED BY <3>2, <3>3
  <2> QED BY <1>1, <2>1, <2>2 DEF Sampled
<1>2. PICK k \in Nat : DOMAIN out.texts = 1..k /\ Len(out.texts) = k
  BY <1>1, BeamTexts
<1>3. \A ks : DOMAIN ks = 1..k => BeamSearch!Unscored(ks) \in [1..k -> Score]
  BY ScoreAssumption DEF BeamSearch!Unscored, Score
<1>4. CASE out.score = BeamSearch!Unscored(out.texts)
  BY <1>2, <1>3, <1>4
<1>5. CASE out.score \in BeamSearch!Values(opts, out.texts)
  BY <1>2, <1>3, <1>5, ScoresType, BeamOptions DEF BeamSearch!Values
<1>6. \/ out.score = BeamSearch!Unscored(out.texts)
      \/ out.score \in BeamSearch!Values(opts, out.texts)
  <2> USE DEF BeamSearch!Outcome
  <2>1. CASE out \in BeamSearch!PolicyRaised(opts)
    BY <2>1 DEF BeamSearch!PolicyRaised
  <2>2. CASE out \in BeamSearch!EvaluatorRaised(opts, n)
    BY <2>2 DEF BeamSearch!EvaluatorRaised
  <2>3. CASE out \in BeamSearch!Evaluated(opts, n)
    BY <2>3 DEF BeamSearch!Evaluated
  <2>4. CASE BeamSearch!Unawaited(opts)
    BY <2>4 DEF BeamSearch!Expansions
  <2>5. CASE out \in {BeamSearch!Outcome(ks, BeamSearch!Unscored(ks), TRUE) :
                        ks \in BeamSearch!Generated(opts.policy, n)}
    BY <2>5
  <2> QED BY <2>1, <2>2, <2>3, <2>4, <2>5 DEF BeamSearch!Expansions
<1> QED BY <1>2, <1>4, <1>5, <1>6

(* What the next beam is.                                                  *)
LEMMA TopKType ==
  ASSUME Present \subseteq Node, NEW k \in Nat, NEW S \in SUBSET Present,
         NEW b \in BeamSearch!TopK(S, k)
  PROVE  \E l \in Nat : /\ l = BeamSearch!Least(k, Cardinality(S))
                        /\ b \in [1..l -> S] /\ b \in Seq(Node) /\ Len(b) = l
                        /\ \A i, j \in 1..l : i # j => b[i] # b[j]
<1>1. IsFiniteSet(S)
  BY NodesAreFinite, FS_Subset
<1>2. Cardinality(S) \in Nat
  BY <1>1, FS_CardinalityType
<1> DEFINE l == BeamSearch!Least(k, Cardinality(S))
<1>3. l \in Nat
  BY <1>2 DEF BeamSearch!Least
<1>4. b \in [1..l -> S] /\ \A i, j \in 1..l : i < j => b[i] # b[j]
  BY SameCardinality DEF BeamSearch!TopK
<1> HIDE DEF l
<1>5. b \in Seq(S) /\ Len(b) = l
  BY <1>3, <1>4, SeqDef, LenProperties
<1>6. b \in Seq(Node)
  BY <1>3, <1>4, SeqDef
<1>7. ASSUME NEW i \in 1..l, NEW j \in 1..l, i # j PROVE b[i] # b[j]
  <2>1. i < j \/ j < i
    BY <1>3, <1>7
  <2> QED BY <1>4, <2>1
<1> QED BY <1>3, <1>4, <1>5, <1>6, <1>7 DEF l

BeamTypes ==
  /\ win \in [Node -> Score \union {-1}]
  /\ beam \in Seq(Node) /\ todo \subseteq ToSet(beam)
  /\ iter \in 0..ExpansionCount
  /\ failed \in Nat
  /\ status \in {"running", "solved", "stopped"}

LEMMA BeamTypesStep ==
  ASSUME Sound, opts.method = "BeamSearch", BeamTypes, BeamSearch!Next
  PROVE  BeamTypes'
<1> USE DEF Sound
<1>1. CASE BeamSearch!TimeUp \/ BeamSearch!Timeout \/ BeamSearch!EndSearch
           \/ BeamSearch!NoBeam
  BY <1>1 DEF BeamSearch!TimeUp, BeamSearch!Timeout, BeamSearch!EndSearch,
              BeamSearch!NoBeam, BeamSearch!Finished, BeamTypes
<1>2. ASSUME NEW n \in Node, BeamSearch!Skip(n) \/ BeamSearch!Solve(n)
      PROVE  BeamTypes'
  BY <1>2 DEF BeamSearch!Skip, BeamSearch!Solve, BeamTypes
<1>3. ASSUME NEW n \in Node, BeamSearch!Refuse(n) PROVE BeamTypes'
  <2>1. PICK S : win' = [m \in Node |-> IF m \in S THEN -1 ELSE win[m]]
    BY <1>3, BeamTree DEF BeamSearch!Refuse, BeamSearch!NegInf
  <2>2. win' \in [Node -> Score \union {-1}]
    BY <2>1 DEF BeamTypes
  <2> QED BY <1>3, <2>2 DEF BeamSearch!Refuse, BeamTypes
<1>4. ASSUME NEW n \in Node, BeamSearch!Expand(n) PROVE BeamTypes'
  <2>1. PICK out \in BeamSearch!Expansions(opts, n) :
          /\ win' = BeamSearch!Valued(n, out)
          /\ failed' \in {failed, failed + 1}
          /\ status' \in {status, "stopped"}
    BY <1>4 DEF BeamSearch!Expand
  <2>2. PICK k \in Nat : out.score \in [1..k -> Score]
    BY OutcomeType
  <2>3. win' \in [Node -> Score \union {-1}]
    BY <2>1, <2>2, BeamTree DEF BeamSearch!Valued, BeamTypes
  <2>4. /\ todo' \subseteq todo
        /\ UNCHANGED <<beam, iter>>
    BY <1>4 DEF BeamSearch!Expand, BeamSearch!Expands
  <2> QED BY <2>1, <2>3, <2>4 DEF BeamTypes
<1>5. CASE BeamSearch!EndLayer
  <2>1. beam' \in BeamSearch!TopK(BeamSearch!Candidates, BeamSearch!Width(opts))
    BY <1>5 DEF BeamSearch!EndLayer
  <2>2. beam' \in Seq(Node)
    <3>1. Present \subseteq Node /\ BeamSearch!Candidates \in SUBSET Present
      BY BeamNames DEF BeamSearch!Candidates, Present
    <3> QED BY <2>1, <3>1, TopKType, BeamOptions
  <2>3. todo' \subseteq ToSet(beam')
    BY <1>5, BeamNames DEF BeamSearch!EndLayer, BeamSearch!Due
  <2>4. iter' \in 0..ExpansionCount
    BY <1>5, MethodsAssumption DEF BeamSearch!EndLayer, BeamTypes
  <2>5. UNCHANGED <<win, failed>> /\ status' \in {status, "solved", "stopped"}
    BY <1>5 DEF BeamSearch!EndLayer, BeamSearch!Finished
  <2> QED BY <2>2, <2>3, <2>4, <2>5 DEF BeamTypes, ToSet
<1> QED BY <1>1, <1>2, <1>3, <1>4, <1>5, BeamTree DEF BeamSearch!Next

LEMMA BeamInit == Init /\ opts.method = "BeamSearch" => BeamTypes
<1> SUFFICES ASSUME BeamSearch!Init PROVE BeamTypes
  BY SetupAssumption DEF Init
<1>1. beam \in {<< >>, <<Root>>} /\ todo = ToSet(beam)
  BY BeamNames DEF BeamSearch!Init, BeamSearch!Root, Root
<1>2. beam \in Seq(Node) /\ todo \subseteq ToSet(beam)
  <2>1. << >> \in Seq(Node) /\ <<Root>> \in Seq(Node)
    BY RootIsNode
  <2> QED BY <1>1, <2>1
<1>3. win \in [Node -> Score \union {-1}]
  BY ScoreAssumption, BeamTree DEF BeamSearch!Init, Score
<1> QED BY <1>2, <1>3, MethodsAssumption DEF BeamSearch!Init, BeamTypes

-----------------------------------------------------------------------------
(* The beam holds the best of its level.                                   *)

Level == {n \in Present : Len(n) = iter}

Distinct == \A i, j \in DOMAIN beam : i # j => beam[i] # beam[j]

Filled ==
  /\ ToSet(beam) \subseteq Level
  /\ Len(beam) = BeamSearch!Least(BeamSearch!Width(opts), Cardinality(Level))

Best ==
  \A n \in Level \ ToSet(beam) : \A b \in ToSet(beam) :
    win[b] = -1 \/ win[n] <= win[b]

Frontier ==
  \A n \in Present : Len(n) > iter => \E b \in ToSet(beam) : IsChildOf(n, b)

(* Of the beam's level, only nodes of the beam were handed over.           *)
HandedOver ==
  \A n \in checked : Len(n) <= iter /\ (Len(n) = iter => n \in ToSet(beam))

BeamInv == BeamTypes /\ Distinct /\ Filled /\ Best /\ Frontier /\ HandedOver

LEMMA BeamInvInit == Init /\ opts.method = "BeamSearch" /\ ~opts.rooted => BeamInv
<1> SUFFICES ASSUME Init, opts.method = "BeamSearch", ~opts.rooted PROVE BeamInv
  OBVIOUS
<1>1. BeamSearch!Init
  BY SetupAssumption DEF Init
<1>2. beam = << Root >> /\ iter = 0 /\ checked = {}
  BY <1>1 DEF BeamSearch!Init, BeamSearch!Root, Root
<1>3. Present = {Root}
  <2>1. kind = OnlyRoot
    BY <1>1, BeamTree DEF BeamSearch!Init, BeamSearch!OnlyRoot, OnlyRoot,
                          BeamSearch!Root, Root
  <2> QED BY <2>1, RootIsNode DEF OnlyRoot, Present
<1>4. Level = {Root}
  BY <1>2, <1>3, RootIsNode DEF Level
<1>5. ToSet(beam) = {Root}
  BY <1>2 DEF ToSet
<1>6. Len(beam) = BeamSearch!Least(BeamSearch!Width(opts), Cardinality(Level))
  <2>1. Cardinality(Level) = 1
    BY <1>4, FS_Singleton
  <2>2. BeamSearch!Width(opts) \in Nat \ {0}
    BY BeamOptions DEF Init
  <2> QED BY <1>2, <2>1, <2>2 DEF BeamSearch!Least
<1>7. BeamTypes
  BY BeamInit
<1>8. Distinct
  BY <1>2 DEF Distinct
<1>9. Best /\ Frontier /\ HandedOver
  BY <1>2, <1>3, <1>4, <1>5, RootIsNode DEF Best, Frontier, HandedOver
<1> QED BY <1>4, <1>5, <1>6, <1>7, <1>8, <1>9 DEF BeamInv, Filled

(* A node of the beam is handed over, whatever comes of it.                *)
LEMMA HandStep ==
  ASSUME Sound, opts.method = "BeamSearch", BeamInv, NEW n \in Node,
         BeamSearch!Probes(n)
  PROVE  /\ n \in ToSet(beam)
         /\ \A m \in checked' : Len(m) <= iter /\ (Len(m) = iter => m \in ToSet(beam))
<1>1. n \in ToSet(beam)
  BY BeamNames DEF BeamSearch!Probes, BeamSearch!IsFirst, BeamSearch!Unprobed,
                   BeamInv, BeamTypes
<1>2. Len(n) = iter /\ iter \in Int
  BY <1>1 DEF BeamInv, BeamTypes, Filled, Level
<1> QED BY <1>1, <1>2 DEF BeamSearch!Probes, BeamInv, HandedOver

LEMMA BeamInvStep ==
  ASSUME Sound, opts.method = "BeamSearch", BeamInv, BeamSearch!Next
  PROVE  BeamInv'
<1> USE DEF Sound
<1>0. BeamTypes' /\ opts' = opts /\ BeamSearch!Width(opts)' = BeamSearch!Width(opts)
  <2>1. BeamTypes'
    BY BeamTypesStep DEF BeamInv
  <2>2. opts' = opts
    BY BeamStep DEF TreeShape, Step
  <2> QED BY <2>1, <2>2 DEF BeamSearch!Width
<1>1. CASE UNCHANGED <<kind, win, beam, iter>> /\ HandedOver'
  <2>1. Level' = Level /\ Present' = Present
    BY <1>1 DEF Level, Present
  <2> QED BY <1>0, <1>1, <2>1 DEF BeamInv, Distinct, Filled, Best, Frontier, ToSet
<1>2. CASE BeamSearch!TimeUp \/ BeamSearch!Timeout \/ BeamSearch!EndSearch
           \/ BeamSearch!NoBeam \/ \E n \in Node : BeamSearch!Skip(n)
  <2>1. UNCHANGED <<kind, win, beam, iter, checked>>
    BY <1>2 DEF BeamSearch!TimeUp, BeamSearch!Timeout, BeamSearch!EndSearch,
                BeamSearch!NoBeam, BeamSearch!Skip
  <2> QED BY <1>1, <2>1 DEF BeamInv, HandedOver, ToSet
<1>3. ASSUME NEW n \in Node, BeamSearch!Solve(n) PROVE BeamInv'
  <2>1. UNCHANGED <<kind, win, beam, iter>> /\ BeamSearch!Probes(n)
    BY <1>3 DEF BeamSearch!Solve
  <2> QED BY <1>1, <2>1, HandStep DEF HandedOver, ToSet
<1>4. ASSUME NEW n \in Node, BeamSearch!Refuse(n) PROVE BeamInv'
  <2>1. UNCHANGED <<kind, beam, iter>> /\ BeamSearch!Probes(n)
    BY <1>4 DEF BeamSearch!Refuse
  <2>2. HandedOver'
    BY <2>1, HandStep DEF HandedOver, ToSet
  <2>3. Level' = Level /\ Present' = Present /\ ToSet(beam)' = ToSet(beam)
    BY <2>1 DEF Level, Present, ToSet
  <2>4. PICK S \in SUBSET checked' : win' = [m \in Node |-> IF m \in S THEN -1 ELSE win[m]]
    <3>1. PICK S \in IF opts.callback = "batch" THEN SUBSET checked' ELSE {{}} :
            win' = [m \in Node |-> IF m \in S THEN -1 ELSE win[m]]
      BY <1>4, BeamTree DEF BeamSearch!Refuse, BeamSearch!NegInf
    <3> QED BY <3>1
  <2>5. Best'
    <3> SUFFICES ASSUME NEW m \in Level \ ToSet(beam), NEW b \in ToSet(beam)
                 PROVE  win'[b] = -1 \/ win'[m] <= win'[b]
      BY <2>3 DEF Best
    <3>1. m \in Node /\ b \in Node
      BY DEF Level, Present, BeamInv, Filled
    <3>2. m \notin S
      BY <2>1, <2>4, HandStep DEF Level
    <3>3. win'[m] = win[m] /\ win'[b] \in {win[b], -1}
      BY <2>4, <3>1, <3>2
    <3> QED BY <3>3 DEF BeamInv, Best
  <2> QED BY <1>0, <2>1, <2>2, <2>3, <2>5 DEF BeamInv, Distinct, Filled, Frontier
<1>5. ASSUME NEW n \in Node, BeamSearch!Expand(n) PROVE BeamInv'
  <2>1. UNCHANGED <<beam, iter, checked>> /\ n \in ToSet(beam) /\ IsExpandable(n)
    BY <1>5, BeamTree DEF BeamSearch!Expand, BeamSearch!Expands, BeamInv, BeamTypes
  <2>2. PICK out \in BeamSearch!Expansions(opts, n) :
          /\ kind' = WithChildren(n, out.texts)
          /\ win' = BeamSearch!Valued(n, out)
    BY <1>5, BeamTree DEF BeamSearch!Expand
  <2>3. Len(n) = iter /\ iter \in Nat
    BY <2>1, MethodsAssumption DEF BeamInv, BeamTypes, Filled, Level
  <2>4. \A m \in Node : ~IsChildOf(m, n) => kind'[m] = kind[m] /\ win'[m] = win[m]
    BY <2>2, BeamTree, BeamNames DEF WithChildren, BeamSearch!Valued, BeamInv, BeamTypes
  <2>5. \A m \in Node : IsChildOf(m, n) => Len(m) = iter + 1
    BY <2>3 DEF IsChildOf
  <2>6. Level' = Level
    BY <2>1, <2>3, <2>4, <2>5 DEF Level, Present
  <2>7. Best'
    BY <2>1, <2>3, <2>4, <2>5, <2>6 DEF BeamInv, Best, Level, Filled, Present, ToSet
  <2>8. Frontier'
    <3> SUFFICES ASSUME NEW m \in Present', Len(m) > iter
                 PROVE  \E b \in ToSet(beam) : IsChildOf(m, b)
      BY <2>1 DEF Frontier, ToSet
    <3>1. CASE IsChildOf(m, n)
      BY <2>1, <3>1
    <3>2. CASE ~IsChildOf(m, n)
      BY <2>4, <3>2 DEF BeamInv, Frontier, Present
    <3> QED BY <3>1, <3>2
  <2> QED BY <1>0, <2>1, <2>6, <2>7, <2>8 DEF BeamInv, Distinct, Filled, HandedOver, ToSet
<1>6. CASE BeamSearch!EndLayer
  <2> DEFINE C == {c \in Present : \E b \in ToSet(beam) : IsChildOf(c, b)}
  <2>1. BeamSearch!Candidates = C
    BY BeamNames DEF BeamSearch!Candidates
  <2>2. /\ beam' \in BeamSearch!TopK(C, BeamSearch!Width(opts))
        /\ iter' = iter + 1 /\ UNCHANGED <<kind, win, checked>>
    BY <1>6, <2>1 DEF BeamSearch!EndLayer
  <2>3. iter \in Nat /\ \A b \in ToSet(beam) : b \in Node /\ Len(b) = iter
    BY MethodsAssumption DEF BeamInv, BeamTypes, Filled, Level, Present
  <2>4. Present' = Present
    BY <2>2 DEF Present
  <2>5. Level' = C
    <3>1. \A c \in C : Len(c) = iter + 1
      BY <2>3 DEF IsChildOf
    <3>2. \A m \in Present : Len(m) = iter + 1 => m \in C
      BY <2>3 DEF BeamInv, Frontier
    <3> QED BY <2>2, <2>4, <3>1, <3>2 DEF Level
  <2> HIDE DEF C
  <2>6. C \in SUBSET Present /\ Present \subseteq Node
    BY <2>4, <2>5 DEF Level, Present
  <2>7. PICK l \in Nat :
          /\ l = BeamSearch!Least(BeamSearch!Width(opts), Cardinality(C))
          /\ beam' \in [1..l -> C] /\ beam' \in Seq(Node) /\ Len(beam') = l
          /\ \A i, j \in 1..l : i # j => beam'[i] # beam'[j]
    BY <2>2, <2>6, TopKType, BeamOptions
  <2>8. Filled' /\ Distinct'
    <3>1. ToSet(beam') \subseteq C
      BY <2>7 DEF ToSet
    <3> QED BY <1>0, <2>5, <2>7, <3>1 DEF Filled, Distinct, ToSet
  <2>9. Best'
    <3> SUFFICES ASSUME NEW m \in C \ ToSet(beam'), NEW b \in ToSet(beam')
                 PROVE  win[m] <= win[b]
      BY <2>2, <2>5 DEF Best, ToSet
    <3>1. b \in C /\ m \in Node /\ b \in Node
      BY <2>6, <2>7 DEF ToSet
    <3>2. ~BeamSearch!Before(m, b)
      BY <2>2, BeamNames DEF BeamSearch!TopK, ToSet
    <3>3. ~(win[m] > win[b])
      BY <3>2 DEF BeamSearch!Before
    <3>4. win[m] \in Int /\ win[b] \in Int
      BY <3>1, ScoreAssumption DEF BeamInv, BeamTypes, Score
    <3> QED BY <3>3, <3>4
  <2>10. Frontier'
    <3> SUFFICES ASSUME NEW m \in Present, Len(m) > iter + 1 PROVE FALSE
      BY <2>2, <2>4 DEF Frontier
    <3>1. PICK b \in ToSet(beam) : IsChildOf(m, b)
      BY <2>3 DEF BeamInv, Frontier
    <3> QED BY <2>3, <3>1 DEF IsChildOf
  <2>11. HandedOver'
    <3> SUFFICES ASSUME NEW m \in checked
                 PROVE  Len(m) <= iter + 1 /\ Len(m) # iter + 1
      BY <2>2 DEF HandedOver
    <3>1. Len(m) <= iter /\ Len(m) \in Nat
      BY NodeIsSeq DEF BeamInv, HandedOver, Present
    <3> QED BY <2>3, <3>1
  <2> QED BY <1>0, <2>8, <2>9, <2>10, <2>11 DEF BeamInv
<1> QED BY <1>2, <1>3, <1>4, <1>5, <1>6, BeamTree DEF BeamSearch!Next

(* A search whose constructor was given the root has no beam to speak of.  *)
BeamSound == BeamTypes /\ (~opts.rooted => BeamInv)

LEMMA BeamStays == Spec => [](opts.method = "BeamSearch" => BeamSound)
<1>1. Sound /\ (opts.method = "BeamSearch" => BeamSound) /\ [Next]_vars
        => (opts.method = "BeamSearch" => BeamSound)'
  <2> SUFFICES ASSUME Sound, [Next]_vars, opts'.method = "BeamSearch",
                      opts.method = "BeamSearch" => BeamSound
               PROVE  BeamSound'
    OBVIOUS
  <2>1. opts' = opts
    BY Steps DEF vars, Step, Sound, TreeShape
  <2>2. CASE BeamSearch!Next
    BY <2>1, <2>2, BeamTypesStep, BeamInvStep DEF BeamSound
  <2>3. CASE UNCHANGED vars
    BY <2>1, <2>3
       DEF vars, BeamSound, BeamInv, BeamTypes, Distinct, Filled, Best,
           Frontier, HandedOver, ToSet, Level, Present, BeamSearch!Width
  <2> QED BY <2>1, <2>2, <2>3 DEF Next
<1>2. Init => (opts.method = "BeamSearch" => BeamSound)
  BY BeamInit, BeamInvInit DEF BeamSound
<1> QED BY <1>1, <1>2, StaysSound, PTL DEF Spec

LEMMA BeamTypeOK ==
  ASSUME Sound, opts.method = "BeamSearch", BeamTypes
  PROVE  BeamSearch!TypeOK
<1>1. BeamSearch!TreeShape
  <2>1. TreeShape
    BY DEF Sound
  <2>2. BeamSearch!Kind = Kind /\ BeamSearch!Root = Root
    BY DEF BeamSearch!Kind, Kind, BeamSearch!TextKind, TextKind, BeamSearch!Root, Root
  <2>3. \A m, n : BeamSearch!OnPathTo(m, n) = OnPathTo(m, n)
    BY DEF BeamSearch!OnPathTo, OnPathTo
  <2> QED BY <2>1, <2>2, <2>3, BeamTree, BeamNames DEF TreeShape, BeamSearch!TreeShape
<1>2. checked \subseteq Node /\ answer \in Node \union {NoAnswer}
  BY DEF Sound, Present, ProofsAreVerified
<1>3. /\ win \in [BeamSearch!Node -> BeamSearch!Score \union {BeamSearch!NegInf}]
      /\ beam \in Seq(BeamSearch!Node) /\ todo \subseteq BeamSearch!ToSet(beam)
  BY BeamTree, BeamNames
     DEF BeamTypes, BeamSearch!Score, Score, BeamSearch!NegInf
<1> QED
  BY <1>1, <1>2, <1>3, BeamTree, BeamOptions DEF Sound, BeamTypes, BeamSearch!TypeOK

LEMMA BeamIsBest ==
  ASSUME Sound, opts.method = "BeamSearch", BeamSound
  PROVE  BeamSearch!BeamHoldsBest
<1> SUFFICES ASSUME BeamInv PROVE BeamSearch!BeamHoldsBest
  BY DEF BeamSound, BeamSearch!BeamHoldsBest
<1>1. Cardinality(ToSet(beam)) = Len(beam)
  <2>1. beam \in Seq(Node) /\ Len(beam) \in Nat /\ DOMAIN beam = 1..Len(beam)
    BY LenProperties DEF BeamInv, BeamTypes
  <2>2. beam \in Bijection(1..Len(beam), ToSet(beam))
    <3>1. beam \in [1..Len(beam) -> ToSet(beam)]
      <4>1. beam \in [1..Len(beam) -> Node]
        BY <2>1, SeqDef, LenProperties
      <4> QED BY <2>1, <4>1 DEF ToSet
    <3>2. \A i, j \in 1..Len(beam) : beam[i] = beam[j] => i = j
      BY <2>1 DEF BeamInv, Distinct
    <3>3. \A t \in ToSet(beam) : \E i \in 1..Len(beam) : beam[i] = t
      BY <2>1 DEF ToSet
    <3>4. beam \in Injection(1..Len(beam), ToSet(beam))
      BY <3>1, <3>2 DEF Injection, IsInjective
    <3>5. beam \in Surjection(1..Len(beam), ToSet(beam))
      BY <3>1, <3>3 DEF Surjection
    <3> QED BY <3>4, <3>5 DEF Bijection
  <2>3. IsFiniteSet(1..Len(beam)) /\ Cardinality(1..Len(beam)) = Len(beam)
    BY <2>1, FS_Interval
  <2> QED BY <2>2, <2>3, FS_Bijection DEF ExistsBijection
<1> DEFINE level == {n \in BeamSearch!Present : Len(n) = iter}
<1>2. level = Level
  BY BeamNames DEF Level
<1> HIDE DEF level
<1>3. /\ BeamSearch!ToSet(beam) \subseteq level
      /\ BeamSearch!Cardinality(BeamSearch!ToSet(beam)) = Len(beam)
      /\ Len(beam) = BeamSearch!Least(BeamSearch!Width(opts), BeamSearch!Cardinality(level))
  BY <1>1, <1>2, BeamNames, SameCardinality DEF BeamInv, Filled
<1>4. \A n \in level \ BeamSearch!ToSet(beam) : \A b \in BeamSearch!ToSet(beam) :
        win[b] = BeamSearch!NegInf \/ win[n] <= win[b]
  BY <1>2, BeamNames DEF BeamInv, Best, BeamSearch!NegInf
<1>5. \A n \in BeamSearch!Present :
        Len(n) > iter => \E b \in BeamSearch!ToSet(beam) : BeamSearch!IsChildOf(n, b)
  BY BeamNames DEF BeamInv, Frontier
<1> QED BY <1>3, <1>4, <1>5 DEF level, BeamSearch!BeamHoldsBest

-----------------------------------------------------------------------------
(* Type correctness of traditional MCTS, and what its visits count.        *)

Number == {MCTS!UCT!Finite, MCTS!UCT!NegInf}

MCTSTypes ==
  /\ win \in [Node -> Number]
  /\ iter \in 0..ExpansionCount
  /\ failed \in Nat
  /\ status \in {"running", "solved", "stopped"}

LEMMA MCTSTypesStep ==
  ASSUME Sound, opts.method = "TraditionalMCTS", MCTSTypes, MCTS!Next
  PROVE  MCTSTypes'
<1>1. ASSUME NEW s \in Node PROVE MCTS!UCT!Credited(win, s) \in [Node -> Number]
  BY UCTTree DEF MCTS!UCT!Credited, MCTS!UCT!Plus, MCTSTypes, Number
<1>2. ASSUME NEW s \in Node PROVE [win EXCEPT ![s] = MCTS!UCT!NegInf] \in [Node -> Number]
  BY DEF MCTSTypes, Number
<1>3. ASSUME NEW s \in Node, MCTS!Round(s) PROVE iter' \in 0..ExpansionCount
  BY <1>3, MethodsAssumption DEF MCTS!Round, MCTSTypes
<1>4. ASSUME NEW s \in Node, MCTS!Solve(s) \/ MCTS!Refuse(s) \/ MCTS!Stall(s)
      PROVE  MCTSTypes'
  BY <1>2, <1>3, <1>4 DEF MCTS!Solve, MCTS!Refuse, MCTS!Stall, MCTSTypes
<1>5. ASSUME NEW s \in Node, MCTS!Expand(s) \/ MCTS!ExpandNothing(s) PROVE MCTSTypes'
  BY <1>1, <1>3, <1>5 DEF MCTS!Expand, MCTS!ExpandNothing, MCTSTypes
<1>6. ASSUME NEW s \in Node, MCTS!ExpandRaises(s) PROVE MCTSTypes'
  BY <1>3, <1>6 DEF MCTS!ExpandRaises, MCTSTypes
<1>7. CASE MCTS!Return
  BY <1>7, MethodsAssumption DEF MCTS!Return, MCTSTypes
<1> QED BY <1>4, <1>5, <1>6, <1>7, MCTSTree DEF MCTS!Next

(* The nodes below n that have children.                                   *)
ExpandedBelow(n) == {m \in Present : n \in Ancestors(m) /\ Children(m) # {}}

Near(a, b, d) == a <= b + d /\ b <= a + d

Counted ==
  status = "running" =>
    \A n \in Present : Near(visits[n], Cardinality(ExpandedBelow(n)), failed)

(* An expansion of s adds s to what was expanded above it, or nothing.     *)
LEMMA ExpandedStep ==
  ASSUME Sound, NEW s \in Node, Expands(s), NEW n \in Present'
  PROVE  ExpandedBelow(n)' =
           IF n \in Present
           THEN ExpandedBelow(n) \union
                  (IF n \in Ancestors(s) /\ Children(s)' # {} THEN {s} ELSE {})
           ELSE {}
<1>1. TreeShape /\ TreeShape' /\ s \in Present /\ Children(s) = {} /\ Present \subseteq Present'
  BY DEF Sound, Expands, IsExpandable, Present
<1>2. ASSUME NEW m \in Node, m \notin Present PROVE Children(m)' = {}
  <2>1. SUFFICES ASSUME NEW c \in Node, IsChildOf(c, m), kind'[c] # "absent"
                 PROVE  FALSE
    BY DEF Children, Present
  <2>2. c \notin Present
    <3>1. SUFFICES ASSUME c \in Present PROVE FALSE
      OBVIOUS
    <3>2. OnPathTo(m, c) /\ m # c
      BY <2>1, NodeIsSeq DEF IsChildOf
    <3> QED BY <1>1, <1>2, <3>1, <3>2, AboveIsStep DEF Present
  <2>3. IsChildOf(c, s)
    BY <2>1, <2>2 DEF Expands, Present
  <2>4. m = s
    BY <1>2, <2>1, <2>3, OneParent
  <2> QED BY <1>1, <1>2, <2>4
<1>3. ASSUME NEW m \in Node, m # s PROVE Children(m)' = Children(m)
  <2>1. \A c \in Node : IsChildOf(c, m) => kind'[c] = kind[c]
    BY <1>3, OneParent DEF Expands
  <2> QED BY <2>1 DEF Children, Present
<1>4. ExpandedBelow(n)' = {m \in Present : n \in Ancestors(m) /\ Children(m)' # {}}
  BY <1>1, <1>2 DEF ExpandedBelow, Present, Ancestors, PathTo
<1>5. CASE n \notin Present
  <2>1. \A m \in Present : n \notin Ancestors(m)
    BY <1>1, <1>5, AboveIsStep DEF Ancestors, PathTo, Present
  <2> QED BY <1>4, <1>5, <2>1
<1>6. CASE n \in Present
  <2>1. \A m \in Present : m # s => Children(m)' = Children(m)
    BY <1>3 DEF Present
  <2> QED BY <1>1, <1>4, <1>6, <2>1 DEF ExpandedBelow
<1> QED BY <1>5, <1>6

LEMMA CountType ==
  ASSUME NEW n
  PROVE  /\ Cardinality(ExpandedBelow(n)) \in Nat
         /\ \A s \in Node : s \notin ExpandedBelow(n) =>
              Cardinality(ExpandedBelow(n) \union {s}) = Cardinality(ExpandedBelow(n)) + 1
<1>1. IsFiniteSet(ExpandedBelow(n))
  <2>1. ExpandedBelow(n) \subseteq Node
    BY DEF ExpandedBelow, Present
  <2> QED BY <2>1, NodesAreFinite, FS_Subset
<1> QED BY <1>1, FS_CardinalityType, FS_AddElement

LEMMA NearStep ==
  ASSUME NEW v \in Nat, NEW c \in Nat, NEW f \in Nat, NEW g \in {f, f + 1},
         Near(v, c, f)
  PROVE  /\ Near(v, c, g)
         /\ Near(v + 1, c + 1, g)
         /\ g # f => Near(v + 1, c, g)
<1>1. v <= c + f /\ c <= v + f
  BY DEF Near
<1>2. CASE g = f
  BY <1>1, <1>2 DEF Near
<1>3. CASE g = f + 1
  BY <1>1, <1>3 DEF Near
<1> QED BY <1>2, <1>3

LEMMA CountedStep ==
  ASSUME Sound, Unvisited, Unvisited', MCTSTypes, Counted, NEW s \in Node, Expands(s),
         status = "running"
  PROVE  Counted'
<1> SUFFICES ASSUME status' = "running", NEW n \in Present'
             PROVE  Near(visits'[n], Cardinality(ExpandedBelow(n)'), failed')
  BY DEF Counted, Near
<1>1. n \in Node /\ failed \in Nat /\ failed' \in {failed, failed + 1}
  BY DEF Present, MCTSTypes, Expands
<1>2. CASE n \notin Present
  <2>1. n \notin Ancestors(s)
    BY <1>1, <1>2, AboveIsStep
       DEF Ancestors, PathTo, Expands, IsExpandable, Present, Sound
  <2>2. visits'[n] = 0
    BY <1>1, <1>2, <2>1 DEF Expands, Visiting, Unvisited, Present
  <2>3. Cardinality(ExpandedBelow(n)') = 0
    BY <1>2, ExpandedStep, FS_EmptySet
  <2> DEFINE d == Cardinality(ExpandedBelow(n)')
             w == visits'[n]
  <2>4. w = 0 /\ d = 0 /\ failed' \in Nat
    BY <1>1, <2>2, <2>3
  <2>5. Near(w, d, failed')
    <3>1. \A k \in Nat : Near(0, 0, k)
      BY DEF Near
    <3> HIDE DEF d, w
    <3> QED BY <2>4, <3>1
  <2> QED BY <2>5
<1>3. CASE n \in Present
  <2> DEFINE c == Cardinality(ExpandedBelow(n))
             d == Cardinality(ExpandedBelow(n)')
             v == visits[n]
             w == visits'[n]
  <2>1. s \notin ExpandedBelow(n)
    BY DEF ExpandedBelow, Expands, IsExpandable
  <2>2. /\ c \in Nat
        /\ d = IF n \in Ancestors(s) /\ Children(s)' # {} THEN c + 1 ELSE c
    BY <1>3, <2>1, ExpandedStep, CountType
  <2>3. v \in Nat /\ Near(v, c, failed)
    BY <1>1, <1>3 DEF Unvisited, Counted
  <2>4. CASE w = v /\ failed' = failed + 1
    <3>1. Near(w, d, failed')
      <4> HIDE DEF c, d, v, w
      <4> QED BY <1>1, <2>2, <2>3, <2>4 DEF Near
    <3> QED BY <3>1
  <2>5. CASE visits' = Visiting(s)
    <3>1. w = IF n \in Ancestors(s) THEN v + 1 ELSE v
      BY <1>1, <2>5 DEF Visiting
    <3>2. failed' = failed => Children(s)' # {}
      BY <1>1, <2>5 DEF Expands
    <3>3. Near(w, d, failed')
      <4> DEFINE some == Children(s)' # {}
                 above == n \in Ancestors(s)
      <4>1. /\ d = IF above /\ some THEN c + 1 ELSE c
            /\ w = IF above THEN v + 1 ELSE v
            /\ failed' = failed => some
            /\ v <= c + failed /\ c <= v + failed
        BY <2>2, <2>3, <3>1, <3>2 DEF Near
      <4> HIDE DEF c, d, v, w, some, above
      <4>2. c \in Nat /\ v \in Nat /\ failed \in Nat
        BY <1>1, <2>2, <2>3
      <4>0. Near(v, c, failed)
        BY <2>3
      <4>3. CASE ~above
        <5>1. d = c /\ w = v
          BY <4>1, <4>3
        <5> QED BY <1>1, <4>0, <4>2, <5>1, NearStep
      <4>4. CASE above /\ some
        <5>1. d = c + 1 /\ w = v + 1
          BY <4>1, <4>4
        <5> QED BY <1>1, <4>0, <4>2, <5>1, NearStep
      <4>5. CASE above /\ ~some
        <5>1. failed' = failed + 1 /\ d = c /\ w = v + 1
          BY <1>1, <4>1, <4>5
        <5> QED BY <4>1, <4>2, <5>1 DEF Near
      <4> QED BY <4>3, <4>4, <4>5
    <3> QED BY <3>3
  <2> QED BY <2>4, <2>5 DEF Expands
<1> QED BY <1>2, <1>3

MCTSInv == MCTSTypes /\ Counted

LEMMA MCTSInvInit == Init /\ opts.method = "TraditionalMCTS" => MCTSInv
<1> SUFFICES ASSUME Init, opts.method = "TraditionalMCTS" PROVE MCTSInv
  OBVIOUS
<1>1. MCTS!Init
  BY SetupAssumption DEF Init
<1>2. kind = OnlyRoot /\ visits = [n \in Node |-> 0]
  BY <1>1, MCTSTree DEF MCTS!Init, MCTS!OnlyRoot, OnlyRoot, MCTS!Root, Root
<1>3. Present = {Root}
  BY <1>2, RootIsNode DEF OnlyRoot, Present
<1>4. ExpandedBelow(Root) = {}
  BY <1>3 DEF ExpandedBelow, Ancestors
<1>5. Counted
  <2>1. visits[Root] = 0 /\ failed = 0
    BY <1>1, <1>2, RootIsNode DEF MCTS!Init
  <2>2. Cardinality(ExpandedBelow(Root)) = 0
    BY <1>4, FS_EmptySet
  <2>3. Near(visits[Root], Cardinality(ExpandedBelow(Root)), failed)
    <3>1. Near(0, 0, 0)
      BY DEF Near
    <3> QED BY <2>1, <2>2, <3>1
  <2> QED BY <1>3, <2>3 DEF Counted
<1>6. MCTSTypes
  BY <1>1, MethodsAssumption, MCTSTree DEF MCTS!Init, MCTSTypes, Number
<1> QED BY <1>5, <1>6 DEF MCTSInv

LEMMA MCTSStays ==
  Spec => [](opts.method = "TraditionalMCTS" => Unvisited /\ MCTSInv)
<1>1. Init /\ opts.method = "TraditionalMCTS" => Unvisited
  <2> SUFFICES ASSUME Init, opts.method = "TraditionalMCTS" PROVE Unvisited
    OBVIOUS
  <2>1. visits = [n \in Node |-> 0]
    BY MCTSTree DEF Init, MCTS!Init
  <2> QED BY <2>1 DEF Unvisited
<1>2. Sound /\ (opts.method = "TraditionalMCTS" => Unvisited /\ MCTSInv) /\ [Next]_vars
        => (opts.method = "TraditionalMCTS" => Unvisited /\ MCTSInv)'
  <2> SUFFICES ASSUME Sound, [Next]_vars, opts'.method = "TraditionalMCTS",
                      opts.method = "TraditionalMCTS" => Unvisited /\ MCTSInv
               PROVE  Unvisited' /\ MCTSInv'
    OBVIOUS
  <2>1. opts' = opts
    BY Steps DEF vars, Step, Sound, TreeShape
  <2>2. CASE UNCHANGED vars
    BY <2>1, <2>2 DEF vars, Unvisited, MCTSInv, MCTSTypes, Counted, Near,
                      ExpandedBelow, Present, Children
  <2>3. CASE Next
    <3>0. MCTS!Next
      BY <2>1, <2>3 DEF Next
    <3>1. MCTSTypes'
      BY <2>1, <3>0, MCTSTypesStep DEF MCTSInv
    <3>2. CASE /\ UNCHANGED <<kind, visits>>
               /\ status' = "running" => failed' \in {failed, failed + 1}
      <4>1. Unvisited'
        BY <2>1, <3>2 DEF Unvisited
      <4>2. status = "running"
        BY <3>0 DEF MCTS!Next, MCTS!Return, MCTS!Solve, MCTS!Refuse,
                    MCTS!Stall, MCTS!Expand, MCTS!ExpandNothing,
                    MCTS!ExpandRaises, MCTS!Round
      <4>3. Counted'
        <5> SUFFICES ASSUME status' = "running", NEW n \in Present
                     PROVE  Near(visits[n], Cardinality(ExpandedBelow(n)), failed')
          BY <3>2 DEF Counted, Near, ExpandedBelow, Present, Children
        <5>1. Near(visits[n], Cardinality(ExpandedBelow(n)), failed)
          BY <2>1, <4>2 DEF MCTSInv, Counted
        <5>2. /\ Cardinality(ExpandedBelow(n)) \in Nat
              /\ visits[n] \in Nat /\ failed \in Nat
          BY <2>1, CountType DEF MCTSInv, MCTSTypes, Unvisited, Present
        <5> QED BY <3>2, <5>1, <5>2 DEF Near
      <4> QED BY <3>1, <4>1, <4>3 DEF MCTSInv
    <3>3. ASSUME NEW s \in Node, Expands(s) PROVE Unvisited' /\ MCTSInv'
      <4>1. Unvisited'
        BY <2>1, <3>3, UnvisitedStep
      <4>2. status = "running"
        BY <3>3 DEF Expands, MCTS!Round
      <4> QED BY <2>1, <3>1, <3>3, <4>1, <4>2, CountedStep DEF MCTSInv
    <3>4. \/ /\ UNCHANGED <<kind, visits>>
             /\ status' = "running" => failed' \in {failed, failed + 1}
          \/ \E s \in Node : Expands(s)
      BY <2>1, <2>3, VisitStep
    <3> QED BY <3>2, <3>3, <3>4
  <2> QED BY <2>1, <2>2, <2>3 DEF Next
<1> QED BY <1>1, <1>2, MCTSInvInit, StaysSound, PTL DEF Spec

LEMMA MCTSTypeOK ==
  ASSUME Sound, opts.method = "TraditionalMCTS", Unvisited, MCTSTypes
  PROVE  MCTS!TypeOK
<1>1. MCTS!TreeShape
  <2>1. TreeShape
    BY DEF Sound
  <2>2. MCTS!Kind = Kind /\ MCTS!Root = Root
    BY DEF MCTS!Kind, Kind, MCTS!TextKind, TextKind, MCTS!Root, Root
  <2>3. /\ \A m, n : MCTS!OnPathTo(m, n) = OnPathTo(m, n)
        /\ \A m, n : MCTS!IsChildOf(m, n) = IsChildOf(m, n)
        /\ \A c : MCTS!Position(c) = Position(c)
    BY DEF MCTS!OnPathTo, OnPathTo, MCTS!IsChildOf, IsChildOf, MCTS!Position, Position
  <2>4. MCTS!Present = Present /\ \A n \in Node : MCTS!Children(n) = Children(n)
    BY <2>3, MCTSTree DEF MCTS!Present, Present, MCTS!Children, Children
  <2> QED BY <2>1, <2>2, <2>3, <2>4, MCTSTree DEF TreeShape, MCTS!TreeShape
<1>2. checked \subseteq Node /\ answer \in Node \union {NoAnswer}
  BY DEF Sound, Present, ProofsAreVerified
<1>3. opts \in MCTS!MCTSSetup
  BY SetupAssumption DEF Sound, BeamSearch!BeamSetup
<1> QED
  BY <1>1, <1>2, <1>3, MCTSTree DEF Unvisited, MCTSTypes, Number, MCTS!TypeOK

LEMMA MCTSCounts ==
  ASSUME Sound, opts.method = "TraditionalMCTS", Unvisited, MCTSInv
  PROVE  MCTS!VisitsCountExpansions
<1>1. \A m, n : MCTS!OnPathTo(m, n) = OnPathTo(m, n)
  BY DEF MCTS!OnPathTo, OnPathTo
<1>2. MCTS!Present = Present
  BY MCTSTree DEF MCTS!Present, Present
<1>3. \A n \in Node : /\ MCTS!Children(n) = Children(n)
                      /\ MCTS!Ancestors(n) = Ancestors(n)
  BY <1>1, <1>2, MCTSTree
     DEF MCTS!Children, Children, MCTS!IsChildOf, IsChildOf, MCTS!Ancestors,
         Ancestors, MCTS!PathTo, PathTo
<1>4. \A n : MCTS!ExpandedBelow(n) = ExpandedBelow(n)
  BY <1>2, <1>3 DEF MCTS!ExpandedBelow, ExpandedBelow, Present
<1> QED
  BY <1>2, <1>4, SameCardinality DEF MCTS!VisitsCountExpansions, MCTSInv, Counted, Near

-----------------------------------------------------------------------------
(* Every variable keeps its type, with every policy and evaluator; the     *)
(* values of a tournament stay within the scale whatever the number of     *)
(* players.                                                                *)
THEOREM TypeCorrect == Spec => []TypeOK
<1>1. Sound /\ (opts.method = "BeamSearch" => BeamSound)
        /\ (opts.method = "TraditionalMCTS" => Unvisited /\ MCTSInv) => TypeOK
  BY BeamTypeOK, MCTSTypeOK DEF TypeOK, Sound, BeamSound, MCTSInv
<1> QED BY <1>1, StaysSound, BeamStays, MCTSStays, PTL

(* The beam is the best of its level, whatever was refused or failed; and  *)
(* the visits of traditional MCTS count the expansions below a node, but   *)
(* for those that failed.                                                  *)
THEOREM SelectionStaysInformed == Spec => []SelectionIsInformed
<1>1. Sound /\ (opts.method = "BeamSearch" => BeamSound)
        /\ (opts.method = "TraditionalMCTS" => Unvisited /\ MCTSInv)
        => SelectionIsInformed
  BY BeamIsBest, MCTSCounts DEF SelectionIsInformed
<1> QED BY <1>1, StaysSound, BeamStays, MCTSStays, PTL
=============================================================================
