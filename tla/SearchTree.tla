----------------------------- MODULE SearchTree -----------------------------
(***************************************************************************)
(* The proof search tree that every search method grows                    *)
(* (src/treethink/methods/node.py, and the tree helpers of                 *)
(* src/treethink/methods/base_method.py).                                  *)
(*                                                                         *)
(* A Node object is named by its place in the tree: the sequence of child  *)
(* positions on the way from the root to it.  The root is << >>, its       *)
(* second child is << 2 >>.  Parent pointers, levels and the chain that    *)
(* find_path_to_terminal walks are then read off the name, and they cannot *)
(* change after creation, as in the code.                                  *)
(*                                                                         *)
(* Of a node's text we keep what the search can tell apart: whether it is  *)
(* the termination string and, if it is, whether the proof on the path     *)
(* that ends there is one the proof assistant accepts.                     *)
(***************************************************************************)
EXTENDS Integers, Sequences, FiniteSets, SequencesExt

CONSTANTS
  MaxChildren,  \* samples per policy call (Node.max_children)
  MaxDepth      \* bound of the model: nodes at this level get no children

ASSUME SizeAssumption == MaxChildren \in Nat \ {0} /\ MaxDepth \in Nat

VARIABLE kind   \* what each possible node is; "absent" until it is created

Node == BoundedSeq(1..MaxChildren, MaxDepth)
Root == << >>

TextKind == {"step", "good", "bad"}
Kind     == TextKind \union {"absent"}

(* m is n or an ancestor of n: the chain the parent pointers of n spell.   *)
OnPathTo(m, n) ==
  Len(m) <= Len(n) /\ \A i \in 1..Len(m) : m[i] = n[i]

PathTo(n)    == {m \in Node : OnPathTo(m, n)}
Ancestors(n) == PathTo(n) \ {n}

IsChildOf(m, n) == Len(m) = Len(n) + 1 /\ OnPathTo(n, m)

(* The position of a node in its parent's children list.                   *)
Position(m) == m[Len(m)]

Present     == {n \in Node : kind[n] # "absent"}
Children(n) == {m \in Present : IsChildOf(m, n)}
Leaves      == {n \in Present : Children(n) = {}}

IsTermination(n) == kind[n] \in {"good", "bad"}
(* Faulty variant: the termination string does not stop expansion.         *)
IsExpandable_IgnoresTermination(n) == n \in Present /\ Children(n) = {}

IsExpandable(n)  == n \in Present /\ Children(n) = {} /\ ~IsTermination(n)

(* The children a policy call can leave on node n: one to MaxChildren      *)
(* texts.  Termination children of one node have the same text, hence the  *)
(* same proof and the same verdict; remove_duplicate_children keeps the    *)
(* first of them.                                                          *)
Samples(n, dedupe) ==
  {ks \in UNION {[1..k -> TextKind] : k \in 1..MaxChildren} :
     /\ Len(n) < MaxDepth
     /\ \A i, j \in DOMAIN ks :
          ks[i] # "step" /\ ks[j] # "step" =>
            ks[i] = ks[j] /\ (dedupe => i = j)}

WithChildren(n, ks) ==
  [m \in Node |->
     IF IsChildOf(m, n) /\ Position(m) \in DOMAIN ks
     THEN ks[Position(m)]
     ELSE kind[m]]

OnlyRoot == [n \in Node |-> IF n = Root THEN "step" ELSE "absent"]

(* Every node hangs off a present, non-termination parent, and a children  *)
(* list has no holes.                                                      *)
TreeShape ==
  /\ kind \in [Node -> Kind]
  /\ kind[Root] = "step"
  /\ \A m, n \in Node :
       /\ m \in Present /\ OnPathTo(n, m) /\ n # m => kind[n] = "step"
       /\ m \in Children(n) =>
            \A c \in Node :
              IsChildOf(c, n) /\ Position(c) <= Position(m) => c \in Present
=============================================================================
