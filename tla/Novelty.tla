------------------------------ MODULE Novelty ------------------------------
(***************************************************************************)
(* The memory of the RMaxTS evaluators (_RMaxNoveltyTracker in             *)
(* src/treethink/evaluators.py): the states seen in the tree whose root    *)
(* was met last.  A root is known by id(root), which Python may give to    *)
(* the root of a later tree when the earlier one is gone.                  *)
(***************************************************************************)
EXTENDS Integers, Sequences, FiniteSets, SequencesExt

CONSTANT NoRoot

Forgotten == [seen |-> {}, root |-> NoRoot]

(* Faulty variant: the tracker forgets, but not which tree it is in.       *)
ForTree_KeepsRoot(t, root) ==
  IF t.root = root THEN t ELSE [t EXCEPT !.seen = {}]

(* _maybe_reset_for_tree.                                                  *)
ForTree(t, root) ==
  IF t.root = root THEN t ELSE [seen |-> {}, root |-> root]

(* Which of the states ss, evaluated together in the tree below root, get  *)
(* the reward for a new state.                                             *)
Novel(t, root, ss) ==
  {i \in DOMAIN ss :
     /\ ss[i] \notin ForTree(t, root).seen
     /\ \A j \in 1..(i - 1) : ss[j] # ss[i]}

Seen(t, root, ss) ==
  [ForTree(t, root) EXCEPT !.seen = @ \union ToSet(ss)]
=============================================================================
