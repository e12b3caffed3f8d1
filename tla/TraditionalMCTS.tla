--------------------------- MODULE TraditionalMCTS ---------------------------
(***************************************************************************)
(* Monte-Carlo tree search with rollouts, synchronous and asynchronous     *)
(* (src/treethink/methods/traditional_mcts.py).                            *)
(*                                                                         *)
(* One action is one round of the loop of simulate / async_simulate.  The  *)
(* selection is the one of module RFMCTS, and so is the abstraction of     *)
(* values: finite, or minus infinity.  What a round adds to the statistics *)
(* differs: a node's visits count the expansions below it, not its own.    *)
(***************************************************************************)
EXTENDS Expansion

CONSTANTS
  ExpansionCount,  \* the expansion_count argument: rounds of the loop
  NoAnswer

VARIABLES
  opts,      \* how the search was set up; never changes
  win,       \* Node.win_value
  visits,    \* Node.visits
  checked,   \* termination_checked_nodes
  answer,    \* the node whose path is best_answer, or NoAnswer
  iter,      \* rounds begun
  failed,    \* stats_failed_expansion_count
  status     \* "running", "solved" (CHECKED_AND_TRUE) or "stopped"

vars == <<kind, opts, win, visits, checked, answer, iter, failed, status>>

(* Only the statistics and the selection are shared; the final decision is *)
(* not part of this module.                                                *)
UCT == INSTANCE RFMCTS WITH
  ExpansionCount <- ExpansionCount, NoAnswer <- NoAnswer,
  kind <- kind, opts <- opts, win <- win, visits <- visits,
  checked <- checked, answer <- answer, iter <- iter, status <- status, final <- NoAnswer

MCTSSetup ==
  [method : {"TraditionalMCTS"}, async : BOOLEAN, dedupe : BOOLEAN,
   callback : {"none", "immediate", "batch"},
   policy : SyncPolicy \union AsyncPolicy, evaluator : EvaluatorName,
   rollout : BOOLEAN, reset : BOOLEAN]

Init ==
  /\ kind = OnlyRoot
  /\ win = [n \in Node |-> UCT!Finite]
  /\ visits = [n \in Node |-> 0]
  /\ checked = {}
  /\ answer = NoAnswer
  /\ iter = 0
  /\ failed = 0
  /\ status = "running"

-----------------------------------------------------------------------------
(* A round that begins within the budget and selects n.                    *)
Round(n) ==
  /\ status = "running"
  /\ iter < ExpansionCount
  /\ iter' = iter + 1
  /\ UCT!Selected(n)
  /\ UNCHANGED opts

ToCheck(n) ==
  opts.callback # "none" /\ IsTermination(n) /\ n \notin checked

(* The proofs a callback may answer with, see RFMCTS.                      *)
(* Faulty variant: the answer is taken from the wrong place in the batch.  *)
Reach(n) == IF opts.callback = "batch" THEN checked \union {n} ELSE {n}

Confirmed_AnyOfBatch(n) ==
  {m \in Reach(n) : \E k \in Reach(n) : kind[k] = "good"}

Confirmed(n) == {m \in Reach(n) : kind[m] = "good"}

(* Faulty variant: the loop goes on after the answer.                      *)
Solve_NoBreak(n) ==
  /\ Round(n) /\ ToCheck(n)
  /\ checked' = checked \union {n}
  /\ answer' \in Confirmed(n)
  /\ UNCHANGED <<kind, win, visits, failed, status>>

Solve(n) ==
  /\ Round(n) /\ ToCheck(n)
  /\ checked' = checked \union {n}
  /\ answer' \in Confirmed(n)
  /\ status' = "solved"
  /\ UNCHANGED <<kind, win, visits, failed>>

(* The refused proof is worth minus infinity, and that is all: neither it  *)
(* nor an ancestor is visited.                                             *)
Refuse(n) ==
  /\ Round(n) /\ ToCheck(n)
  /\ checked' = checked \union {n}
  /\ win' = [win EXCEPT ![n] = UCT!NegInf]
  /\ UNCHANGED <<kind, visits, answer, failed, status>>

(* Nothing to check and nothing to expand.                                 *)
Stall(n) ==
  /\ Round(n) /\ IsTermination(n) /\ ~ToCheck(n)
  /\ UNCHANGED <<kind, win, visits, checked, answer, failed, status>>

-----------------------------------------------------------------------------
(* BaseMethod.reset calls the constructor without the rollout evaluator,   *)
(* and only the policy with a model of its own can generate rollouts.      *)
Rolls(o) == o.rollout /\ ~o.reset /\ o.policy = "vllm"

(* The children that get a continuation: those with room for one whose     *)
(* request does not fail.                                                  *)
Continued(o, ks) == IF Rolls(o) THEN SUBSET DOMAIN ks ELSE {{}}

(* The rollout evaluator scores the continuations, the main evaluator the  *)
(* children that got none.  Whichever is called may raise, and the         *)
(* rollouts' is a proof assistant or a model like any other.               *)
ScoringMayRaise(o, ks) ==
  \E C \in Continued(o, ks) :
    C # {} \/ (C # DOMAIN ks /\ EvaluatorMayRaise(o.evaluator))

(* Faulty variant: the expanded node is visited as well.                   *)
Visited_WithNode(n) ==
  [m \in Node |-> IF OnPathTo(m, n) THEN visits[m] + 1 ELSE visits[m]]

(* Backpropagation from n begins at its parent.                            *)
Visited(n) ==
  [m \in Node |-> IF m \in Ancestors(n) THEN visits[m] + 1 ELSE visits[m]]

(* The policy leaves children, they get values, the visit is counted.      *)
Expand(n) ==
  /\ Round(n) /\ IsExpandable(n)
  /\ \E ks \in Texts(opts, n) \ {Nothing} : kind' = WithChildren(n, ks)
  /\ win' = UCT!Credited(win, n)
  /\ visits' = Visited(n)
  /\ UNCHANGED <<checked, answer, failed, status>>

(* The policy leaves none.  The failure is counted and so is the visit,    *)
(* but n itself is as unvisited as before.                                 *)
ExpandNothing(n) ==
  /\ Round(n) /\ IsExpandable(n)
  /\ Nothing \in Texts(opts, n)
  /\ win' = UCT!Credited(win, n)
  /\ visits' = Visited(n)
  /\ failed' = failed + 1
  /\ UNCHANGED <<kind, checked, answer, status>>

(* Policy or evaluator raise, the latter when the children are there.      *)
ExpandRaises(n) ==
  /\ Round(n) /\ IsExpandable(n)
  /\ \/ PolicyMayRaise(opts.policy) /\ UNCHANGED kind
     \/ \E ks \in Texts(opts, n) \ {Nothing} :
          ScoringMayRaise(opts, ks) /\ kind' = WithChildren(n, ks)
  /\ status' = IF opts.async THEN "running" ELSE "stopped"
  /\ failed' = IF opts.async THEN failed + 1 ELSE failed
  /\ UNCHANGED <<win, visits, checked, answer>>

(* The budget is used up, or the time limit has passed.                    *)
Return ==
  /\ status = "running"
  /\ status' = "stopped"
  /\ iter' \in {iter, iter + 1} /\ iter' <= ExpansionCount
  /\ UNCHANGED <<kind, opts, win, visits, checked, answer, failed>>

Next ==
  \/ Return
  \/ \E n \in Node :
       Solve(n) \/ Refuse(n) \/ Stall(n) \/ Expand(n) \/ ExpandNothing(n)
       \/ ExpandRaises(n)

-----------------------------------------------------------------------------
(* Properties.                                                             *)

TypeOK ==
  /\ TreeShape
  /\ opts \in MCTSSetup
  /\ win \in [Node -> {UCT!Finite, UCT!NegInf}]
  /\ visits \in [Node -> Nat]
  /\ checked \subseteq Node
  /\ answer \in Node \union {NoAnswer}
  /\ iter \in 0..ExpansionCount
  /\ failed \in Nat
  /\ status \in {"running", "solved", "stopped"}

(* The visits of a node are the expansions below it: as long as the search *)
(* runs they differ from the nodes with children below it by no more than  *)
(* the expansions that failed (an expansion that raised after its children *)
(* were added is not visited, one that left none is).                      *)
ExpandedBelow(n) == {m \in Present : n \in Ancestors(m) /\ Children(m) # {}}

VisitsCountExpansions ==
  status = "running" =>
    \A n \in Present :
      /\ visits[n] <= Cardinality(ExpandedBelow(n)) + failed
      /\ Cardinality(ExpandedBelow(n)) <= visits[n] + failed

(* A termination node is never visited, so it weighs plus infinity for     *)
(* ever, refused or not: selection does not get past it to a later         *)
(* sibling, and comes back to no earlier sibling.                          *)
ProofBlocksSiblings ==
  \A p \in Present : \A n, m \in Children(p) :
    IsTermination(n) =>
      /\ visits[n] = 0
      /\ Position(n) < Position(m) => visits[m] = 0 /\ Children(m) = {}
      /\ Position(m) < Position(n) => visits[m] <= 1
=============================================================================
