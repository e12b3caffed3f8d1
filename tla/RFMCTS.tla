------------------------------- MODULE RFMCTS -------------------------------
(***************************************************************************)
(* Rollout-free Monte-Carlo tree search, synchronous and asynchronous      *)
(* (src/treethink/methods/rf_mcts.py), with UCT selection (_uct.py) and    *)
(* the expansion of methods/base_method.py.                                *)
(*                                                                         *)
(* One action is one round of the loop of simulate / async_simulate.  The  *)
(* real UCT score is abstracted to what decides which children compete: an *)
(* unvisited child weighs plus infinity, a refuted one minus infinity, and *)
(* any other child may win.  Values are therefore Finite or NegInf, and    *)
(* NegInf absorbs when values are added, as in floating point.             *)
(***************************************************************************)
EXTENDS SearchTree

CONSTANTS
  ExpansionCount,  \* the expansion_count argument: rounds of the loop
  NoAnswer

ASSUME RFMCTSAssumption == ExpansionCount \in Nat /\ NoAnswer \notin Node

VARIABLES
  opts,      \* how the search was set up; never changes
  win,       \* Node.win_value
  visits,    \* Node.visits
  checked,   \* termination_checked_nodes
  answer,    \* the node whose path is best_answer, or NoAnswer
  iter,      \* rounds begun
  status,    \* "running", "solved" (CHECKED_AND_TRUE) or "stopped"
  final      \* the node that best_answer computes when unset, or NoAnswer

vars == <<kind, opts, win, visits, checked, answer, iter, status, final>>

Finite == "finite"
NegInf == "-inf"
Plus(v, w) == IF NegInf \in {v, w} THEN NegInf ELSE Finite

(* The final decision modes that are supported.                            *)
Mode == {"native", "maximize_value", "maximize_visits"}

(* async_expand awaits the policy only if it is a coroutine function, and  *)
(* a policy object with an async __call__ is none; every other expansion   *)
(* runs the policy.                                                        *)
Settings ==
  {o \in [async : BOOLEAN, dedupe : BOOLEAN, awaits : BOOLEAN,
          callback : {"none", "immediate", "batch"}, mode : Mode] :
     o.awaits \/ (o.async /\ ~o.dedupe)}

Init ==
  /\ kind = OnlyRoot
  /\ opts \in Settings
  /\ win = [n \in Node |-> Finite]
  /\ visits = [n \in Node |-> 0]
  /\ checked = {}
  /\ answer = NoAnswer
  /\ iter = 0
  /\ status = "running"
  /\ final = NoAnswer

-----------------------------------------------------------------------------
(* Selection.                                                              *)

Fresh(n) == {c \in Children(n) : visits[c] = 0}
Live(n)  == {c \in Children(n) : win[c] # NegInf}

FirstOf(c, S) == c \in S /\ \A d \in S : Position(c) <= Position(d)

(* Faulty variant: an unvisited child weighs like any other.               *)
BestChild_NoPriority(c, n) ==
  IF Live(n) # {} THEN c \in Live(n) ELSE FirstOf(c, Children(n))

(* best_child_uct may return c for node n: argmax takes the first of the   *)
(* children with an infinite weight, and of those at minus infinity.       *)
BestChild(c, n) ==
  IF Fresh(n) # {} THEN FirstOf(c, Fresh(n))
  ELSE IF Live(n) # {} THEN c \in Live(n)
  ELSE FirstOf(c, Children(n))

Toward(m, n) == SubSeq(n, 1, Len(m) + 1)   \* the child of m on the way to n

(* make_choice may end at leaf n.                                          *)
Selected(n) ==
  /\ n \in Leaves
  /\ \A m \in Ancestors(n) : BestChild(Toward(m, n), m)

-----------------------------------------------------------------------------
(* Faulty variant: the walk up stops below the root.                       *)
Visited_SkipsRoot(n) ==
  [m \in Node |-> IF OnPathTo(m, n) /\ m # Root THEN visits[m] + 1 ELSE visits[m]]

(* Backpropagation from n: one visit for n and every ancestor, the value   *)
(* of n added to every ancestor.                                           *)
Visited(n) ==
  [m \in Node |-> IF OnPathTo(m, n) THEN visits[m] + 1 ELSE visits[m]]

Credited(w, n) ==
  [m \in Node |-> IF OnPathTo(m, n) /\ m # n THEN Plus(w[m], w[n]) ELSE w[m]]

(* A round that begins within the budget and selects n.                    *)
Round(n) ==
  /\ status = "running"
  /\ iter < ExpansionCount
  /\ iter' = iter + 1
  /\ Selected(n)
  /\ UNCHANGED <<opts, final>>

(* Faulty variant: termination_checked_nodes is not consulted.             *)
ToCheck_Forgets(n) == opts.callback # "none" /\ IsTermination(n)

ToCheck(n) ==
  opts.callback # "none" /\ IsTermination(n) /\ n \notin checked

(* The proofs a callback may answer with when it is called with n: n's own *)
(* or, from a batching callback, that of any node handed over so far.      *)
(* Faulty variant: the answer is taken from the wrong place in the batch.  *)
Reach(n) == IF opts.callback = "batch" THEN checked \union {n} ELSE {n}

Confirmed_AnyOfBatch(n) ==
  {m \in Reach(n) : \E k \in Reach(n) : kind[k] = "good"}

Confirmed(n) == {m \in Reach(n) : kind[m] = "good"}

(* The loop ends when the callback answers with a proof.                   *)
(* Faulty variant: it does not.                                            *)
Solve_NoBreak(n) ==
  /\ Round(n) /\ ToCheck(n)
  /\ checked' = checked \union {n}
  /\ answer' \in Confirmed(n)
  /\ UNCHANGED <<kind, win, visits, status>>

Solve(n) ==
  /\ Round(n) /\ ToCheck(n)
  /\ checked' = checked \union {n}
  /\ answer' \in Confirmed(n)
  /\ status' = "solved"
  /\ UNCHANGED <<kind, win, visits>>

(* The value of n counts as zero for its ancestors and is minus infinity   *)
(* from then on.  Faulty variant: minus infinity comes first.              *)
Penalised_TooEarly(n) == Credited([win EXCEPT ![n] = NegInf], n)

Penalised(n) == [Credited([win EXCEPT ![n] = Finite], n) EXCEPT ![n] = NegInf]

(* The callback answers None: a wrong proof, an unreachable proof          *)
(* assistant, or a proof that waits in the batch.  All count as wrong.     *)
Refute(n) ==
  /\ Round(n) /\ ToCheck(n)
  /\ checked' = checked \union {n}
  /\ win' = Penalised(n)
  /\ visits' = Visited(n)
  /\ UNCHANGED <<kind, answer, status>>

(* The policy adds children and the evaluator scores them.                 *)
Expand(n) ==
  /\ Round(n) /\ IsExpandable(n) /\ opts.awaits
  /\ \E ks \in Samples(n, opts.dedupe) : kind' = WithChildren(n, ks)
  /\ win' = Credited(win, n)
  /\ visits' = Visited(n)
  /\ UNCHANGED <<checked, answer, status>>

(* The policy leaves no child; the visit is counted all the same.          *)
ExpandNothing(n) ==
  /\ Round(n) /\ IsExpandable(n)
  /\ win' = Credited(win, n)
  /\ visits' = Visited(n)
  /\ UNCHANGED <<kind, checked, answer, status>>

(* The children that are there when it does not go on.  The asynchronous   *)
(* expand_rm_dupes awaits whatever the policy returns, the None of a       *)
(* synchronous one too, before it drops duplicates.                        *)
LeftBehind(n) == Samples(n, opts.dedupe /\ ~opts.async)

(* The policy raises, or the evaluator does when the children are there.   *)
(* The asynchronous loop counts a failure and goes on without a visit; out *)
(* of the synchronous one the exception escapes.                           *)
ExpandRaises(n) ==
  /\ Round(n) /\ IsExpandable(n)
  /\ \/ opts.awaits /\ \E ks \in LeftBehind(n) : kind' = WithChildren(n, ks)
     \/ UNCHANGED kind
  /\ status' = IF opts.async THEN "running" ELSE "stopped"
  /\ UNCHANGED <<win, visits, checked, answer>>

(* The node was handed over before, or there is no callback: the round     *)
(* does nothing.                                                           *)
Stall(n) ==
  /\ Round(n) /\ IsTermination(n) /\ ~ToCheck(n)
  /\ UNCHANGED <<kind, win, visits, checked, answer, status>>

(* The budget is used up, or the time limit has passed.                    *)
Return ==
  /\ status = "running"
  /\ status' = "stopped"
  /\ iter' \in {iter, iter + 1} /\ iter' <= ExpansionCount
  /\ UNCHANGED <<kind, opts, win, visits, checked, answer, final>>

-----------------------------------------------------------------------------
(* The final decision.                                                     *)

(* max over (visits, win_value): the first of those it does not tell       *)
(* apart.  Faulty variant: the values are not compared.                    *)
MostVisited_NoTieBreak(c, n) ==
  c \in Children(n) /\ \A d \in Children(n) : visits[d] <= visits[c]

MostVisited(c, n) ==
  LET most == {d \in Children(n) : \A e \in Children(n) : visits[e] <= visits[d]} IN
  IF most \intersect Live(n) # {} THEN c \in most \intersect Live(n)
  ELSE FirstOf(c, most)

(* The mode decides which child the walk down from the root takes.  Native *)
(* and by value it is UCT's, without its exploration term in the latter    *)
(* case, which leaves the weight of an unvisited child infinite.           *)
Decided(n) ==
  IF opts.mode = "maximize_visits"
  THEN n \in Leaves /\ \A m \in Ancestors(n) : MostVisited(Toward(m, n), m)
  ELSE Selected(n)

(* best_answer when no proof was verified.                                 *)
BestAnswer ==
  /\ status = "stopped" /\ final = NoAnswer
  /\ \E n \in Node : Decided(n) /\ final' = n
  /\ UNCHANGED <<kind, opts, win, visits, checked, answer, iter, status>>

Next ==
  \/ Return \/ BestAnswer
  \/ \E n \in Node :
       Solve(n) \/ Refute(n) \/ Expand(n) \/ ExpandNothing(n)
       \/ ExpandRaises(n) \/ Stall(n)

Spec == Init /\ [][Next]_vars

-----------------------------------------------------------------------------
(* Properties.                                                             *)

(* Every variable keeps its type and the nodes form a tree.                *)
TypeOK ==
  /\ TreeShape
  /\ opts \in Settings
  /\ win \in [Node -> {Finite, NegInf}]
  /\ visits \in [Node -> Nat]
  /\ checked \subseteq Node
  /\ answer \in Node \union {NoAnswer}
  /\ iter \in 0..ExpansionCount
  /\ status \in {"running", "solved", "stopped"}
  /\ final \in Node \union {NoAnswer}

(* A node is visited at least as often as any of its descendants, so the   *)
(* logarithm and the quotient in best_child_uct are of numbers >= 1        *)
(* whenever a visited child is scored, whatever expansions failed between. *)
VisitsMonotone ==
  \A m, n \in Node : OnPathTo(m, n) => visits[n] <= visits[m]

(* The visits that reached n through one of its children, each by itself.  *)
Through(n) == UNION {{c} \X (1..visits[c]) : c \in Children(n)}

(* Backpropagation counts every visit of a child in its parent exactly     *)
(* once: the visits of all children together are no more than those of the *)
(* parent, so none is lost on the way to the root.                         *)
VisitFlow == \A n \in Present : Cardinality(Through(n)) <= visits[n]

(* Minus infinity marks exactly the refuted proofs: it stays on the        *)
(* termination node that the callback refused and never reaches an         *)
(* ancestor, although the same routine adds the node's value to all of     *)
(* them (simulate lowers the value only after backpropagating).            *)
RefutationIsLocal ==
  /\ \A n \in Node : win[n] = NegInf => IsTermination(n) /\ n \in checked
  /\ \A n \in checked : win[n] = NegInf \/ status = "solved"

(* "Unvisited children receive infinite weight and are always explored     *)
(* first" (_uct.py): no child is visited twice before each of its siblings *)
(* was visited once, and siblings get their first visit in order, in spite *)
(* of failed expansions and refuted proofs.                                *)
UnvisitedFirst ==
  \A n \in Present : \A c, d \in Children(n) :
    /\ visits[c] >= 2 => visits[d] >= 1
    /\ visits[c] >= 1 /\ Position(d) < Position(c) => visits[d] >= 1

(* A proof is sent to the proof assistant at most once, and a node that    *)
(* was refuted collects no further visit and no other value: later rounds  *)
(* that end at it change nothing.                                          *)
KeepsRefuted ==
  \A n \in Node : win[n] = NegInf => win'[n] = NegInf /\ visits'[n] = visits[n]

RefutedStaysRefuted == [][KeepsRefuted]_vars

(* A proof that was refuted is the computed answer only when every sibling *)
(* that the search has visited was refuted too, in whatever mode.  Visits  *)
(* alone cannot tell them apart: a refuted proof has one, like a sibling   *)
(* that was expanded once.  Where UCT decides every sibling was refuted;   *)
(* by visits there may be some that the search did not come to.            *)
RefutedIsLastResort ==
  \A p \in Node : \A n, m \in Children(p) :
    final = n /\ win[n] = NegInf =>
      win[m] = NegInf \/ (opts.mode = "maximize_visits" /\ visits[m] = 0)

(* simulate reports CHECKED_AND_TRUE only with a proof that was handed to  *)
(* the callback and is correct.                                            *)
SolvedByVerifiedProof ==
  /\ status = "solved" <=> answer # NoAnswer
  /\ status = "solved" => answer \in checked /\ kind[answer] = "good"

(* The search is one that every caller of simulate may expect.             *)
Contract == INSTANCE TreeSearch WITH
  NoAnswer <- NoAnswer, kind <- kind, checked <- checked,
  answer <- answer, status <- status

ContractSpec == Contract!Spec

(* "...and set node's win_value to -inf to avoid selecting it again"       *)
(* (rf_mcts.py): while some leaf can still be expanded, selection does not *)
(* end at a refuted proof.  The code does not keep this.                   *)
RefutedNotReselected ==
  \A n \in Node :
    win[n] = NegInf /\ status = "running" /\ (\E m \in Node : IsExpandable(m))
      => ~Selected(n)
=============================================================================
