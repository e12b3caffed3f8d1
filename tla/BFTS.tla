-------------------------------- MODULE BFTS --------------------------------
(***************************************************************************)
(* The priority-queue tree search, synchronous and asynchronous            *)
(* (src/treethink/methods/bfts.py), with the expansion of                  *)
(* methods/base_method.py.                                                 *)
(*                                                                         *)
(* One action is one round of the loop of simulate / async_simulate, from  *)
(* the pop to the push of the children; the last one computes best_answer. *)
(***************************************************************************)
EXTENDS SearchTree

CONSTANTS
  ExpansionCount,  \* the expansion_count argument: rounds of the loop
  MaxValue,        \* the evaluator scores children 0..MaxValue
  NoAnswer

ASSUME BFTSAssumption ==
  ExpansionCount \in Nat /\ MaxValue \in Nat /\ NoAnswer \notin Node

VARIABLES
  opts,      \* how the search was set up; never changes
  win,       \* Node.win_value
  frontier,  \* the heap: [node, key], the key fixed when it was pushed
  failed,    \* stats_failed_expansion_count
  checked,   \* nodes the callback was called with
  answer,    \* the node whose path the callback returned, or NoAnswer
  iter,      \* rounds begun
  status,    \* "running", "solved" (CHECKED_AND_TRUE) or "stopped"
  final      \* the node that best_answer computes when unset, or NoAnswer

vars == <<kind, opts, win, frontier, failed, checked, answer, iter, status, final>>

NegInf == -1   \* below every value
Values == 0..MaxValue

(* See RFMCTS: async_expand runs the policy only if it is a coroutine      *)
(* function.  With mode "native" the final choice pops the frontier.       *)
Settings ==
  {o \in [async : BOOLEAN, dedupe : BOOLEAN, awaits : BOOLEAN,
          callback : {"none", "immediate", "batch"},
          mode : {"clear_frontier", "native"}] :
     o.awaits \/ (o.async /\ ~o.dedupe)}

(* Faulty variant: the key is not negated.                                 *)
Pushed_Unsigned(n, w) == [node |-> n, key |-> w[n]]

(* heapq pops the smallest key, so keys are negated values.                *)
Pushed(n, w) == [node |-> n, key |-> -w[n]]

Init ==
  /\ kind = OnlyRoot
  /\ opts \in Settings
  /\ win = [n \in Node |-> 0]
  /\ frontier = {Pushed(Root, win)}
  /\ failed = 0
  /\ checked = {}
  /\ answer = NoAnswer
  /\ iter = 0
  /\ status = "running"
  /\ final = NoAnswer

(* Entries with the smallest key; among them the heap decides by id().     *)
Heads(heap) == {e \in heap : \A f \in heap : e.key <= f.key}

Round(e) ==
  /\ status = "running"
  /\ iter < ExpansionCount
  /\ iter' = iter + 1
  /\ e \in Heads(frontier)
  /\ UNCHANGED <<opts, final>>

-----------------------------------------------------------------------------
(* The proofs a callback may answer with when it is called with n.         *)
(* Faulty variant: the answer is taken from the wrong place in the batch.  *)
Reach(n) == IF opts.callback = "batch" THEN checked \union {n} ELSE {n}

Confirmed_AnyOfBatch(n) ==
  {m \in Reach(n) : \E k \in Reach(n) : kind[k] = "good"}

Confirmed(n) == {m \in Reach(n) : kind[m] = "good"}

Solve(e) ==
  /\ Round(e) /\ opts.callback # "none" /\ IsTermination(e.node)
  /\ frontier' = frontier \ {e}
  /\ checked' = checked \union {e.node}
  /\ answer' \in Confirmed(e.node)
  /\ status' = "solved"
  /\ UNCHANGED <<kind, win, failed>>

(* Faulty variant: the refused node stays at the head of the heap.         *)
Refuse_Peeks(e) ==
  /\ Round(e) /\ opts.callback # "none" /\ IsTermination(e.node)
  /\ checked' = checked \union {e.node}
  /\ UNCHANGED <<kind, win, frontier, failed, answer, status>>

(* The callback answers None; a batching one that has flushed may have put *)
(* minus infinity on nodes it was called with.                             *)
Refuse(e) ==
  /\ Round(e) /\ opts.callback # "none" /\ IsTermination(e.node)
  /\ frontier' = frontier \ {e}
  /\ checked' = checked \union {e.node}
  /\ \E S \in IF opts.callback = "batch" THEN SUBSET checked' ELSE {{}} :
       win' = [n \in Node |-> IF n \in S THEN NegInf ELSE win[n]]
  /\ UNCHANGED <<kind, failed, answer, status>>

(* No callback: a termination node is only dropped.                        *)
Skip(e) ==
  /\ Round(e) /\ opts.callback = "none" /\ IsTermination(e.node)
  /\ frontier' = frontier \ {e}
  /\ UNCHANGED <<kind, win, failed, checked, answer, status>>

(* What expansion pushes, once the children are scored.                    *)
(* Faulty variants: children of value zero are left out; children are      *)
(* pushed under the value they had before.                                 *)
Pushes_SkipsZero(born, w) == {Pushed(c, w) : c \in {d \in born : w[d] > 0}}
Pushes_Unscored(born, w)  == {Pushed(c, win) : c \in born}

Pushes(born, w) == {Pushed(c, w) : c \in born}

(* The policy adds children, the evaluator scores them, all of them are    *)
(* pushed.  The time limit is looked at now.                               *)
Expand(e) ==
  /\ Round(e) /\ IsExpandable(e.node) /\ opts.awaits
  /\ \E ks \in Samples(e.node, opts.dedupe) :
       /\ kind' = WithChildren(e.node, ks)
       /\ LET born == {c \in Node : kind'[c] # kind[c]} IN
          \E score \in [born -> Values] :
            /\ win' = [n \in Node |-> IF n \in born THEN score[n] ELSE win[n]]
            /\ frontier' = (frontier \ {e}) \union Pushes(born, win')
  /\ status' \in {"running", "stopped"}
  /\ UNCHANGED <<failed, checked, answer>>

(* The policy leaves no child: the node is gone from the frontier.         *)
ExpandNothing(e) ==
  /\ Round(e) /\ IsExpandable(e.node)
  /\ frontier' = frontier \ {e}
  /\ failed' = failed + 1
  /\ status' \in {"running", "stopped"}
  /\ UNCHANGED <<kind, win, checked, answer>>

(* The children that are there when expansion does not go on.  The         *)
(* asynchronous expand_rm_dupes awaits whatever the policy returns, the    *)
(* None of a synchronous one too, before it drops duplicates.              *)
LeftBehind(n) == Samples(n, opts.dedupe /\ ~opts.async)

(* The policy raises, or the evaluator when the children are there: they   *)
(* are not pushed.                                                         *)
ExpandRaises(e) ==
  /\ Round(e) /\ IsExpandable(e.node)
  /\ frontier' = frontier \ {e}
  /\ \/ opts.awaits
        /\ \E ks \in LeftBehind(e.node) : kind' = WithChildren(e.node, ks)
     \/ UNCHANGED kind
  /\ IF opts.async THEN status' = "running" /\ failed' = failed + 1
                   ELSE status' = "stopped" /\ failed' = failed
  /\ UNCHANGED <<win, checked, answer>>

LoopEnds ==
  /\ status = "running"
  /\ iter = ExpansionCount \/ frontier = {}
  /\ status' = "stopped"
  /\ UNCHANGED <<kind, opts, win, frontier, failed, checked, answer, iter, final>>

(* best_answer when no proof was verified: the head of a frontier rebuilt  *)
(* from all leaves, or of the frontier as it is, and the root when that is *)
(* empty.                                                                  *)
BestAnswer ==
  /\ status = "stopped" /\ final = NoAnswer
  /\ LET heap == IF opts.mode = "clear_frontier"
                 THEN {Pushed(n, win) : n \in Leaves} ELSE frontier
     IN  \/ \E e \in Heads(heap) : final' = e.node /\ frontier' = heap \ {e}
         \/ heap = {} /\ final' = Root /\ UNCHANGED frontier
  /\ UNCHANGED <<kind, opts, win, failed, checked, answer, iter, status>>

Next ==
  \/ LoopEnds \/ BestAnswer
  \/ \E e \in frontier :
       Solve(e) \/ Refuse(e) \/ Skip(e) \/ Expand(e) \/ ExpandNothing(e)
       \/ ExpandRaises(e)

Spec == Init /\ [][Next]_vars

-----------------------------------------------------------------------------
(* Properties.                                                             *)

(* Every variable keeps its type and the nodes form a tree.                *)
TypeOK ==
  /\ TreeShape
  /\ opts \in Settings
  /\ win \in [Node -> Values \union {NegInf}]
  /\ frontier \subseteq [node : Node, key : {-v : v \in Values \union {NegInf}}]
  /\ failed \in Nat
  /\ checked \subseteq Node
  /\ answer \in Node \union {NoAnswer}
  /\ iter \in 0..ExpansionCount
  /\ status \in {"running", "solved", "stopped"}
  /\ final \in Node \union {NoAnswer}

Queued == {e.node : e \in frontier}

(* Leaves that will not get their turn: they do not wait in the frontier   *)
(* and were not handed to the callback.  (A termination node met without a *)
(* callback is dropped on purpose.)                                        *)
Missing ==
  {n \in Leaves : /\ n \notin Queued /\ n \notin checked
                  /\ ~(IsTermination(n) /\ opts.callback = "none")}

(* What is lost is counted: a failed expansion costs the search its node,  *)
(* or the children it has just made, and nothing else is ever missing, so  *)
(* there are stats_failed_expansion_count nodes that explain all of it.    *)
LossesAreCounted ==
  status # "stopped" =>
    \E F \in SUBSET Node :
      /\ Cardinality(F) <= failed
      /\ \A n \in Missing : \E f \in F : n = f \/ IsChildOf(n, f)

(* A node waits once, and not after its turn: what is in the frontier is a *)
(* leaf that the callback has not seen, under the value it has now.        *)
FrontierIsFresh ==
  status # "stopped" =>
    /\ \A e, f \in frontier : e.node = f.node => e = f
    /\ \A e \in frontier :
         e.node \in Leaves /\ e.node \notin checked /\ e.key = -win[e.node]

(* Best first: with no failure so far, the node that gets children has the *)
(* highest value of all nodes that could get them.                         *)
ExpandsBest ==
  \A n \in Node :
    IsExpandable(n) /\ ~IsExpandable(n)' /\ failed = 0 =>
      \A m \in Node : IsExpandable(m) => win[m] <= win[n]

BestFirst == [][ExpandsBest]_vars

(* The search is one that every caller of simulate may expect; a node is   *)
(* handed to the callback once although BFTS keeps no list of them.        *)
Contract == INSTANCE TreeSearch WITH
  NoAnswer <- NoAnswer, kind <- kind, checked <- checked,
  answer <- answer, status <- status

ContractSpec == Contract!Spec

(* "Explores the tree level by level. At each level, all nodes are         *)
(* expanded before moving deeper" (docs/methods.md): no node gets children *)
(* while a higher one still could.  The code does not keep this.           *)
LevelByLevel ==
  [][\A n \in Node : IsExpandable(n) /\ ~IsExpandable(n)' /\ failed = 0 =>
       \A m \in Node : IsExpandable(m) => Len(n) <= Len(m)]_vars

(* "Failed nodes are penalised with win_value = float("-inf") just as the  *)
(* immediate-send path does" (repl_runtime.py): a proof that the callback  *)
(* refused is not the final answer as long as another leaf is there.  The  *)
(* immediate path of this search does not penalise.                        *)
RefusedIsNotFinal ==
  opts.callback = "immediate" /\ opts.mode = "clear_frontier" /\ final \in checked
    => Leaves \subseteq checked
=============================================================================
