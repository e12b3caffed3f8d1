-------------------------------- MODULE Beam --------------------------------
(***************************************************************************)
(* Beam search, synchronous and asynchronous                               *)
(* (src/treethink/methods/beam.py).                                        *)
(*                                                                         *)
(* One action deals with one node of the beam or ends a layer.  The        *)
(* synchronous search probes or expands the nodes of the beam in order.    *)
(* The asynchronous one first probes all of its termination nodes, then    *)
(* expands the others concurrently; an expansion touches only the children *)
(* of its own node, and nobody reads them before the layer ends, so it is  *)
(* one step that may come at any time.                                     *)
(***************************************************************************)
EXTENDS Expansion

CONSTANTS
  ExpansionCount,  \* the expansion_count argument: layers of the loop
  DefaultWidth,    \* the beam_width of a constructor that is given none
  NoAnswer

VARIABLES
  opts,      \* how the search was set up; never changes
  win,       \* Node.win_value
  beam,      \* _current_beam; empty when it is [None]
  todo,      \* nodes of the beam this layer has still to deal with
  checked,   \* nodes the callback was called with
  answer,    \* the node whose path the callback returned, or NoAnswer
  iter,      \* _last_depth: layers done
  failed,    \* stats_failed_expansion_count
  status     \* "running", "solved" (CHECKED_AND_TRUE) or "stopped"

vars == <<kind, opts, win, beam, todo, checked, answer, iter, failed, status>>

NegInf == -1   \* below every value

BeamSetup ==
  [method : {"BeamSearch"}, async : BOOLEAN, dedupe : BOOLEAN,
   callback : {"none", "immediate", "batch"},
   policy : SyncPolicy \union AsyncPolicy, evaluator : EvaluatorName,
   width : 1..DefaultWidth, tie : {"random", "first"}, reset : BOOLEAN,
   rooted : BOOLEAN]   \* the constructor is given the root

(* BaseMethod.reset calls the constructor with root, policy and evaluator, *)
(* so width and tie breaker are the defaults from then on.                 *)
Width(o) == IF o.reset THEN DefaultWidth ELSE o.width
TieBreaker(o) == IF o.reset THEN "random" ELSE o.tie

(* Nodes of a beam that a layer has work with.                             *)
Due(b) ==
  IF opts.async THEN {n \in ToSet(b) : IsExpandable(n)} ELSE ToSet(b)

(* set_root_node puts the root into the beam and returns nothing.  A       *)
(* constructor that is given the root calls it, takes that None for the    *)
(* root and builds the beam [None] from it.                                *)
Init ==
  /\ kind = OnlyRoot
  /\ win = [n \in Node |-> 0]
  /\ beam = IF opts.rooted THEN << >> ELSE <<Root>>
  /\ todo = ToSet(beam)
  /\ checked = {}
  /\ answer = NoAnswer
  /\ iter = 0
  /\ failed = 0
  /\ status = "running"

-----------------------------------------------------------------------------
(* The children of the beam's nodes, in the order of the beam.             *)
Candidates == {c \in Present : \E n \in ToSet(beam) : IsChildOf(c, n)}

Place(c) == CHOOSE i \in DOMAIN beam : IsChildOf(c, beam[i])

Earlier(c, d) ==
  Place(c) < Place(d) \/ (Place(c) = Place(d) /\ Position(c) < Position(d))

(* c comes before d when the candidates are sorted.  Equal values are      *)
(* ordered by a random jitter, or keep their order.                        *)
(* Faulty variant: the worst come first.                                   *)
Before_Ascending(c, d) == win[c] < win[d]

Before(c, d) ==
  \/ win[c] > win[d]
  \/ win[c] = win[d] /\ TieBreaker(opts) = "first" /\ Earlier(c, d)

Least(i, j) == IF i <= j THEN i ELSE j

(* The beams that _select_top_k may return.                                *)
TopK(S, k) ==
  {b \in [1..Least(k, Cardinality(S)) -> S] :
     /\ \A i, j \in DOMAIN b : i < j => b[i] # b[j] /\ ~Before(b[j], b[i])
     /\ \A c \in S \ ToSet(b) : \A i \in DOMAIN b : ~Before(c, b[i])}

-----------------------------------------------------------------------------
(* n is the foremost of the nodes in S.                                    *)
IsFirst(n, S) ==
  n \in S /\ \A m \in S : \A i, j \in DOMAIN beam :
               beam[i] = n /\ beam[j] = m => i <= j

(* Termination nodes of the beam that the asynchronous search has still to *)
(* hand over.                                                              *)
Unprobed ==
  IF opts.callback = "none" THEN {}
  ELSE {n \in ToSet(beam) : IsTermination(n)} \ checked

(* The node the search hands to the callback next.                         *)
Probes(n) ==
  /\ status = "running"
  /\ opts.callback # "none" /\ IsTermination(n)
  /\ IsFirst(n, IF opts.async THEN Unprobed ELSE todo)
  /\ checked' = checked \union {n}

(* Faulty variant: the answer is taken from the wrong place in the batch.  *)
Reach(n) == IF opts.callback = "batch" THEN checked \union {n} ELSE {n}

Confirmed_AnyOfBatch(n) ==
  {m \in Reach(n) : \E k \in Reach(n) : kind[k] = "good"}

Confirmed(n) == {m \in Reach(n) : kind[m] = "good"}

(* Success.  The synchronous search leaves the loop over the beam only: it *)
(* goes on with the children it has and may set best_answer again.         *)
(* Faulty variant: the asynchronous one does the same.                     *)
Solve_GoesOn(n) ==
  /\ Probes(n)
  /\ answer' \in Confirmed(n)
  /\ todo' = {}
  /\ UNCHANGED <<kind, opts, win, beam, iter, failed, status>>

Solve(n) ==
  /\ Probes(n)
  /\ answer' \in Confirmed(n)
  /\ todo' = {}
  /\ status' = IF opts.async THEN "solved" ELSE "running"
  /\ UNCHANGED <<kind, opts, win, beam, iter, failed>>

(* The callback answers None; a batching one that has flushed may have put *)
(* minus infinity on nodes it was called with.                             *)
Refuse(n) ==
  /\ Probes(n)
  /\ todo' = todo \ {n}
  /\ \E S \in IF opts.callback = "batch" THEN SUBSET checked' ELSE {{}} :
       win' = [m \in Node |-> IF m \in S THEN NegInf ELSE win[m]]
  /\ UNCHANGED <<kind, opts, beam, answer, iter, failed, status>>

(* Without a callback a termination node is passed over.                   *)
Skip(n) ==
  /\ status = "running" /\ ~opts.async /\ IsFirst(n, todo)
  /\ opts.callback = "none" /\ IsTermination(n)
  /\ todo' = todo \ {n}
  /\ UNCHANGED <<kind, opts, win, beam, checked, answer, iter, failed, status>>

Expands(n) ==
  /\ status = "running" /\ n \in todo /\ IsExpandable(n)
  /\ IF opts.async THEN Unprobed = {} ELSE IsFirst(n, todo)
  /\ todo' = todo \ {n}

(* Children get the win values that the evaluator gave.                    *)
Valued(n, out) ==
  [m \in Node |->
     IF IsChildOf(m, n) /\ Position(m) \in DOMAIN out.score
     THEN out.score[Position(m)]
     ELSE win[m]]

(* A node gets its children, or fails to.  An exception is caught and      *)
(* counted by the asynchronous search, and ends the synchronous one.       *)
Expand(n) ==
  /\ Expands(n)
  /\ \E out \in Expansions(opts, n) :
       /\ kind' = WithChildren(n, out.texts)
       /\ win' = Valued(n, out)
       /\ failed' = IF (out.raised /\ opts.async) \/ (~out.raised /\ out.texts = Nothing)
                    THEN failed + 1 ELSE failed
       /\ status' = IF out.raised /\ ~opts.async THEN "stopped" ELSE status
  /\ UNCHANGED <<opts, beam, checked, answer, iter>>

(* The time limit passes within a layer of the synchronous search: the     *)
(* rest of the beam is dropped.  The clock starts again with every layer,  *)
(* so the search itself goes on.                                           *)
TimeUp ==
  /\ status = "running" /\ ~opts.async /\ todo # {}
  /\ todo' = {}
  /\ UNCHANGED <<kind, opts, win, beam, checked, answer, iter, failed, status>>

(* The asynchronous search looks at its one clock between layers.          *)
AtLayerStart ==
  todo = Due(beam) /\ Candidates = {} /\ ToSet(beam) \intersect checked = {}

Timeout ==
  /\ status = "running" /\ opts.async /\ AtLayerStart
  /\ status' = "stopped"
  /\ UNCHANGED <<kind, opts, win, beam, todo, checked, answer, iter, failed>>

Finished == IF answer = NoAnswer THEN "stopped" ELSE "solved"

LayerDone ==
  /\ status = "running" /\ beam # << >>
  /\ todo = {} /\ (opts.async => Unprobed = {})

(* The best children are the next beam.                                    *)
EndLayer ==
  /\ LayerDone /\ Candidates # {} /\ iter < ExpansionCount
  /\ beam' \in TopK(Candidates, Width(opts))
  /\ todo' = Due(beam')
  /\ iter' = iter + 1
  /\ UNCHANGED <<kind, opts, win, checked, answer, failed>>
  /\ status' = IF iter' = ExpansionCount THEN Finished ELSE status

(* No child anywhere: the old beam stays.                                  *)
EndSearch ==
  /\ LayerDone /\ Candidates = {}
  /\ status' = Finished
  /\ UNCHANGED <<kind, opts, win, beam, todo, checked, answer, iter, failed>>

(* The None in the beam has no attributes: the search raises on it.        *)
NoBeam ==
  /\ status = "running" /\ beam = << >>
  /\ status' = "stopped"
  /\ UNCHANGED <<kind, opts, win, beam, todo, checked, answer, iter, failed>>

Next ==
  \/ TimeUp \/ Timeout \/ EndLayer \/ EndSearch \/ NoBeam
  \/ \E n \in Node : Solve(n) \/ Refuse(n) \/ Skip(n) \/ Expand(n)

-----------------------------------------------------------------------------
(* Properties.                                                             *)

TypeOK ==
  /\ TreeShape
  /\ opts \in BeamSetup
  /\ win \in [Node -> Score \union {NegInf}]
  /\ beam \in Seq(Node) /\ todo \subseteq ToSet(beam)
  /\ checked \subseteq Node
  /\ answer \in Node \union {NoAnswer}
  /\ iter \in 0..ExpansionCount
  /\ failed \in Nat
  /\ status \in {"running", "solved", "stopped"}

(* The beam is the best of its level: as many nodes as fit and no node     *)
(* twice, and no node of the level that was left out beats one that was    *)
(* kept (unless the proof assistant has refused that one since).  Nothing  *)
(* deeper exists but children of the beam.  A search whose constructor was *)
(* given the root has no such beam.                                        *)
BeamHoldsBest ==
  LET level == {n \in Present : Len(n) = iter} IN
  ~opts.rooted =>
    /\ ToSet(beam) \subseteq level
    /\ Cardinality(ToSet(beam)) = Len(beam)
    /\ Len(beam) = Least(Width(opts), Cardinality(level))
    /\ \A n \in level \ ToSet(beam) : \A b \in ToSet(beam) :
         win[b] = NegInf \/ win[n] <= win[b]
    /\ \A n \in Present : Len(n) > iter => \E b \in ToSet(beam) : IsChildOf(n, b)
=============================================================================
