------------------------------ MODULE Expansion ------------------------------
(***************************************************************************)
(* The expansion that BeamSearch inherits: expand, expand_rm_dupes and     *)
(* their asynchronous twins in src/treethink/methods/base_method.py call   *)
(* the policy, drop duplicates and call the evaluator.  A set-up o says    *)
(* which of the four it is (o.async, o.dedupe) and names the policy and    *)
(* the evaluator.                                                          *)
(***************************************************************************)
EXTENDS Policies, Evaluators

(* The texts left on node n when duplicates, if they are unwanted, are     *)
(* gone.                                                                   *)
Texts(o, n) ==
  IF o.dedupe
  THEN Samples(n, TRUE) \union (Generated(o.policy, n) \intersect {Nothing})
  ELSE Generated(o.policy, n)

(* An asynchronous search awaits the values, also the list that a          *)
(* synchronous evaluator returns.                                          *)
AwaitsValues(o) == o.async /\ o.evaluator \notin AsyncEvaluatorType

(* A node without children is not evaluated.                               *)
Values(o, ks) ==
  IF ks = Nothing THEN {Unscored(ks)}
  ELSE IF AwaitsValues(o) THEN {}
  ELSE IF o.async THEN AsyncScores(o.evaluator, ks)
  ELSE Scores(o.evaluator, ks)

Outcome(ks, s, r) == [texts |-> ks, score |-> s, raised |-> r]

(* Policy and evaluator return.                                            *)
Evaluated(o, n) ==
  UNION {{Outcome(ks, s, FALSE) : s \in Values(o, ks)} : ks \in Texts(o, n)}

(* The evaluator raises: the children are there and have no values.        *)
EvaluatorRaised(o, n) ==
  IF EvaluatorMayRaise(o.evaluator) \/ AwaitsValues(o)
  THEN {Outcome(ks, Unscored(ks), TRUE) : ks \in Texts(o, n) \ {Nothing}}
  ELSE {}

PolicyRaised(o) ==
  IF PolicyMayRaise(o.policy)
  THEN {Outcome(Nothing, Unscored(Nothing), TRUE)}
  ELSE {}

(* async_expand awaits coroutine functions only; a policy object with an   *)
(* asynchronous __call__ is none, and what it returns is thrown away.      *)
Unawaited(o) == o.async /\ ~o.dedupe /\ o.policy \in AsyncPolicy

(* async_expand_rm_dupes awaits whatever the policy returns, also the None *)
(* of a synchronous policy, after its children were added.                 *)
AwaitsNone(o) == o.async /\ o.dedupe /\ o.policy \in SyncPolicy

(* What one expansion of node n may bring about.                           *)
Expansions(o, n) ==
  IF Unawaited(o) THEN {Outcome(Nothing, Unscored(Nothing), FALSE)}
  ELSE IF AwaitsNone(o)
  THEN {Outcome(ks, Unscored(ks), TRUE) : ks \in Generated(o.policy, n)}
         \union PolicyRaised(o)
  ELSE Evaluated(o, n) \union EvaluatorRaised(o, n) \union PolicyRaised(o)
=============================================================================
