----------------------------- MODULE Evaluators -----------------------------
(***************************************************************************)
(* The evaluators: the win values they can give to the children of a node  *)
(* (src/treethink/evaluators.py and async_evaluators.py).                  *)
(*                                                                         *)
(* A search compares values and adds them, so a value is a rank: an        *)
(* integer from 0, the worst, to MaxScore, the best.  Half of MaxScore is  *)
(* the neutral ten points out of twenty.  What is given is a function from *)
(* the positions of the children to values; ks are their texts.            *)
(***************************************************************************)
EXTENDS SearchTree, Tournament

CONSTANT MaxScore

ASSUME ScoreAssumption == MaxScore \in Nat /\ MaxScore > MaxChildren

Score == 0..MaxScore

Unscored(ks) == [i \in DOMAIN ks |-> 0]

(* Log-probabilities of the texts, any of which may be missing: such a     *)
(* child keeps the value zero it was made with, the best of all.           *)
LogprobEvaluator(ks) == [DOMAIN ks -> Score]

(* Exponentials are positive; zero only if some output is missing.         *)
ProbEvaluator(ks) == [DOMAIN ks -> Score \ {0}] \union {Unscored(ks)}

(* Log-probabilities of the whole path over a power of its length.         *)
NormLenEvaluator(ks) == [DOMAIN ks -> Score]

NormLenProbEvaluator(ks) == [DOMAIN ks -> Score \ {0}]

(* What a check of the proofs below the children brings: as many results   *)
(* as the service returned, none after an exception.  A finished proof     *)
(* gets its verdict; a step on the way may be a proof by itself.           *)
Replies(ks) ==
  {r \in UNION {[1..k -> {"right", "wrong", "unreadable"}] : k \in 0..Len(ks)} :
     \A i \in DOMAIN r : /\ r[i] = "right" => ks[i] # "bad"
                         /\ r[i] = "wrong" => ks[i] # "good"}

Right(r, ks) ==
  [i \in DOMAIN ks |-> IF i \in DOMAIN r /\ r[i] = "right" THEN MaxScore ELSE 0]

(* A result that is missing or cannot be read counts as wrong.             *)
REPLEvaluator(ks) == {Right(r, ks) : r \in Replies(ks)}

(* One try block around all: as soon as one result cannot be read, every   *)
(* child gets zero.                                                        *)
AsyncREPLEvaluator(ks) ==
  {IF "unreadable" \in Range(r) THEN Unscored(ks) ELSE Right(r, ks) : r \in Replies(ks)}

(* Ten of the judge's twenty points.                                       *)
Neutral == MaxScore \div 2

(* The children whose answer is a placeholder: all when the model raises,  *)
(* else those for which it returned nothing that can be read.              *)
Unanswered(ks) == SUBSET DOMAIN ks

(* The points of the judge, clamped, or the neutral ones: all children are *)
(* judged in one call of the model, each answer is read for itself.        *)
JudgeEvaluator(ks) ==
  {[i \in DOMAIN ks |-> IF i \in failed THEN Neutral ELSE p[i]] :
     p \in [DOMAIN ks -> Score], failed \in Unanswered(ks)}

(* A request for each child; it fails for itself.                          *)
AsyncJudgeEvaluator(ks) == JudgeEvaluator(ks)

(* Elimination rounds as a share of the winner's.                          *)
Share(s, n) == [i \in 1..n |-> (s[i] * MaxScore) \div (Rounds(n) + 1)]

TournamentEvaluator(ks) == {Share(s, Len(ks)) : s \in Ranking(Len(ks))}

(* One call of the model for each pair of a round instead of one for all.  *)
AsyncTournamentEvaluator(ks) == TournamentEvaluator(ks)

(* MaxScore for a proof text that is new in this tree.  Children with the  *)
(* same text are new once.                                                 *)
RMaxTSEvaluator(ks) ==
  {s \in [DOMAIN ks -> {0, MaxScore}] :
     \A i, j \in DOMAIN ks :
       i < j /\ ks[i] = ks[j] /\ ks[i] # "step" => s[j] = 0}

(* The reward model's number for the proof or for the step.                *)
RewardModelEvaluator(ks) == [DOMAIN ks -> Score]

(* The classes that configurations of a synchronous and of an asynchronous *)
(* search can name.  Nothing names ProbEvaluator: it is given as an object.*)
EvaluatorType ==
  {"logprob", "normlen", "normlen_prob", "repl", "judge", "tournament",
   "rmaxts", "reward"}

EvaluatorName == EvaluatorType \union {"prob"}

AsyncEvaluatorType == EvaluatorType

Scores(e, ks) ==
  CASE e = "logprob"      -> LogprobEvaluator(ks)
    [] e = "prob"         -> ProbEvaluator(ks)
    [] e = "normlen"      -> NormLenEvaluator(ks)
    [] e = "normlen_prob" -> NormLenProbEvaluator(ks)
    [] e = "repl"         -> REPLEvaluator(ks)
    [] e = "judge"        -> JudgeEvaluator(ks)
    [] e = "tournament"   -> TournamentEvaluator(ks)
    [] e = "rmaxts"       -> RMaxTSEvaluator(ks)
    [] e = "reward"       -> RewardModelEvaluator(ks)

(* The twins compute the same from answers that came one by one.           *)
AsyncScores(e, ks) ==
  CASE e = "repl"       -> AsyncREPLEvaluator(ks)
    [] e = "judge"      -> AsyncJudgeEvaluator(ks)
    [] e = "tournament" -> AsyncTournamentEvaluator(ks)
    [] OTHER            -> Scores(e, ks)

(* Missing log-probabilities cannot be exponentiated or added, the proof   *)
(* state and the number in a judge's answer are read outside of any try    *)
(* block, and so is the reward model.  The others answer whatever happens. *)
EvaluatorMayRaise(e) == e \notin {"logprob", "repl", "rmaxts"}
=============================================================================
