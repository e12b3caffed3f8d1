------------------------------- MODULE Methods -------------------------------
(***************************************************************************)
(* The search methods that get_method can build on the expansion of        *)
(* BaseMethod, each with the policy and the evaluator it was configured    *)
(* with (src/treethink/methods/method_factory.py).  RFMCTS and BFTS have   *)
(* modules and runs of their own.                                          *)
(***************************************************************************)
EXTENDS Expansion

CONSTANTS
  ExpansionCount,  \* rounds or layers of a search
  DefaultWidth,    \* BeamSearch's default beam_width
  NoAnswer,
  Setups           \* the configurations to explore

ASSUME MethodsAssumption ==
  /\ ExpansionCount \in Nat \ {0}
  /\ DefaultWidth \in Nat \ {0}
  /\ NoAnswer \notin Node

VARIABLES
  opts,      \* the configuration; opts.method names the method
  win, visits, beam, todo, checked, answer, iter, failed, status

vars == <<kind, opts, win, visits, beam, todo, checked, answer, iter, failed, status>>

BeamSearch == INSTANCE Beam WITH
  ExpansionCount <- ExpansionCount, DefaultWidth <- DefaultWidth,
  NoAnswer <- NoAnswer, kind <- kind, opts <- opts, win <- win, beam <- beam,
  todo <- todo, checked <- checked, answer <- answer, iter <- iter,
  failed <- failed, status <- status

MCTS == INSTANCE TraditionalMCTS WITH
  ExpansionCount <- ExpansionCount, NoAnswer <- NoAnswer, kind <- kind,
  opts <- opts, win <- win, visits <- visits, checked <- checked,
  answer <- answer, iter <- iter, failed <- failed, status <- status

MethodType == {"BeamSearch", "TraditionalMCTS"}

ASSUME SetupAssumption ==
  Setups \subseteq BeamSearch!BeamSetup \union MCTS!MCTSSetup

(* MethodType.initialize: the class that method_name names is constructed. *)
Init ==
  /\ opts \in Setups
  /\ \/ /\ opts.method = "BeamSearch"
        /\ BeamSearch!Init
        /\ visits = [n \in Node |-> 0]
     \/ /\ opts.method = "TraditionalMCTS"
        /\ MCTS!Init
        /\ beam = <<Root>> /\ todo = {}

Next ==
  \/ /\ opts.method = "BeamSearch"
     /\ BeamSearch!Next
     /\ UNCHANGED visits
  \/ /\ opts.method = "TraditionalMCTS"
     /\ MCTS!Next
     /\ UNCHANGED <<beam, todo>>

Spec == Init /\ [][Next]_vars

-----------------------------------------------------------------------------
(* Properties.                                                             *)

(* Every variable keeps its type, method by method.                        *)
TypeOK ==
  /\ opts \in Setups
  /\ opts.method = "BeamSearch" => BeamSearch!TypeOK
  /\ opts.method = "TraditionalMCTS" => MCTS!TypeOK

(* What a method selects from says what the tree is, whatever failed or    *)
(* was refused before: the beam is the best of its level (see module       *)
(* Beam), and visits count the expansions below a node (see module         *)
(* TraditionalMCTS).                                                       *)
SelectionIsInformed ==
  /\ opts.method = "BeamSearch" => BeamSearch!BeamHoldsBest
  /\ opts.method = "TraditionalMCTS" => MCTS!VisitsCountExpansions

(* TraditionalMCTS: a proof among the children of a node ends the search   *)
(* below its siblings, see module TraditionalMCTS.                         *)
ProofBlocksSiblings ==
  opts.method = "TraditionalMCTS" => MCTS!ProofBlocksSiblings

(* Whatever the method, and however often a search goes on after a success *)
(* and replaces its answer: best_answer set from a callback is the path of *)
(* a proof that was handed over and is correct, and a search that ends     *)
(* "solved" has one.                                                       *)
ProofsAreVerified ==
  /\ answer # NoAnswer => answer \in checked /\ kind[answer] = "good"
  /\ status = "solved" => answer # NoAnswer

(* The synchronous beam search does not keep the contract of BaseMethod:   *)
(* it goes on after a success.  Every other search is one that every       *)
(* caller of simulate may expect.                                          *)
KeepsContract == opts.method # "BeamSearch" \/ opts.async

Contract == INSTANCE TreeSearch WITH
  NoAnswer <- NoAnswer,
  kind     <- IF KeepsContract THEN kind ELSE OnlyRoot,
  checked  <- IF KeepsContract THEN checked ELSE {},
  answer   <- IF KeepsContract THEN answer ELSE NoAnswer,
  status   <- IF KeepsContract THEN status ELSE "running"

ContractSpec == Contract!Spec
=============================================================================
