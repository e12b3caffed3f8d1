----------------------------- MODULE TreeSearch -----------------------------
(***************************************************************************)
(* What a search method promises its caller, whatever its strategy: the    *)
(* contract of BaseMethod.simulate (src/treethink/methods/base_method.py)  *)
(* towards TreeThink.generate.  The tree only grows, at leaves that are    *)
(* not termination nodes; a termination node is handed to the callback at  *)
(* most once; when the callback answers with a proof the search records    *)
(* that proof and does nothing more.                                       *)
(***************************************************************************)
EXTENDS SearchTree

CONSTANT NoAnswer

VARIABLES
  checked,   \* termination nodes handed to termination_encountered_fn
  answer,    \* the node whose path is best_answer, or NoAnswer
  status     \* "running", "solved" (CHECKED_AND_TRUE) or "stopped"

vars == <<kind, checked, answer, status>>

Init ==
  /\ kind = OnlyRoot
  /\ checked = {}
  /\ answer = NoAnswer
  /\ status = "running"

(* A leaf gets children.                                                   *)
Grow(n) ==
  /\ status = "running"
  /\ IsExpandable(n)
  /\ \E dedupe \in BOOLEAN : \E ks \in Samples(n, dedupe) :
       kind' = WithChildren(n, ks)
  /\ UNCHANGED <<checked, answer>>
  /\ status' \in {"running", "stopped"}

(* The proof that ends at n goes to the proof assistant, whose answer may  *)
(* be about a proof handed over earlier (the batching callback).           *)
Probe(n) ==
  /\ status = "running"
  /\ n \in Present /\ IsTermination(n) /\ n \notin checked
  /\ checked' = checked \union {n}
  /\ \/ /\ \E m \in checked' : kind[m] = "good" /\ answer' = m
        /\ status' = "solved"
     \/ status' \in {"running", "stopped"} /\ UNCHANGED answer
  /\ UNCHANGED kind

Stop ==
  /\ status = "running"
  /\ status' = "stopped"
  /\ UNCHANGED <<kind, checked, answer>>

Next == Stop \/ \E n \in Node : Grow(n) \/ Probe(n)

Spec == Init /\ [][Next]_vars

(* The search ends "solved" exactly when it has recorded a proof, that     *)
(* proof was handed to the proof assistant, and it is a correct one.       *)
SolvedByVerifiedProof ==
  /\ status = "solved" <=> answer # NoAnswer
  /\ status = "solved" => answer \in checked /\ kind[answer] = "good"
=============================================================================
