----------------------------- MODULE Tournament -----------------------------
(***************************************************************************)
(* The ranking that a single-elimination tournament gives its n players    *)
(* (TournamentEvaluator of src/treethink/evaluators.py and its             *)
(* asynchronous twin), stated without the brackets: who loses in round r   *)
(* scores r, the winner one more than the number of rounds.                *)
(*                                                                         *)
(* Byes fill the end of the bracket, so half of the players, rounded up,   *)
(* are left after every round, and by the shuffle any of them may be.      *)
(***************************************************************************)
EXTENDS Integers, FiniteSets

(* 2 ** r                                                                  *)
Pow2[r \in Nat] == IF r = 0 THEN 1 ELSE 2 * Pow2[r - 1]

(* Players left of n after r rounds.                                       *)
Left(n, r) ==
  LET left[i \in Nat] == IF i = 0 THEN n ELSE (left[i - 1] + 1) \div 2 IN left[r]

(* math.ceil(math.log2(n)), for n > 0.                                     *)
Rounds(n) == Cardinality({r \in 0..n : Pow2[r] < n})

Ranking(n) ==
  {s \in [1..n -> 1..Rounds(n) + 1] :
     /\ Cardinality({i \in 1..n : s[i] = Rounds(n) + 1}) = 1
     /\ \A r \in 1..Rounds(n) :
          Cardinality({i \in 1..n : s[i] = r}) = Left(n, r - 1) - Left(n, r)}
=============================================================================
