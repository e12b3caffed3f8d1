------------------------------ MODULE Bracket ------------------------------
(***************************************************************************)
(* The single-elimination bracket that TournamentEvaluator plays           *)
(* (src/treethink/evaluators.py, and round by round the same in            *)
(* src/treethink/async_evaluators.py).  A bracket is a record: the players *)
(* still in it in their slots, the number of the round, and the score of   *)
(* every player so far.  What it must come to is a Ranking of module       *)
(* Tournament.                                                             *)
(***************************************************************************)
EXTENDS Tournament, Sequences, SequencesExt

Bye == 0   \* the dummy index -1 that fills the bracket up

(* The next power of two.                                                  *)
Padded(n) == Pow2[Rounds(n)]

(* The orders in which the players are put into the slots.                 *)
Orders(n, shuffle) ==
  IF shuffle
  THEN {o \in [1..n -> 1..n] : \A i, j \in 1..n : i # j => o[i] # o[j]}
  ELSE {[i \in 1..n |-> i]}

Starts(n, shuffle) ==
  {[slots |-> [k \in 1..Padded(n) |-> IF k <= n THEN o[k] ELSE Bye],
    round |-> 1,
    score |-> [i \in 1..n |-> 0]] : o \in Orders(n, shuffle)}

Games(b) == 1..(Len(b.slots) \div 2)
Sides(b, k) == {b.slots[2 * k - 1], b.slots[2 * k]}

(* Who may win a game.  A bye loses against everyone; between two players  *)
(* the judge decides, and an answer it does not give is for the first.     *)
Winners(b, k) ==
  IF Sides(b, k) = {Bye} THEN {Bye} ELSE Sides(b, k) \ {Bye}

Losers(b, w) ==
  UNION {Sides(b, k) \ {w[k], Bye} : k \in Games(b)}

(* Faulty variant: the losers of all rounds are scored alike.              *)
AfterRound_Unranked(b, w) ==
  [slots |-> w, round |-> b.round + 1,
   score |-> [i \in DOMAIN b.score |-> IF i \in Losers(b, w) THEN 1 ELSE b.score[i]]]

(* The brackets one round later.                                           *)
AfterRound(b, w) ==
  [slots |-> w, round |-> b.round + 1,
   score |-> [i \in DOMAIN b.score |->
                IF i \in Losers(b, w) THEN b.round ELSE b.score[i]]]

Played(b) ==
  {AfterRound(b, w) :
     w \in {v \in [Games(b) -> UNION {Winners(b, k) : k \in Games(b)}] :
              \A k \in Games(b) : v[k] \in Winners(b, k)}}

IsOver(b) == Len(b.slots) = 1

(* The champion gets the highest score.                                    *)
Final(b) ==
  [i \in DOMAIN b.score |-> IF i = b.slots[1] THEN b.round ELSE b.score[i]]

-----------------------------------------------------------------------------
(* What holds of a bracket between two rounds: nobody sits in two slots,   *)
(* exactly those who still play have no score, as many have lost in each   *)
(* round as a ranking says, and a finished bracket is a ranking.           *)
Consistent(b) ==
  LET n == Len(b.score) IN
  /\ \A i, j \in DOMAIN b.slots :
       i # j /\ b.slots[i] # Bye => b.slots[i] # b.slots[j]
  /\ \A i \in 1..n : b.score[i] = 0 <=> i \in ToSet(b.slots)
  /\ \A r \in 1..(b.round - 1) :
       Cardinality({i \in 1..n : b.score[i] = r}) = Left(n, r - 1) - Left(n, r)
  /\ \A r \in DOMAIN b.score : b.score[r] < b.round
  /\ IsOver(b) => Final(b) \in Ranking(n)
=============================================================================
