-------------------------- MODULE TreeThinkProofs --------------------------
(***************************************************************************)
(* What holds of a generation for every number of prompts, every size of   *)
(* the batch and of the tree, and whatever the service does.               *)
(***************************************************************************)
EXTENDS TreeThink, SearchTreeProofs, FiniteSetTheorems

(* An entry that is about the tree at hand: its node ends a proof, and its *)
(* flag is the verdict on that proof.                                      *)
Current(e) ==
  /\ e \in EntryType
  /\ e.problem = problem
  /\ e.node \in Terminated
  /\ e.good <=> kind[e.node] = "good"

(* Termination nodes of one parent carry the same proof.                   *)
SiblingsAgree ==
  \A m, n \in Terminated : Front(m) = Front(n) => kind[m] = kind[n]

(* What the cache calls proved is the snippet of a correct proof.          *)
RemembersTrue(records) ==
  \A f \in records : f.proved =>
    \E n \in Node : kind[n] = "good" /\ f.snippet = Snippet(Entry(n))

AboutCurrent ==
  /\ \A i \in DOMAIN pending : Current(pending[i])
  /\ best # NoAnswer => Current(best) /\ best.good
  /\ found # NoAnswer => Current(found) /\ found.good

(* The results cover the prompts before the one at work, the batch is      *)
(* empty once the flush is over, and nothing is found before.              *)
Progress ==
  /\ Len(results) = IF phase = "done" THEN problem ELSE problem - 1
  /\ phase \in {"paths", "answer", "done"} => pending = << >>
  /\ phase \in {"simulate", "flush"} => found = NoAnswer

IInv ==
  /\ TypeOK
  /\ SiblingsAgree
  /\ RemembersTrue(remembered)
  /\ AboutCurrent
  /\ Progress
  /\ VerifiedIsCorrect
  /\ AnswersItsProblem

-----------------------------------------------------------------------------
(* One check of a list of proofs.                                          *)

(* An entry made of a terminated node is about the tree at hand.           *)
LEMMA EntryIsCurrent ==
  ASSUME TypeOK, NEW n \in Terminated
  PROVE  Current(Entry(n)) /\ Entry(n).node = n
BY DEF TypeOK, Current, Entry, EntryType, Terminated, Present

(* No reply confirms a wrong proof, be it from the cache or the service.   *)
LEMMA RepliesAreSound ==
  ASSUME SiblingsAgree, RemembersTrue(remembered),
         NEW es, \A i \in DOMAIN es : Current(es[i]),
         NEW r \in Replies(es)
  PROVE  \A i \in DOMAIN es : r[i] => es[i].good
<1> SUFFICES ASSUME NEW i \in DOMAIN es, r[i] PROVE es[i].good
  OBVIOUS
<1>1. r[i] = TRUE
  BY DEF Replies
<1>2. CASE ~Known(es[i])
  BY <1>2 DEF Replies
<1>3. CASE Known(es[i])
  <2>1. Record(es[i], TRUE) \in remembered
    BY <1>1, <1>3 DEF Replies
  <2>2. PICK n \in Node : kind[n] = "good" /\ Snippet(es[i]) = Snippet(Entry(n))
    BY <2>1 DEF RemembersTrue, Record
  <2>3. n \in Terminated /\ Front(es[i].node) = Front(n)
    BY <2>2 DEF Terminated, Present, IsTermination, Snippet, Entry
  <2> QED BY <2>2, <2>3 DEF SiblingsAgree, Current
<1> QED BY <1>2, <1>3

(* What a check returns is current and correct, and the cache stays true.  *)
LEMMA CheckIsSound ==
  ASSUME SiblingsAgree, RemembersTrue(remembered),
         NEW es, \A i \in DOMAIN es : Current(es[i]),
         NEW r \in Replies(es)
  PROVE  /\ RemembersTrue(Remember(es, r))
         /\ \A e \in FirstProved(es, r) : e = NoAnswer \/ (Current(e) /\ e.good)
         /\ \A f \in Remember(es, r) \ remembered :
              f.snippet.problem = problem /\ f.proved \in BOOLEAN
<1>1. \A i \in DOMAIN es : r[i] => es[i].good
  BY RepliesAreSound
<1>2. DOMAIN r = DOMAIN es /\ \A i \in DOMAIN es : r[i] \in BOOLEAN
  BY DEF Replies
<1>3. \A e \in FirstProved(es, r) : e = NoAnswer \/ (Current(e) /\ e.good)
  BY <1>1, <1>2 DEF FirstProved
<1>4. ASSUME NEW f \in Remember(es, r), f \notin remembered
      PROVE  /\ f.snippet.problem = problem /\ f.proved \in BOOLEAN
             /\ f.proved => \E n \in Node : kind[n] = "good" /\ f.snippet = Snippet(Entry(n))
  <2>1. PICK i \in DOMAIN es : f = Record(es[i], r[i])
    BY <1>4 DEF Remember, Asked
  <2>2. Current(es[i])
    OBVIOUS
  <2>3. f.snippet = Snippet(es[i]) /\ f.proved = r[i]
    BY <2>1 DEF Record
  <2>4. Snippet(es[i]) = Snippet(Entry(es[i].node)) /\ Snippet(es[i]).problem = problem
    BY <2>2 DEF Snippet, Entry, Current
  <2> QED BY <1>1, <1>2, <2>2, <2>3, <2>4 DEF Current, Terminated, Present
<1> QED BY <1>3, <1>4 DEF RemembersTrue

-----------------------------------------------------------------------------
(* How the pieces of the invariant survive a step.                         *)

(* Growing the tree keeps siblings in agreement: a new termination node    *)
(* has only new siblings, with its own text.                               *)
LEMMA GrowKeepsAgreement ==
  ASSUME TypeOK, SiblingsAgree, NEW n \in Node, Grow(n)
  PROVE  /\ TreeShape' /\ SiblingsAgree'
         /\ \A m \in Present : kind'[m] = kind[m]
<1>1. PICK ks \in Samples(n, FALSE) : kind' = WithChildren(n, ks)
  BY DEF Grow
<1>2. IsExpandable(n)
  BY DEF Grow
<1>3. /\ TreeShape'
      /\ \A m \in Present : kind'[m] = kind[m]
      /\ \A m \in Node : kind'[m] # kind[m] => IsChildOf(m, n)
  BY <1>1, <1>2, GrowKeepsTree DEF TypeOK
<1>4. ASSUME NEW m \in Terminated', m \notin Terminated
      PROVE  /\ m \in Node /\ IsChildOf(m, n) /\ Front(m) = n
             /\ Position(m) \in DOMAIN ks /\ kind'[m] = ks[Position(m)]
             /\ kind'[m] # "step"
  <2>1. m \in Node /\ kind'[m] \in {"good", "bad"} /\ kind'[m] # kind[m]
    BY <1>3, <1>4 DEF Terminated, IsTermination, Present
  <2>2. IsChildOf(m, n) /\ Front(m) = n
    BY <1>3, <2>1, FrontIsParent
  <2>3. Position(m) \in DOMAIN ks /\ kind'[m] = ks[Position(m)]
    BY <1>1, <2>1 DEF WithChildren
  <2> QED BY <2>1, <2>2, <2>3
<1>5. ASSUME NEW m \in Terminated
      PROVE  kind'[m] = kind[m] /\ Front(m) # n
  <2>1. m \in Node /\ m \in Present /\ kind[Root] = "step"
    BY DEF Terminated, Present, TypeOK, TreeShape
  <2>2. m # Root
    BY <2>1 DEF Terminated, IsTermination
  <2>3. PICK p \in Node : IsChildOf(m, p)
    BY <2>1, <2>2, NotRootHasParent
  <2>4. p # n
    BY <1>2, <2>1, <2>3 DEF IsExpandable, Children
  <2> QED BY <1>3, <2>1, <2>3, <2>4, FrontIsParent
<1>6. ASSUME NEW m \in Terminated', NEW k \in Terminated', Front(m) = Front(k)
      PROVE  kind'[m] = kind'[k]
  <2>1. CASE m \in Terminated /\ k \in Terminated
    BY <1>5, <1>6, <2>1 DEF SiblingsAgree
  <2>2. CASE m \notin Terminated /\ k \notin Terminated
    BY <1>1, <1>4, <2>2 DEF Samples
  <2> QED BY <1>4, <1>5, <1>6, <2>1, <2>2
<1> QED BY <1>3, <1>6 DEF SiblingsAgree

(* What was said about the tree stays true as long as present nodes keep   *)
(* their kind and the prompt is the same.                                  *)
LEMMA FactsSurvive ==
  ASSUME \A m \in Present : kind'[m] = kind[m], problem' = problem
  PROVE  /\ \A e : Current(e) => Current(e)'
         /\ \A records : RemembersTrue(records) => RemembersTrue(records)'
<1>1. ASSUME NEW m \in Terminated PROVE m \in Terminated' /\ kind'[m] = kind[m]
  BY <1>1 DEF Terminated, Present, IsTermination
<1>2. ASSUME NEW e, Current(e) PROVE Current(e)'
  BY <1>1, <1>2 DEF Current
<1>3. ASSUME NEW records, RemembersTrue(records) PROVE RemembersTrue(records)'
  BY <1>3 DEF RemembersTrue, Snippet, Entry, Present
<1> QED BY <1>2, <1>3

-----------------------------------------------------------------------------
(* The invariant, action by action.                                        *)

(* The batch with one more entry is current.                               *)
LEMMA BatchIsCurrent ==
  ASSUME TypeOK, AboutCurrent, NEW n \in Terminated
  PROVE  LET es == Append(pending, Entry(n)) IN
           /\ es \in Seq(EntryType)
           /\ \A i \in DOMAIN es : Current(es[i])
<1> DEFINE es == Append(pending, Entry(n))
<1>1. Current(Entry(n))
  BY EntryIsCurrent
<1>2. pending \in Seq(EntryType) /\ Entry(n) \in EntryType
  BY <1>1 DEF TypeOK, Current
<1>3. /\ es \in Seq(EntryType) /\ Len(es) = Len(pending) + 1
      /\ \A i \in 1..Len(pending) : es[i] = pending[i]
      /\ es[Len(pending) + 1] = Entry(n)
  BY <1>2, AppendProperties
<1>4. /\ DOMAIN pending = 1..Len(pending) /\ Len(pending) \in Nat
      /\ DOMAIN es = 1..Len(es)
  BY <1>2, <1>3, LenProperties
<1> QED BY <1>1, <1>3, <1>4 DEF AboutCurrent

LEMMA IdleStep ==
  ASSUME IInv, UNCHANGED <<kind, setup, problem, pending, refuted, remembered, checked,
                           best, found, results>>,
         service' \in {"up", "flaky"},
         \/ phase' = phase
         \/ phase = "simulate" /\ phase' = "flush"
         \/ phase = "paths" /\ phase' = "answer"
         \/ phase \in {"simulate", "flush", "paths"} /\ phase' = "crashed"
  PROVE  IInv'
<1>1. TypeOK'
  BY DEF IInv, TypeOK, TreeShape, Present, Children
<1>2. SiblingsAgree' /\ RemembersTrue(remembered)' /\ AboutCurrent'
  BY DEF IInv, SiblingsAgree, RemembersTrue, AboutCurrent, Current, Terminated,
         Present, IsTermination, Snippet, Entry
<1>3. Progress' /\ VerifiedIsCorrect' /\ AnswersItsProblem'
  BY DEF IInv, Progress, VerifiedIsCorrect, AnswersItsProblem
<1> QED BY <1>1, <1>2, <1>3 DEF IInv

LEMMA GrowStep == ASSUME IInv, NEW n \in Node, Grow(n) PROVE IInv'
<1>1. /\ TreeShape' /\ SiblingsAgree' /\ \A m \in Present : kind'[m] = kind[m]
  BY GrowKeepsAgreement DEF IInv
<1>2. problem' = problem /\ UNCHANGED <<pending, best, found, remembered>>
  BY DEF Grow, runtimeVars
<1>3. /\ \A e : Current(e) => Current(e)'
      /\ \A records : RemembersTrue(records) => RemembersTrue(records)'
  BY <1>1, <1>2, FactsSurvive
<1>4. RemembersTrue(remembered)' /\ AboutCurrent'
  BY <1>2, <1>3 DEF IInv, RemembersTrue, AboutCurrent
<1>5. TypeOK'
  BY <1>1 DEF IInv, TypeOK, Grow, runtimeVars
<1>6. Progress' /\ VerifiedIsCorrect' /\ AnswersItsProblem'
  BY DEF IInv, Progress, VerifiedIsCorrect, AnswersItsProblem, Grow, runtimeVars
<1> QED BY <1>1, <1>4, <1>5, <1>6 DEF IInv

(* The callback's three ways to deal with a node.                          *)
LEMMA EncounterStep ==
  ASSUME IInv, NEW n \in Node,
         PutAside(n) \/ CheckEncountered(n) \/ EncounterUnanswered(n)
  PROVE  IInv'
<1> DEFINE es == Append(pending, Entry(n))
<1>1. HandedOver(n) /\ n \in Terminated /\ phase = "simulate"
  BY DEF PutAside, CheckEncountered, EncounterUnanswered, HandedOver, Searching
<1>2. UNCHANGED <<kind, setup, problem, service, phase, found, results>>
  BY <1>1 DEF HandedOver
<1>3. es \in Seq(EntryType) /\ \A i \in DOMAIN es : Current(es[i])
  BY <1>1, BatchIsCurrent DEF IInv
<1> HIDE DEF es
<1>4. \/ /\ pending' = es \/ pending' = << >>
         /\ best' = best /\ remembered' = remembered
      \/ /\ pending' = << >>
         /\ \E r \in Replies(es) :
              best' \in FirstProved(es, r) /\ remembered' = Remember(es, r)
  BY DEF PutAside, CheckEncountered, EncounterUnanswered, es
<1>5. /\ pending' \in Seq(EntryType) /\ \A i \in DOMAIN pending' : Current(pending'[i])
  <2>1. << >> \in Seq(EntryType) /\ DOMAIN << >> = {}
    OBVIOUS
  <2>2. pending' \in {es, << >>}
    BY <1>4
  <2> QED BY <1>3, <2>1, <2>2
<1>6. /\ RemembersTrue(remembered')
      /\ best' # NoAnswer => Current(best') /\ best'.good
      /\ \A f \in remembered' \ remembered :
           f.snippet.problem = problem /\ f.proved \in BOOLEAN
  <2>1. CASE best' = best /\ remembered' = remembered
    BY <2>1 DEF IInv, AboutCurrent
  <2>2. CASE \E r \in Replies(es) :
               best' \in FirstProved(es, r) /\ remembered' = Remember(es, r)
    BY <2>2, <1>3, CheckIsSound DEF IInv
  <2> QED BY <1>4, <2>1, <2>2
<1>7. refuted' \subseteq Node /\ checked' \subseteq Node
  <2>1. \A i \in DOMAIN es : es[i].node \in Node
    BY <1>3 DEF Current, EntryType
  <2>2. \A r \in Replies(es) : Rejected(r) \subseteq DOMAIN es
    BY DEF Rejected, Replies
  <2> QED BY <1>1, <2>1, <2>2
          DEF PutAside, CheckEncountered, EncounterUnanswered, HandedOver, Refused,
              IInv, TypeOK, es
<1>8. TypeOK'
  BY <1>2, <1>5, <1>6, <1>7 DEF IInv, TypeOK, TreeShape, Present, Children, Current
<1>9. SiblingsAgree' /\ RemembersTrue(remembered)' /\ AboutCurrent'
  BY <1>2, <1>5, <1>6
     DEF IInv, SiblingsAgree, RemembersTrue, AboutCurrent, Current, Terminated,
         Present, IsTermination, Snippet, Entry
<1>10. Progress' /\ VerifiedIsCorrect' /\ AnswersItsProblem'
  BY <1>1, <1>2 DEF IInv, Progress, VerifiedIsCorrect, AnswersItsProblem
<1> QED BY <1>8, <1>9, <1>10 DEF IInv

LEMMA FlushStep ==
  ASSUME IInv, Flush \/ FlushUnanswered
  PROVE  IInv'
<1>1. /\ UNCHANGED <<kind, setup, problem, service, checked, results>>
      /\ phase = "flush" /\ phase' = "paths" /\ pending' = << >>
  BY DEF Flush, FlushUnanswered
<1>2. \A i \in DOMAIN pending : Current(pending[i])
  BY DEF IInv, AboutCurrent
<1>3. \/ UNCHANGED <<refuted, remembered, best, found>>
      \/ \E r \in Replies(pending) :
           /\ remembered' = Remember(pending, r)
           /\ refuted' = refuted \union {pending[i].node : i \in Rejected(r)}
           /\ found' \in FirstProved(pending, r)
           /\ best' = IF found' = NoAnswer THEN best ELSE found'
  BY DEF Flush, FlushUnanswered
<1>4. /\ RemembersTrue(remembered')
      /\ best' # NoAnswer => Current(best') /\ best'.good
      /\ found' # NoAnswer => Current(found') /\ found'.good
      /\ \A f \in remembered' \ remembered :
           f.snippet.problem = problem /\ f.proved \in BOOLEAN
  <2>1. CASE UNCHANGED <<refuted, remembered, best, found>>
    BY <2>1 DEF IInv, AboutCurrent
  <2>2. ASSUME NEW r \in Replies(pending),
               remembered' = Remember(pending, r), found' \in FirstProved(pending, r),
               best' = IF found' = NoAnswer THEN best ELSE found'
        PROVE  <1>4!:
    BY <1>2, <2>2, CheckIsSound DEF IInv, AboutCurrent
  <2> QED BY <1>3, <2>1, <2>2
<1>5. refuted' \subseteq Node
  <2>1. \A i \in DOMAIN pending : pending[i].node \in Node
    BY <1>2 DEF Current, EntryType
  <2>2. \A r \in Replies(pending) : Rejected(r) \subseteq DOMAIN pending
    BY DEF Rejected, Replies
  <2> QED BY <1>3, <2>1, <2>2 DEF IInv, TypeOK
<1>6. TypeOK'
  <2>1. pending' \in Seq(EntryType)
    BY <1>1
  <2> QED BY <1>1, <1>4, <1>5, <2>1 DEF IInv, TypeOK, TreeShape, Present, Children, Current
<1>7. SiblingsAgree' /\ RemembersTrue(remembered)' /\ AboutCurrent'
  <2>1. DOMAIN pending' = {}
    BY <1>1
  <2> QED BY <1>1, <1>4, <2>1
          DEF IInv, SiblingsAgree, RemembersTrue, AboutCurrent, Current, Terminated,
              Present, IsTermination, Snippet, Entry
<1>8. Progress' /\ VerifiedIsCorrect' /\ AnswersItsProblem'
  BY <1>1 DEF IInv, Progress, VerifiedIsCorrect, AnswersItsProblem
<1> QED BY <1>6, <1>7, <1>8 DEF IInv

(* The lists check_terminated_paths may send are current.                  *)
LEMMA PathsAreCurrent ==
  ASSUME TypeOK, NEW es \in ChosenPaths
  PROVE  \A i \in DOMAIN es : Current(es[i])
<1>1. PICK S \in PathsToCheck : es \in Orders(S)
  BY DEF ChosenPaths
<1>2. S \subseteq Terminated
  BY DEF PathsToCheck
<1>3. \A i \in DOMAIN es : \E n \in S : es[i] = Entry(n)
  BY <1>1 DEF Orders
<1> QED BY <1>2, <1>3, EntryIsCurrent

LEMMA PathsStep == ASSUME IInv, CheckPaths PROVE IInv'
<1>1. PICK es \in ChosenPaths : \E r \in Replies(es) :
        remembered' = Remember(es, r) /\ found' \in FirstProved(es, r)
  BY DEF CheckPaths
<1>2. /\ UNCHANGED <<kind, setup, problem, service, pending, refuted, checked, best, results>>
      /\ phase = "paths" /\ phase' = "answer"
  BY DEF CheckPaths, PathsDue
<1>3. \A i \in DOMAIN es : Current(es[i])
  BY PathsAreCurrent DEF IInv
<1>4. /\ RemembersTrue(remembered')
      /\ found' # NoAnswer => Current(found') /\ found'.good
      /\ \A f \in remembered' \ remembered :
           f.snippet.problem = problem /\ f.proved \in BOOLEAN
  BY <1>1, <1>3, CheckIsSound DEF IInv
<1>5. TypeOK'
  BY <1>2, <1>4 DEF IInv, TypeOK, TreeShape, Present, Children, Current
<1>6. SiblingsAgree' /\ RemembersTrue(remembered)' /\ AboutCurrent'
  BY <1>2, <1>4
     DEF IInv, SiblingsAgree, RemembersTrue, AboutCurrent, Current, Terminated,
         Present, IsTermination, Snippet, Entry
<1>7. Progress' /\ VerifiedIsCorrect' /\ AnswersItsProblem'
  BY <1>2 DEF IInv, Progress, VerifiedIsCorrect, AnswersItsProblem
<1> QED BY <1>5, <1>6, <1>7 DEF IInv

(* What is said of the tree of one node.                                   *)
LEMMA FreshTree ==
  kind = OnlyRoot => TreeShape /\ SiblingsAgree
<1>1. kind = OnlyRoot => Terminated = {}
  BY DEF OnlyRoot, Terminated, Present, IsTermination
<1> QED BY <1>1, OnlyRootIsTree DEF SiblingsAgree

LEMMA DeliverStep == ASSUME IInv, Deliver PROVE IInv'
<1>1. PICK solution \in EntryType :
        /\ solution.problem = problem
        /\ found # NoAnswer \/ best # NoAnswer => solution.good
        /\ results' = Append(results,
             [problem |-> solution.problem, good |-> solution.good,
              checked_and_true |-> found # NoAnswer \/ best # NoAnswer])
  <2>1. \A n \in Leaves : Entry(n) \in EntryType /\ Entry(n).problem = problem
    BY DEF IInv, TypeOK, Leaves, Present, Entry, EntryType
  <2> QED BY <2>1 DEF Deliver, IInv, AboutCurrent, Current
<1>2. /\ phase = "answer" /\ kind' = OnlyRoot
      /\ refuted' = {} /\ checked' = {} /\ remembered' = {}
      /\ best' = NoAnswer /\ found' = NoAnswer
      /\ UNCHANGED <<setup, service, pending>>
      /\ IF problem < Problems THEN problem' = problem + 1 /\ phase' = "simulate"
                               ELSE problem' = problem /\ phase' = "done"
  BY DEF Deliver
<1>3. pending = << >> /\ Len(results) = problem - 1
  BY <1>2 DEF IInv, Progress
<1>4. TreeShape' /\ SiblingsAgree'
  <2>1. (kind = OnlyRoot)'
    BY <1>2 DEF OnlyRoot
  <2> QED BY <2>1, FreshTree, PTL
<1>5. problem \in 1..Problems /\ problem' \in 1..Problems
  BY <1>2, ProblemsAssumption DEF IInv, TypeOK
<1> DEFINE Result == [problem : 1..Problems, good : BOOLEAN, checked_and_true : BOOLEAN]
           last == [problem |-> solution.problem, good |-> solution.good,
                    checked_and_true |-> found # NoAnswer \/ best # NoAnswer]
<1>6. results \in Seq(Result) /\ last \in Result
  BY <1>1, <1>5 DEF IInv, TypeOK, EntryType
<1>7. /\ results' \in Seq(Result) /\ Len(results') = problem
      /\ \A i \in 1..(problem - 1) : results'[i] = results[i]
      /\ results'[problem] = last
  <2>1. Len(results) + 1 = problem
    BY <1>3, <1>5
  <2> QED BY <1>1, <1>3, <1>6, <2>1, AppendProperties
<1>8. DOMAIN results' = 1..problem /\ DOMAIN results = 1..(problem - 1)
  BY <1>3, <1>6, <1>7, LenProperties
<1>9. \A i \in 1..problem : i = problem \/ i \in 1..(problem - 1)
  BY <1>5
<1>10. VerifiedIsCorrect' /\ AnswersItsProblem'
  BY <1>1, <1>7, <1>8, <1>9 DEF IInv, VerifiedIsCorrect, AnswersItsProblem
<1>11. TypeOK'
  BY <1>2, <1>3, <1>4, <1>5, <1>7 DEF IInv, TypeOK
<1>12. RemembersTrue(remembered)' /\ AboutCurrent'
  <2>1. DOMAIN pending' = {}
    BY <1>2, <1>3
  <2> QED BY <1>2, <2>1 DEF RemembersTrue, AboutCurrent
<1>13. Progress'
  <2>1. pending' = << >> /\ found' = NoAnswer
    BY <1>2, <1>3
  <2>2. Len(results') = IF phase' = "done" THEN problem' ELSE problem' - 1
    <3>1. Len(results') = problem /\ problem \in Nat
      BY <1>5, <1>7
    <3> HIDE DEF Result, last
    <3> QED BY <1>2, <3>1
  <2> QED BY <2>1, <2>2 DEF Progress
<1> QED BY <1>4, <1>10, <1>11, <1>12, <1>13 DEF IInv

-----------------------------------------------------------------------------
(* Every reachable state satisfies the invariant.                          *)

LEMMA InitInv == Init => IInv
<1> SUFFICES ASSUME Init PROVE IInv
  OBVIOUS
<1>1. TreeShape /\ SiblingsAgree
  BY FreshTree DEF Init
<1>2. /\ << >> \in Seq(EntryType) /\ Len(<< >>) = 0 /\ DOMAIN << >> = {}
      /\ << >> \in Seq([problem : 1..Problems, good : BOOLEAN, checked_and_true : BOOLEAN])
  OBVIOUS
<1>3. TypeOK
  BY <1>1, <1>2, ProblemsAssumption DEF Init, TypeOK
<1> QED BY <1>1, <1>2, <1>3
        DEF Init, IInv, RemembersTrue, AboutCurrent, Progress, VerifiedIsCorrect,
            AnswersItsProblem

LEMMA NextInv == IInv /\ [Next]_vars => IInv'
<1> SUFFICES ASSUME IInv, [Next]_vars PROVE IInv'
  OBVIOUS
<1>1. CASE UNCHANGED vars
  BY <1>1, IdleStep DEF vars, runtimeVars, IInv, TypeOK
<1>2. CASE EndSimulate \/ SkipPaths \/ PathsUnanswered \/ SearchRaises \/ AnswerRaises
  BY <1>2, IdleStep
     DEF EndSimulate, SkipPaths, PathsUnanswered, PathsDue, SearchRaises, Searching,
         AnswerRaises, runtimeVars, IInv, TypeOK
<1>3. CASE ServiceChanges
  BY <1>3, IdleStep DEF ServiceChanges, runtimeVars
<1>4. CASE Flush \/ FlushUnanswered
  BY <1>4, FlushStep
<1>5. CASE CheckPaths
  BY <1>5, PathsStep
<1>6. CASE Deliver
  BY <1>6, DeliverStep
<1>7. ASSUME NEW n \in Node,
             Grow(n) \/ PutAside(n) \/ CheckEncountered(n) \/ EncounterUnanswered(n)
      PROVE  IInv'
  BY <1>7, GrowStep, EncounterStep
<1> QED BY <1>1, <1>2, <1>3, <1>4, <1>5, <1>6, <1>7 DEF Next, Generate

LEMMA Invariance == Spec => []IInv
BY InitInv, NextInv, PTL DEF Spec

(* Every variable keeps its type and the nodes keep forming a tree.        *)
THEOREM TypeCorrect == Spec => []TypeOK
BY Invariance, PTL DEF IInv

(* An output that says checked_and_true carries a correct proof, whichever *)
(* of callback, batch, flush, cache and paths check it came from and       *)
(* however the service failed on the way.                                  *)
THEOREM VerifiedAnswersAreCorrect == Spec => []VerifiedIsCorrect
BY Invariance, PTL DEF IInv

(* Output number i answers prompt number i.                                *)
THEOREM AnswersFitProblems == Spec => []AnswersItsProblem
BY Invariance, PTL DEF IInv

-----------------------------------------------------------------------------
(* Nothing is lost while the service works.                                *)

(* What the cache calls failed is the snippet of a wrong proof.            *)
RemembersFailures(records) ==
  \A f \in records : ~f.proved =>
    \E n \in Node : kind[n] = "bad" /\ f.snippet = Snippet(Entry(n))

(* A correct proof that was handed over is verified or waits in the batch. *)
Accounted(n) ==
  \/ best # NoAnswer \/ found # NoAnswer
  \/ \E i \in DOMAIN pending : pending[i].node = n

Lossless ==
  /\ checked \subseteq Terminated
  /\ setup.reliable =>
       /\ service = "up"
       /\ RemembersFailures(remembered)
       /\ \A n \in checked : kind[n] = "good" => Accounted(n)

(* With the service up, a check confirms every correct proof, and what the *)
(* cache learns about the others is true.                                  *)
LEMMA RepliesAreComplete ==
  ASSUME SiblingsAgree, RemembersFailures(remembered), service = "up",
         NEW es, \A i \in DOMAIN es : Current(es[i]),
         NEW r \in Replies(es)
  PROVE  /\ \A i \in DOMAIN es : es[i].good => r[i]
         /\ RemembersFailures(Remember(es, r))
         /\ (\A i \in DOMAIN es : i \in 1..i) =>
              \A e \in FirstProved(es, r) :
                e # NoAnswer \/ \A i \in DOMAIN es : ~es[i].good
<1>1. ASSUME NEW i \in DOMAIN es, ~r[i] PROVE ~es[i].good
  <2>1. CASE ~Known(es[i])
    BY <1>1, <2>1 DEF Replies
  <2>2. CASE Known(es[i])
    <3>1. r[i] = FALSE /\ Record(es[i], r[i]) \in remembered
      BY <1>1, <2>2 DEF Replies
    <3>2. PICK n \in Node : kind[n] = "bad" /\ Snippet(es[i]) = Snippet(Entry(n))
      BY <3>1 DEF RemembersFailures, Record
    <3>3. n \in Terminated /\ Front(es[i].node) = Front(n)
      BY <3>2 DEF Terminated, Present, IsTermination, Snippet, Entry
    <3> QED BY <1>1, <3>2, <3>3 DEF SiblingsAgree, Current
  <2> QED BY <2>1, <2>2
<1>2. ASSUME NEW f \in Remember(es, r), ~f.proved
      PROVE  \E n \in Node : kind[n] = "bad" /\ f.snippet = Snippet(Entry(n))
  <2>1. CASE f \in remembered
    BY <1>2, <2>1 DEF RemembersFailures
  <2>2. CASE f \notin remembered
    <3>1. PICK i \in DOMAIN es : f = Record(es[i], r[i])
      BY <2>2 DEF Remember, Asked
    <3>2. Current(es[i]) /\ ~es[i].good
      BY <1>1, <1>2, <3>1 DEF Record
    <3>3. kind[es[i].node] = "bad" /\ es[i].node \in Node
      BY <3>2 DEF Current, Terminated, Present, IsTermination
    <3>4. f.snippet = Snippet(Entry(es[i].node))
      BY <3>1, <3>2 DEF Record, Snippet, Entry, Current
    <3> QED BY <3>3, <3>4
  <2> QED BY <2>1, <2>2
<1>3. ASSUME \A i \in DOMAIN es : i \in 1..i,
             NEW e \in FirstProved(es, r), e = NoAnswer, NEW i \in DOMAIN es
      PROVE  ~es[i].good
  <2>1. DOMAIN r = DOMAIN es
    BY DEF Replies
  <2>2. CASE Rejected(r) = DOMAIN r
    <3>1. i \in Rejected(r)
      BY <2>1, <2>2
    <3> QED BY <1>1, <1>3, <2>1, <3>1 DEF Rejected
  <2>3. CASE Rejected(r) # DOMAIN r
    <3>1. PICK j \in DOMAIN r : e = es[j]
      BY <2>3 DEF FirstProved
    <3>2. Current(e)
      BY <2>1, <3>1
    <3> QED BY <1>3, <3>2, ProblemsAssumption DEF Current
  <2> QED BY <2>2, <2>3
<1> QED BY <1>1, <1>2, <1>3 DEF RemembersFailures

LEMMA SeqDomain ==
  ASSUME NEW S, NEW es \in Seq(S)
  PROVE  \A i \in DOMAIN es : i \in 1..i
BY LenProperties

LEMMA LosslessIdle ==
  ASSUME IInv, Lossless, UNCHANGED <<pending, remembered, checked, best, found, setup, problem>>,
         \A m \in Present : kind'[m] = kind[m],
         setup.reliable => service' = service
  PROVE  Lossless'
<1>1. \A n \in Terminated : n \in Terminated' /\ kind'[n] = kind[n]
  BY DEF Terminated, Present, IsTermination
<1>2. setup.reliable => RemembersFailures(remembered)'
  BY DEF Lossless, RemembersFailures, Snippet, Entry, Present
<1>3. ASSUME setup.reliable, NEW n \in checked, kind'[n] = "good" PROVE Accounted(n)'
  BY <1>1, <1>3 DEF Lossless, Accounted
<1> QED BY <1>1, <1>2, <1>3 DEF Lossless

LEMMA LosslessEncounter ==
  ASSUME IInv, Lossless, NEW n \in Node,
         PutAside(n) \/ CheckEncountered(n) \/ EncounterUnanswered(n)
  PROVE  Lossless'
<1> DEFINE es == Append(pending, Entry(n))
<1>1. /\ n \in Terminated /\ checked' = checked \union {n} /\ best = NoAnswer
      /\ UNCHANGED <<kind, setup, problem, service, found>>
  BY DEF PutAside, CheckEncountered, EncounterUnanswered, HandedOver, Searching
<1>2. checked' \subseteq Terminated'
  BY <1>1 DEF Lossless, Terminated, Present, IsTermination
<1>3. es \in Seq(EntryType) /\ \A i \in DOMAIN es : Current(es[i])
  BY <1>1, BatchIsCurrent DEF IInv
<1>4. \A m \in checked' : setup.reliable /\ kind[m] = "good" =>
        found # NoAnswer \/ \E i \in DOMAIN es : es[i].node = m
  <2>1. pending \in Seq(EntryType) /\ Entry(n) \in EntryType
    BY <1>1, EntryIsCurrent DEF IInv, TypeOK, Current
  <2>2. /\ Len(es) = Len(pending) + 1 /\ es[Len(pending) + 1] = Entry(n)
        /\ \A i \in 1..Len(pending) : es[i] = pending[i]
    BY <2>1, AppendProperties
  <2>3. DOMAIN pending = 1..Len(pending) /\ DOMAIN es = 1..Len(es) /\ Len(pending) \in Nat
    BY <1>3, <2>1, LenProperties
  <2>4. Entry(n).node = n
    BY DEF Entry
  <2> QED BY <1>1, <2>2, <2>3, <2>4 DEF Lossless, Accounted
<1> HIDE DEF es
<1>5. CASE ~setup.reliable
  BY <1>1, <1>2, <1>5 DEF Lossless
<1>6. CASE setup.reliable /\ pending' = es /\ UNCHANGED <<best, remembered>>
  BY <1>1, <1>2, <1>4, <1>6
     DEF Lossless, Accounted, RemembersFailures, Snippet, Entry
<1>7. CASE setup.reliable /\ CheckEncountered(n)
  <2>1. PICK r \in Replies(es) :
          remembered' = Remember(es, r) /\ best' \in FirstProved(es, r)
    BY <1>7 DEF CheckEncountered, es
  <2>2. /\ RemembersFailures(remembered')
        /\ best' # NoAnswer \/ \A i \in DOMAIN es : ~es[i].good
    BY <1>3, <1>7, <2>1, RepliesAreComplete, SeqDomain DEF IInv, Lossless
  <2>3. ASSUME NEW m \in checked', kind[m] = "good" PROVE best' # NoAnswer \/ found # NoAnswer
    BY <1>3, <1>4, <1>7, <2>2, <2>3 DEF Current
  <2> QED BY <1>1, <1>2, <1>7, <2>2, <2>3
          DEF Lossless, Accounted, RemembersFailures, Snippet, Entry
<1>8. CASE setup.reliable /\ EncounterUnanswered(n)
  BY <1>8 DEF EncounterUnanswered, MayRaise, Lossless
<1> QED BY <1>5, <1>6, <1>7, <1>8 DEF PutAside, es

LEMMA LosslessFlush ==
  ASSUME IInv, Lossless, Flush \/ FlushUnanswered
  PROVE  Lossless'
<1>1. UNCHANGED <<kind, setup, problem, service, checked>>
  BY DEF Flush, FlushUnanswered
<1>2. checked' \subseteq Terminated'
  BY <1>1 DEF Lossless, Terminated, Present, IsTermination
<1>3. pending \in Seq(EntryType) /\ \A i \in DOMAIN pending : Current(pending[i])
  BY DEF IInv, TypeOK, AboutCurrent
<1>4. CASE ~setup.reliable
  BY <1>1, <1>2, <1>4 DEF Lossless
<1>5. CASE setup.reliable /\ Flush
  <2>1. PICK r \in Replies(pending) :
          /\ remembered' = Remember(pending, r) /\ found' \in FirstProved(pending, r)
          /\ best' = IF found' = NoAnswer THEN best ELSE found'
    BY <1>5 DEF Flush
  <2>2. /\ RemembersFailures(remembered')
        /\ found' # NoAnswer \/ \A i \in DOMAIN pending : ~pending[i].good
    BY <1>3, <1>5, <2>1, RepliesAreComplete, SeqDomain DEF IInv, Lossless
  <2>3. ASSUME NEW m \in checked, kind[m] = "good"
        PROVE  best' # NoAnswer \/ found' # NoAnswer
    <3>1. found = NoAnswer
      BY <1>5 DEF Flush, IInv, Progress
    <3> QED BY <1>3, <1>5, <2>1, <2>2, <2>3, <3>1 DEF Current, Lossless, Accounted
  <2> QED BY <1>1, <1>2, <1>5, <2>2, <2>3
          DEF Lossless, Accounted, RemembersFailures, Snippet, Entry
<1>6. CASE setup.reliable /\ FlushUnanswered
  BY <1>6 DEF FlushUnanswered, MayRaise, Lossless
<1> QED BY <1>4, <1>5, <1>6

LEMMA LosslessPaths == ASSUME IInv, Lossless, CheckPaths PROVE Lossless'
<1>1. /\ UNCHANGED <<kind, setup, problem, service, pending, checked, best>>
      /\ best = NoAnswer /\ found = NoAnswer /\ phase = "paths"
  BY DEF CheckPaths, PathsDue
<1>2. checked' \subseteq Terminated'
  BY <1>1 DEF Lossless, Terminated, Present, IsTermination
<1>3. PICK es \in ChosenPaths : \E r \in Replies(es) : remembered' = Remember(es, r)
  BY DEF CheckPaths
<1>4. setup.reliable => RemembersFailures(remembered')
  BY <1>3, PathsAreCurrent, RepliesAreComplete DEF IInv, Lossless
<1>5. DOMAIN pending = {}
  BY <1>1 DEF IInv, Progress
<1>6. setup.reliable => \A n \in checked : kind[n] # "good"
  BY <1>1, <1>5 DEF Lossless, Accounted
<1> QED BY <1>1, <1>2, <1>4, <1>6 DEF Lossless, RemembersFailures, Snippet, Entry

LEMMA LosslessStep == IInv /\ Lossless /\ [Next]_vars => Lossless'
<1> SUFFICES ASSUME IInv, Lossless, [Next]_vars PROVE Lossless'
  OBVIOUS
<1>1. CASE UNCHANGED vars
  BY <1>1, LosslessIdle DEF vars, runtimeVars
<1>2. CASE EndSimulate \/ SkipPaths \/ PathsUnanswered \/ SearchRaises \/ AnswerRaises
  BY <1>2, LosslessIdle
     DEF EndSimulate, SkipPaths, PathsUnanswered, SearchRaises, AnswerRaises, runtimeVars
<1>3. CASE ServiceChanges
  BY <1>3, LosslessIdle DEF ServiceChanges, runtimeVars
<1>4. ASSUME NEW n \in Node, Grow(n) PROVE Lossless'
  <2>1. \A m \in Present : kind'[m] = kind[m]
    BY <1>4, GrowKeepsAgreement DEF IInv
  <2> QED BY <1>4, <2>1, LosslessIdle DEF Grow, runtimeVars
<1>5. ASSUME NEW n \in Node, PutAside(n) \/ CheckEncountered(n) \/ EncounterUnanswered(n)
      PROVE  Lossless'
  BY <1>5, LosslessEncounter
<1>6. CASE Flush \/ FlushUnanswered
  BY <1>6, LosslessFlush
<1>7. CASE CheckPaths
  BY <1>7, LosslessPaths
<1>8. CASE Deliver
  BY <1>8 DEF Deliver, Lossless, RemembersFailures
<1> QED BY <1>1, <1>2, <1>3, <1>4, <1>5, <1>6, <1>7, <1>8 DEF Next, Generate

(* With a reliable service, a correct proof that the search handed over is *)
(* reported, also when it sat in a batch that was never full.              *)
THEOREM ReliableLosesNothing == Spec => []ReliableServiceLosesNothing
<1>1. Init => Lossless
  BY DEF Init, Lossless, RemembersFailures
<1>2. IInv /\ Lossless => ReliableServiceLosesNothing
  <2> SUFFICES ASSUME IInv, Lossless, phase = "answer", setup.reliable,
                      NEW n \in checked, kind[n] = "good"
               PROVE  found # NoAnswer \/ best # NoAnswer
    BY DEF ReliableServiceLosesNothing
  <2>1. DOMAIN pending = {}
    BY DEF IInv, Progress
  <2> QED BY <2>1 DEF Lossless, Accounted
<1> QED BY <1>1, <1>2, LosslessStep, Invariance, PTL DEF Spec

-----------------------------------------------------------------------------
(* What the paths check finds when nothing is remembered.                  *)

(* Without a cache, nothing is remembered.                                 *)
Forgetful == ~setup.cache => remembered = {}

LEMMA ForgetfulStep == Forgetful /\ [Next]_vars => Forgetful'
<1> SUFFICES ASSUME Forgetful, [Next]_vars PROVE Forgetful'
  OBVIOUS
<1>1. ASSUME setup' = setup,
             \/ remembered' \in {remembered, {}}
             \/ \E es, r : remembered' = Remember(es, r)
      PROVE  Forgetful'
  BY <1>1 DEF Forgetful, Remember
<1>2. CASE UNCHANGED vars
  BY <1>1, <1>2 DEF vars, runtimeVars
<1>3. CASE EndSimulate \/ SkipPaths \/ PathsUnanswered \/ SearchRaises \/ AnswerRaises
             \/ ServiceChanges \/ FlushUnanswered
  BY <1>1, <1>3
     DEF EndSimulate, SkipPaths, PathsUnanswered, SearchRaises, AnswerRaises,
         ServiceChanges, FlushUnanswered, runtimeVars
<1>4. CASE Flush \/ CheckPaths \/ Deliver
  BY <1>1, <1>4 DEF Flush, CheckPaths, Deliver
<1>5. ASSUME NEW n \in Node,
             Grow(n) \/ PutAside(n) \/ CheckEncountered(n) \/ EncounterUnanswered(n)
      PROVE  Forgetful'
  BY <1>1, <1>5
     DEF Grow, PutAside, CheckEncountered, EncounterUnanswered, HandedOver, runtimeVars
<1> QED BY <1>2, <1>3, <1>4, <1>5 DEF Next, Generate

(* Refuted leaves come last: if the others are no more than may be sent,   *)
(* each of those is in every list that may be sent.                        *)
LEMMA UnrefutedAreSent ==
  ASSUME Cardinality(Terminated \ refuted) <= MaxRepl,
         NEW n \in Terminated \ refuted, NEW es \in ChosenPaths
  PROVE  \E i \in DOMAIN es : es[i].node = n
<1>1. PICK S \in PathsToCheck : es \in Orders(S)
  BY DEF ChosenPaths
<1>2. IsFiniteSet(Terminated \ refuted)
  BY NodesAreFinite, FS_Subset DEF Terminated, Present
<1>3. ASSUME n \notin S PROVE FALSE
  <2>1. /\ S \subseteq Terminated /\ Cardinality(S) = MaxRepl
        /\ \A m \in S : m \notin refuted
    BY <1>3 DEF PathsToCheck
  <2>2. IsFiniteSet(S)
    BY <1>2, <2>1, FS_Subset
  <2>3. S \union {n} \subseteq Terminated \ refuted
    BY <2>1
  <2>4. Cardinality(S \union {n}) = MaxRepl + 1
    BY <1>3, <2>1, <2>2, FS_AddElement
  <2>5. Cardinality(S \union {n}) <= Cardinality(Terminated \ refuted)
    BY <1>2, <2>3, FS_Subset
  <2>6. Cardinality(Terminated \ refuted) \in Nat
    BY <1>2, FS_CardinalityType
  <2> QED BY <2>4, <2>5, <2>6, RuntimeAssumption
<1> QED BY <1>1, <1>3 DEF Orders

(* Without a cache and with the service up, the paths check finds a        *)
(* correct proof among those it may send.                                  *)
LEMMA PathsFind ==
  ASSUME IInv, Forgetful, Next, ~setup.cache PROVE FindsMissed
<1> SUFFICES ASSUME PathsDue, phase' = "answer", service = "up",
                    Cardinality(Terminated \ refuted) <= MaxRepl,
                    NEW n \in Terminated \ refuted, kind[n] = "good"
             PROVE  found' # NoAnswer
  BY DEF FindsMissed
<1>1. phase = "paths" /\ found = NoAnswer /\ best = NoAnswer
      /\ setup.paths /\ Terminated # {}
  BY DEF PathsDue
<1>2. CheckPaths
  <2>1. ~PathsUnanswered
    BY DEF PathsUnanswered, MayRaise
  <2>2. ~SkipPaths
    BY <1>1 DEF SkipPaths
  <2>3. ~(EndSimulate \/ Flush \/ FlushUnanswered \/ Deliver \/ SearchRaises)
    BY <1>1 DEF EndSimulate, Flush, FlushUnanswered, Deliver, SearchRaises, Searching
  <2>4. ~AnswerRaises /\ ~ServiceChanges
    BY <1>1 DEF AnswerRaises, ServiceChanges
  <2>5. \A k \in Node :
          ~(Grow(k) \/ PutAside(k) \/ CheckEncountered(k) \/ EncounterUnanswered(k))
    BY <1>1 DEF Grow, PutAside, CheckEncountered, EncounterUnanswered, HandedOver, Searching
  <2> QED BY <2>1, <2>2, <2>3, <2>4, <2>5 DEF Next, Generate
<1>3. PICK es \in ChosenPaths : \E r \in Replies(es) : found' \in FirstProved(es, r)
  BY <1>2 DEF CheckPaths
<1>4. \A i \in DOMAIN es : Current(es[i])
  BY PathsAreCurrent DEF IInv
<1>5. PICK i \in DOMAIN es : es[i].node = n
  BY UnrefutedAreSent
<1>6. es[i].good
  BY <1>4, <1>5 DEF Current
<1>7. RemembersFailures(remembered)
  BY DEF Forgetful, RemembersFailures
<1>8. \A j \in DOMAIN es : j \in 1..j
  <2>1. PICK S \in PathsToCheck : DOMAIN es = 1..Cardinality(S)
    BY DEF ChosenPaths, Orders
  <2> QED BY <2>1
<1> QED BY <1>3, <1>4, <1>6, <1>7, <1>8, RepliesAreComplete DEF IInv

(* With the cache switched off, the paths check done with the service up   *)
(* finds every correct proof that was not refuted, if it may send that     *)
(* many, whatever was answered or lost during the search.                  *)
THEOREM UncachedPathsCatchMissed == Spec => UncachedFallbackCatchesMissed
<1>1. Init => Forgetful
  BY DEF Init, Forgetful
<1>2. IInv /\ Forgetful /\ [Next]_vars => [~setup.cache => FindsMissed]_vars
  BY PathsFind
<1> QED
  BY <1>1, <1>2, ForgetfulStep, Invariance, PTL DEF Spec, UncachedFallbackCatchesMissed
=============================================================================
