----------------------------- MODULE TreeThink -----------------------------
(***************************************************************************)
(* TreeThink.generate and async_generate (src/treethink/treethink.py) for  *)
(* a list of prompts, with the one ReplRuntime and the one method they     *)
(* share.                                                                  *)
(*                                                                         *)
(* The search is any that keeps the contract of module TreeSearch; the     *)
(* callback, the flush and the paths check are those of ReplRuntime.       *)
(***************************************************************************)
EXTENDS ReplRuntime

CONSTANT Problems   \* number of prompts

EntryType == [problem : 1..Problems, node : Node, good : BOOLEAN]

ASSUME ProblemsAssumption ==
  Problems \in Nat \ {0} /\ NoAnswer \notin EntryType

VARIABLES
  phase,    \* where generate is: "simulate", "flush", "paths", "answer",
            \* "done", or "crashed" when an exception has left it
  checked,  \* termination nodes handed to the callback
  best,     \* the method's _best_answer with reason CHECKED_AND_TRUE
  found,    \* solution of the flush or of the paths check, or NoAnswer
  results   \* the outputs delivered so far

runtimeVars == <<setup, problem, service, pending, refuted, remembered>>
vars == <<kind, runtimeVars, phase, checked, best, found, results>>

Init ==
  /\ kind = OnlyRoot
  /\ setup \in Setups
  /\ problem = 1
  /\ service = "up"
  /\ pending = << >>
  /\ refuted = {}
  /\ remembered = {}
  /\ phase = "simulate"
  /\ checked = {}
  /\ best = NoAnswer
  /\ found = NoAnswer
  /\ results = << >>

-----------------------------------------------------------------------------
(* method.simulate                                                         *)

Searching == phase = "simulate" /\ best = NoAnswer

Grow(n) ==
  /\ Searching
  /\ IsExpandable(n)
  /\ \E ks \in Samples(n, FALSE) : kind' = WithChildren(n, ks)
  /\ UNCHANGED <<runtimeVars, phase, checked, best, found, results>>

HandedOver(n) ==
  /\ Searching /\ setup.encounter
  /\ n \in Terminated \ checked
  /\ checked' = checked \union {n}
  /\ UNCHANGED <<kind, setup, problem, service, phase, found, results>>

(* Some methods give the node that was refused minus infinity.             *)
Refused(n) == {{}, {n}}

(* A callback that batches puts the node aside until the batch is full.    *)
PutAside(n) ==
  /\ HandedOver(n)
  /\ Len(pending) + 1 < EncounterBatch
  /\ pending' = Append(pending, Entry(n))
  /\ \E S \in Refused(n) : refuted' = refuted \union S
  /\ UNCHANGED <<remembered, best>>

(* The full batch, or with batch size 1 the node alone, is checked; the    *)
(* first proof the answer confirms ends the search.                        *)
CheckEncountered(n) ==
  /\ HandedOver(n)
  /\ Len(pending) + 1 >= EncounterBatch
  /\ pending' = << >>
  /\ LET es == Append(pending, Entry(n)) IN
       \E r \in Replies(es) :
         /\ remembered' = Remember(es, r)
         /\ best' \in FirstProved(es, r)
         /\ \E S \in Refused(n) :
              refuted' = refuted \union S \union
                IF EncounterBatch = 1 THEN {} ELSE {es[i].node : i \in Rejected(r)}

(* The check raises, or brings no results: the callback answers None.      *)
EncounterUnanswered(n) ==
  /\ HandedOver(n)
  /\ Len(pending) + 1 >= EncounterBatch
  /\ MayRaise(Append(pending, Entry(n)))
  /\ pending' = << >>
  /\ \E S \in Refused(n) : refuted' = refuted \union S
  /\ UNCHANGED <<remembered, best>>

(* Solved, out of budget, out of time or out of nodes.                     *)
EndSimulate ==
  /\ phase = "simulate"
  /\ phase' = "flush"
  /\ UNCHANGED <<kind, runtimeVars, checked, best, found, results>>

-----------------------------------------------------------------------------
(* flush_encountered_batch                                                 *)

(* Faulty variant: only a full batch is sent.                              *)
Flush_OnlyFull ==
  /\ phase = "flush"
  /\ phase' = "paths"
  /\ UNCHANGED <<kind, runtimeVars, checked, best, found, results>>

Flush ==
  /\ phase = "flush"
  /\ phase' = "paths"
  /\ pending' = << >>
  /\ \E r \in Replies(pending) :
       /\ remembered' = Remember(pending, r)
       /\ refuted' = refuted \union {pending[i].node : i \in Rejected(r)}
       /\ found' \in FirstProved(pending, r)
       /\ best' = IF found' = NoAnswer THEN best ELSE found'
  /\ UNCHANGED <<kind, setup, problem, service, checked, results>>

(* Faulty variant: the batch is emptied only when the check has answered.  *)
FlushUnanswered_KeepsBatch ==
  /\ phase = "flush" /\ MayRaise(pending)
  /\ phase' = "paths"
  /\ UNCHANGED <<kind, runtimeVars, checked, best, found, results>>

(* The batch was emptied before the check that failed.                     *)
FlushUnanswered ==
  /\ phase = "flush" /\ MayRaise(pending)
  /\ phase' = "paths"
  /\ pending' = << >>
  /\ UNCHANGED <<kind, setup, problem, service, refuted, remembered, checked,
                 best, found, results>>

(* check_terminated_paths, unless a verified proof is known already.       *)
SkipPaths ==
  /\ phase = "paths"
  /\ found # NoAnswer \/ best # NoAnswer \/ ~setup.paths \/ Terminated = {}
  /\ phase' = "answer"
  /\ UNCHANGED <<kind, runtimeVars, checked, best, found, results>>

PathsDue ==
  /\ phase = "paths" /\ setup.paths
  /\ found = NoAnswer /\ best = NoAnswer /\ Terminated # {}

CheckPaths ==
  /\ PathsDue
  /\ \E es \in ChosenPaths : \E r \in Replies(es) :
       remembered' = Remember(es, r) /\ found' \in FirstProved(es, r)
  /\ phase' = "answer"
  /\ UNCHANGED <<kind, setup, problem, service, pending, refuted, checked,
                 best, results>>

PathsUnanswered ==
  /\ PathsDue
  /\ \E es \in ChosenPaths : MayRaise(es)
  /\ phase' = "answer"
  /\ UNCHANGED <<kind, runtimeVars, checked, best, found, results>>

-----------------------------------------------------------------------------
(* The output: what was found, else best_answer, which is computed from    *)
(* the tree when the search has set none.  Then the method is reset for    *)
(* the next prompt.  What the cache knows about other prompts is never     *)
(* asked for again, so it is dropped here.                                 *)
Deliver ==
  /\ phase = "answer"
  /\ \E unchecked \in {Entry(n) : n \in Leaves} :
       LET solution == IF found # NoAnswer THEN found
                       ELSE IF best # NoAnswer THEN best ELSE unchecked
       IN  results' = Append(results,
             [problem |-> solution.problem, good |-> solution.good,
              checked_and_true |-> found # NoAnswer \/ best # NoAnswer])
  /\ IF problem < Problems THEN problem' = problem + 1 /\ phase' = "simulate"
                           ELSE problem' = problem /\ phase' = "done"
  /\ kind' = OnlyRoot
  /\ refuted' = {} /\ checked' = {} /\ remembered' = {}
  /\ best' = NoAnswer /\ found' = NoAnswer
  /\ UNCHANGED <<setup, service, pending>>

(* An exception leaves generate: out of a synchronous search, out of the   *)
(* asynchronous batching callback when it reads what a full batch was      *)
(* answered, or out of reading an answer after the search.  The samplers   *)
(* do not use the object again.                                            *)
SearchRaises ==
  /\ Searching /\ ~setup.async
  /\ phase' = "crashed"
  /\ UNCHANGED <<kind, runtimeVars, checked, best, found, results>>

AnswerRaises ==
  /\ \/ Searching /\ setup.encounter /\ EncounterBatch > 1
        /\ \E n \in Terminated \ checked :
             LET es == Append(pending, Entry(n)) IN
             /\ Len(es) >= EncounterBatch
             /\ \E r \in Replies(es) : MayCrash(es, r)
     \/ phase = "flush" /\ \E r \in Replies(pending) : MayCrash(pending, r)
     \/ PathsDue /\ \E es \in ChosenPaths : \E r \in Replies(es) : MayCrash(es, r)
  /\ phase' = "crashed"
  /\ UNCHANGED <<kind, runtimeVars, checked, best, found, results>>

(* The service breaks and recovers as it likes.                            *)
ServiceChanges ==
  /\ phase \notin {"done", "crashed"} /\ ~setup.reliable
  /\ service' \in {"up", "flaky"} \ {service}
  /\ UNCHANGED <<kind, setup, problem, pending, refuted, remembered, phase,
                 checked, best, found, results>>

Generate ==
  \/ EndSimulate \/ Flush \/ FlushUnanswered \/ SkipPaths \/ CheckPaths
  \/ PathsUnanswered \/ Deliver \/ SearchRaises \/ AnswerRaises
  \/ \E n \in Node :
       Grow(n) \/ PutAside(n) \/ CheckEncountered(n) \/ EncounterUnanswered(n)

Next == Generate \/ ServiceChanges

Spec == Init /\ [][Next]_vars

-----------------------------------------------------------------------------
(* Properties.                                                             *)

(* Every variable keeps its type and the nodes form a tree.                *)
TypeOK ==
  /\ TreeShape
  /\ setup \in Setups
  /\ problem \in 1..Problems
  /\ service \in {"up", "flaky"}
  /\ pending \in Seq(EntryType)
  /\ refuted \subseteq Node /\ checked \subseteq Node
  /\ \A f \in remembered : f.snippet.problem = problem /\ f.proved \in BOOLEAN
  /\ phase \in {"simulate", "flush", "paths", "answer", "done", "crashed"}
  /\ best \in EntryType \union {NoAnswer}
  /\ found \in EntryType \union {NoAnswer}
  /\ results \in Seq([problem : 1..Problems, good : BOOLEAN, checked_and_true : BOOLEAN])

(* An output that says checked_and_true carries a correct proof, whichever *)
(* of callback, batch, flush, cache and paths check it came from and       *)
(* however the service failed on the way.                                  *)
VerifiedIsCorrect ==
  \A i \in DOMAIN results : results[i].checked_and_true => results[i].good

(* Output number i answers prompt number i: no proof that waited in the    *)
(* batch of one prompt ends up as the solution of another.                 *)
AnswersItsProblem ==
  \A i \in DOMAIN results : results[i].problem = i

(* With a reliable service, a correct proof that the search handed over is *)
(* reported, also when it sat in a batch that was never full.              *)
ReliableServiceLosesNothing ==
  phase = "answer" /\ setup.reliable /\ (\E n \in checked : kind[n] = "good")
    => found # NoAnswer \/ best # NoAnswer

(* The paths check, done with the service up, finds a correct proof that   *)
(* was not refuted, if it may send that many.                              *)
FindsMissed ==
  /\ PathsDue /\ phase' = "answer" /\ service = "up"
  /\ Cardinality(Terminated \ refuted) <= MaxRepl
  /\ \E n \in Terminated \ refuted : kind[n] = "good"
  => found' # NoAnswer

(* "Fallback path -- catches proofs missed by on-encounter (e.g. if the    *)
(* REPL was temporarily unavailable during search)" (docs/termination.md). *)
(* The code does not keep this: the failure is remembered by the cache.    *)
FallbackCatchesMissed == [][FindsMissed]_vars

(* It does keep it with the cache switched off, whatever was answered or   *)
(* lost during the search.                                                 *)
UncachedFallbackCatchesMissed == [][~setup.cache => FindsMissed]_vars
=============================================================================
