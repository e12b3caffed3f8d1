---------------------------- MODULE ReplRuntime ----------------------------
(***************************************************************************)
(* How termination nodes reach the proof assistant                         *)
(* (src/treethink/repl_runtime.py, src/treethink/termination.py) through   *)
(* the caching client (src/treethink/clients/cache.py).                    *)
(*                                                                         *)
(* This module defines what one check of a list of proofs can come back    *)
(* with and what it leaves behind; module TreeThink puts the checks in the *)
(* order of a generation.                                                  *)
(***************************************************************************)
EXTENDS SearchTree

CONSTANTS
  EncounterBatch,  \* termination_on_encounter.batch_size; 1 sends at once
  MaxRepl,         \* termination_on_paths.max_repl
  NoAnswer

ASSUME RuntimeAssumption ==
  EncounterBatch \in Nat \ {0} /\ MaxRepl \in Nat \ {0}

VARIABLES
  setup,      \* the configuration of the run; never changes
  problem,    \* number of the prompt at work
  service,    \* "up", or "flaky": checks may fail in any way
  pending,    \* _pending_encountered
  refuted,    \* nodes of the tree whose win_value is minus infinity
  remembered  \* the ProofCache: what was answered about which snippet

Setups ==
  [encounter : BOOLEAN,  \* termination_on_encounter.enabled
   paths     : BOOLEAN,  \* termination_on_paths.enabled
   cache     : BOOLEAN,  \* client_args.enable_cache
   async     : BOOLEAN,  \* async_generate instead of generate
   reliable  : BOOLEAN]  \* the service is never flaky

(* What _batch_callback and check_terminated_paths keep of a node: the     *)
(* proof is spelled out when the entry is made.                            *)
Entry(n) == [problem |-> problem, node |-> n, good |-> kind[n] = "good"]

(* Equal snippets: the same problem, and termination nodes of one parent.  *)
Snippet(e) == [problem |-> e.problem, above |-> Front(e.node)]

Record(e, proved) == [snippet |-> Snippet(e), proved |-> proved]
Known(e) == \E proved \in BOOLEAN : Record(e, proved) \in remembered

Asked(es) == {i \in DOMAIN es : ~Known(es[i])}

(* CachedClient.check raises when the service does.                        *)
MayRaise(es) == service = "flaky" /\ Asked(es) # {}

(* The results a check of the entries may bring: from the cache as they    *)
(* are there, from the service correct ones; a flaky service may fail to   *)
(* confirm a correct proof, but nothing confirms a wrong one.              *)
Replies(es) ==
  {r \in [DOMAIN es -> BOOLEAN] :
     \A i \in DOMAIN es :
       IF Known(es[i]) THEN Record(es[i], r[i]) \in remembered
       ELSE IF service = "up" THEN r[i] = es[i].good
       ELSE r[i] => es[i].good}

(* Every answer of the service is cached, failures included; of equal      *)
(* snippets in one call the last one stays.                                *)
Remember(es, r) ==
  IF ~setup.cache THEN remembered
  ELSE remembered \union
         {Record(es[i], r[i]) : i \in
            {j \in Asked(es) : \A k \in Asked(es) :
               Snippet(es[k]) = Snippet(es[j]) => k <= j}}

(* The results are read in order up to the first success: the entries that *)
(* were rejected, and the one whose proof path is returned.                *)
Rejected(r) == {i \in DOMAIN r : \A j \in 1..i : ~r[j]}

(* Faulty variant: the proof path of the last entry is returned.           *)
FirstProved_LastOfBatch(es, r) ==
  IF Rejected(r) = DOMAIN r THEN {NoAnswer} ELSE {es[Len(es)]}

FirstProved(es, r) ==
  IF Rejected(r) = DOMAIN r THEN {NoAnswer}
  ELSE {es[i] : i \in {j \in DOMAIN r : r[j] /\ \A k \in 1..(j - 1) : ~r[k]}}

(* The asynchronous Lean adapter does not expect a result without a        *)
(* response; reading one escapes from flush and from the paths check.      *)
MayCrash(es, r) ==
  setup.async /\ \E i \in Rejected(r) : service = "flaky" \/ Known(es[i])

(* Terminated leaves that check_terminated_paths sends: all of them, or    *)
(* the max_repl best, refuted ones last.                                   *)
Terminated == {n \in Present : IsTermination(n)}

(* Faulty variant: the leaves are cut off without sorting them.            *)
PathsToCheck_Unsorted ==
  IF Cardinality(Terminated) < MaxRepl THEN {Terminated}
  ELSE {S \in SUBSET Terminated : Cardinality(S) = MaxRepl}

PathsToCheck ==
  IF Cardinality(Terminated) < MaxRepl THEN {Terminated}
  ELSE {S \in SUBSET Terminated :
          /\ Cardinality(S) = MaxRepl
          /\ \A m \in S, n \in Terminated \ S : n \notin refuted => m \notin refuted}

Orders(S) == {es \in [1..Cardinality(S) -> {Entry(n) : n \in S}] :
                \A n \in S : \E i \in DOMAIN es : es[i].node = n}

ChosenPaths == UNION {Orders(S) : S \in PathsToCheck}
=============================================================================
