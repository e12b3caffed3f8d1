# A TLA+ model of treethink

treethink searches for formal proofs (Lean, Rocq, Isabelle) and for answers in
natural language.  A language model, the *policy*, proposes continuations of a
partial proof; an *evaluator* scores them; a *search method* decides which partial
proof is continued next; a *proof assistant* behind a client judges finished
proofs.  This directory holds TLA+ modules of that machinery, TLC
configurations that check them on small instances, and theorems checked by
TLAPS for all instances.

Paths below are relative to `src/src/treethink/` unless they start with `docs/`
or `src/`.

## 1. Inventory

| component | state it keeps | operations | talks to |
|---|---|---|---|
| Search tree (`methods/node.py`, `methods/base_method.py`) | children, level, parent, `win_value`, `visits`; `_best_answer` and its reason | add children, remove duplicates, expand, find leaves, reset | policy and evaluator (called in `expand`), every method |
| Rollout-free MCTS (`methods/rf_mcts.py`, `_uct.py`) | values and visits, `termination_checked_nodes`, budget | select by UCT, hand a termination node to the callback, expand, backpropagate, compute the answer | termination callback, expansion |
| Priority-queue search (`methods/bfts.py`) | a heap of `(-win_value, id, node)` | pop, hand over, expand, push children, compute the answer | same |
| Beam search (`methods/beam.py`) | the beam, layer counter | expand a layer, keep the k best, stop early | same; the asynchronous one expands a layer concurrently |
| Traditional MCTS (`methods/traditional_mcts.py`) | as RFMCTS, plus `rollout_output` | select, expand, roll out, backpropagate | rollout policy and evaluator |
| Method factory (`methods/method_factory.py`) | none | build the configured method | every method, policy and evaluator |
| Driver (`treethink.py`) | one method, one runtime | `generate` / `async_generate` over a list of prompts | method, runtime |
| REPL runtime (`repl_runtime.py`, `termination.py`) | `_pending_encountered`, a batch of (node, proof) | callback, batch flush, check of terminated paths | client, method (writes `best_answer` and `win_value`) |
| Proof cache (`clients/cache.py`) | an LRU map from snippets to answers | check: look up, ask for the misses, store, merge | inner client; several tasks |
| Rocq, Isabelle, Lean clients (`clients/`) | connection pools, servers | check a list of proofs, start, close | external servers; threads and tasks |
| Evaluators (`evaluators.py`, `async_evaluators.py`) | judge caches, the novelty tracker of RMaxTS | score a list of nodes, tournament | client, judge model, tree |
| Policies (`policies.py`, `async_policies.py`) | sampling parameters that are shared and lowered | sample children | language model |
| Samplers (`sampler.py`) | the entries of the data set, a semaphore | run the driver over a dataset, in batches or concurrently; skip what has a tree file | driver, shared policy and evaluator, tree files |
| Command line (`cli/`, `src/examples/run_sampler.py`) | the iteration, answers files, tree directories | start, restart, run iterations, put trees away | samplers, client constructors |
| Tree file (`methods/node.py`, `graph.py`) | a Graphviz text | write the tree, extract the solution, build a tree from it | driver, tools |

How they interact.  The driver builds a callback from the runtime and passes it
to `simulate`.  The method calls it with a termination node: the callback asks
the client at once, or puts the node aside until a batch is full.  When the
search is over the driver flushes the batch, and if nothing is verified yet it
sends the terminated leaves.  Everything a search records (the best answer,
minus infinity on refused nodes) is written from both sides: by the method, and
by the runtime behind the method's back.

What is hard about it:

* *Statistics with infinities.*  Refused proofs get minus infinity and unvisited
  nodes plus infinity; both flow through the same sums and comparisons.
* *Two sides, one result.*  A proof may be verified by a callback, by a batch
  that fills up later, by the flush or by the paths check; the answer to one
  check can be about a node handed over long before.
* *Partial failure.*  Policies, evaluators and clients raise; the synchronous
  variants let most exceptions out, the asynchronous ones count them and go on
  with a half-expanded tree.
* *State that outlives its use.*  The batch, the cache, the novelty tracker and
  the sampling parameters survive from one prompt to the next.
* *Sharing.*  Asynchronous beam search and the asynchronous sampler run tasks
  over a shared cache, pool, policy and evaluator.

What makes each component correct:

* search methods: a finished proof is handed over at most once, the search is
  reported as solved only with a proof that was confirmed, statistics stay
  consistent through failures, nothing waiting is lost but through failures, the order is the
  documented one (modules `RFMCTS`, `BFTS`, contract `TreeSearch`);
* driver and runtime: *checked and true* is only said of correct proofs of the
  prompt at hand, and a reliable service loses nothing (`TreeThink`);
* cache: answers stay with their snippets, the limit and the order of use are kept,
  concurrent checks do not corrupt it (`ProofCache`);
* pools: one proof at a time on a connection, no connection lost, every check ends
  (`RocqPool`);
* beam search: the beam is the best of its level; traditional MCTS: visits count
  expansions; both report verified proofs only, under every policy and evaluator
  (`Methods`);
* a whole job: answers belong to their iteration, no problem is forgotten by crashes,
  restarts and iterations, what searches share is kept apart, the job ends
  (`SamplingJob`);
* tree files: the solution can be read off, a rebuilt tree is the same tree (`TreeFile`).

The full list of hazards, each at its line, is under `hazards` in
`PROJECT.json`, with the properties that watch it or the reason none does yet.

## 2. Modules

```
SearchTree ── TreeSearch (abstract contract)
    │
    ├── RFMCTS ──── implements TreeSearch
    ├── BFTS ────── implements TreeSearch
    ├── ReplRuntime ── TreeThink (driver; its search is any that keeps the contract)
    │
    ├── Policies ─────────────────┐
    └── Evaluators (Tournament) ──┴── Expansion ─┬── Beam ────────────┐
                                                 └── TraditionalMCTS ─┴── Methods ── MethodsMC
                                                     (selects as RFMCTS)   implements TreeSearch

Bracket (Tournament) ┐
Novelty ─────────────┤
Isabelle ────────────┼── SamplingJob ── SamplingJobMC    a whole run of the program
TreeFile ────────────┘

ProofCache      the cache under concurrent checks
RocqPool        the connections of the Rocq clients

SearchTreeProofs ── RFMCTSProofs, BFTSProofs, MethodsProofs   the tree and the methods
TreeThinkProofs                                               driver and runtime
ProofCacheProofs                                              the cache
RocqPoolProofs                                                the pool
SamplingJobProofs                                             the job
```

**SearchTree** names a `Node` object by its place, the sequence of child positions
from the root, so parent pointers, levels and the walk to the root need no state
and cannot be changed, as in the code.  `kind[n]` says whether the node exists
and keeps of its text what the search tells apart: an ordinary step, or the
termination string below a correct or an incorrect proof.  `Samples` is the
policy: any list of one to `MaxChildren` texts.  Termination children of one
parent have the same text, hence the same proof and the same verdict.

**TreeSearch** is what `generate` may expect of any `simulate`: the tree grows at
leaves only, a termination node is handed over at most once, and the search is
solved exactly when it records a proof that was handed over and is correct.

**RFMCTS** has one action per way a round of the loop can go: `Solve`, `Refute`,
`Expand`, `ExpandNothing`, `ExpandRaises`, `Stall`, and `Return` when the budget or the
time is used up.  The UCT formula is abstracted to what it decides: an unvisited
child weighs plus infinity, a refuted one minus infinity, and among the others
any may win.  `opts` chooses between the synchronous and the asynchronous
variant, with or without deduplication, with no callback, one that answers at
once or one that batches; a batching callback may answer about any node handed
over so far, which is more than the runtime does (`TreeThink` models it exactly).
`opts.awaits` is false for a policy object with an `async __call__`:
`inspect.iscoroutinefunction` does not recognise it, and without deduplication
`async_expand` then never runs the policy.  What is there when an expansion raises is
`LeftBehind`: with deduplication, awaiting the `None` of a synchronous policy comes before
duplicates are dropped, so they may still be there.
`BestAnswer` is the final decision when no proof was verified, in the three modes of
`opts.mode`: native and `maximize_value` walk down as UCT does (an exploration weight of
zero leaves the weight of an unvisited child infinite), `maximize_visits` takes the most
visited child and breaks ties by value.  `reset()` does not pass the mode on, so under the
driver it is always the default, `maximize_visits`.

**BFTS** has the heap as a set of records; the key is fixed when a node is
pushed, equal keys are popped in any order (the code compares `id()`s).
`BestAnswer` is the lazy computation of the final answer in both decision modes.
A failed expansion loses its node or the children just made; `LossesAreCounted` says that
this is all that is ever lost, by finding for the `Missing` leaves as many nodes as there were
failures that explain them.

**ReplRuntime** holds the batch, the refuted nodes and the cache, and says what a
check of a list of proofs can bring: from the cache what is there, from the
service the truth while it is up, and anything but a false confirmation while
it is flaky.  **TreeThink** orders the phases of a generation: `simulate`, `flush`,
`paths`, `answer`, for each prompt, with `ServiceChanges` at any moment.  Its
search may do all that `TreeSearch` allows; the failures modelled are a check
that raises, a check that answers nothing, a synchronous search that raises and
a response the asynchronous adapters cannot read (`AnswerRaises`), in the flush, in the
paths check, and in the callback when it fills a batch during the search.

**ProofCache** is the cache at full detail: the `OrderedDict` as a sequence, the lookup
of a whole list as one step, the reply stored and merged in another, and any other
task's steps between them (a task gives up the event loop only at the `await`).
With `concurrent` false at most one check is under way, which is the synchronous
client.  A reply may be too short or missing (`IndexError`, `KeyError`) and the inner
client may raise.  `maxsize` ranges from 0.  `ReplRuntime` uses a simpler cache, which
never evicts, because one generation is far from the limit.

**RocqPool** follows each group of a check through its thread: queued for a worker,
before `_ensure_client`, opening, connecting, working; it may raise in each of the
last three.  `variant` "threads" is
`RocqClient`, whose executor waits for all groups even when one raises; "tasks" is
`AsyncRocqClient`, which allows concurrent checks and whose `gather` does not wait.
Group `i` uses slot `i % batch_size` in every check.

**Policies** says for each policy class what a call can leave on a node (all texts that were
asked for, those whose request came through, or none) and whether it raises: all but the two
server policies may, since they call the prompter they were given outside the `try`.
**Evaluators** says for each evaluator which values it can give and whether it raises;
values are ranks from 0 to `MaxScore`, since searches only compare and add them.
The ranking of a tournament is stated by **Tournament** without the bracket: in round `r` lose as
many as the halving of the field says, and score `r`.  **Expansion** is
`expand`, `expand_rm_dupes` and their twins of `BaseMethod` over these, the four
variants as options of a set-up; an asynchronous search that awaits what
is no coroutine, and one that throws a coroutine away, are among its outcomes.

**Beam** has one action per node of the beam (`Solve`, `Refuse`, `Skip`, `Expand`) and one
per end of a layer.  The synchronous search takes the nodes in order; the
asynchronous one probes all proofs first and expands the others in any order, as
`gather` may finish them.  `TimeUp` drops the rest of a layer and lets the search
go on, because the clock is restarted for every layer.  `Width` and `TieBreaker` are
the defaults after a reset.  A search constructed with its root (`opts.rooted`) has the beam
`[None]` and raises in its first layer (`NoBeam`); the driver's way, `reset()` and then
`set_root_node`, gives it the root.  **TraditionalMCTS** selects by the formula of
`RFMCTS` (instantiated as `UCT`); its rounds differ in what they count: the ancestors of
the selected node are visited, not the node, a refused proof is not visited at all,
and an expansion that raised counts as failed but visits nobody.  **Methods** is
`MethodType.initialize`: one specification whose `opts.method` says which of the two
runs.  `KeepsContract` names the one variant that does not implement
`TreeSearch`: the synchronous beam search goes on after a success.

**SamplingJob** is one run of the program over a data set.  A problem goes through
`Start`, the evaluator calls of its search, `EndSearch`, `Save` and `Deliver` (or
`Respond` and `EndBatch` in the synchronous sampler); `Raise` and `RaiseAll` are
what an exception does in each sampler (an entry of the asynchronous one keeps `error`,
`graph_stats` and `checked_and_true` of earlier iterations until they are overwritten), `Skip` is `_check_if_processed`, `Crash` kills
the process and leaves files and server behind, `StartJob` starts it again,
`WriteAnswers` and `NextIteration` are the loop over iterations.  What the searches
share comes from modules of its own: **Isabelle**, the start-up of server and session with
an `await` between any two of its actions (what a start that failed stored of server and client stays
stored), the constructor of the synchronous client and the semaphore of a check; **Novelty**, the memory of the RMaxTS evaluator, which knows a tree
by an `id()` that may be given out again; **Bracket**, the tournament slot by slot, with
byes and judges, compared with the `Ranking` of `Tournament`; **TreeFile**, the text of a
tree with its escapes and colours, the solution read off it, and the tree built from it.
In `TreeFile`, `Escaped` is `json.dumps`, which escapes every control character and every character
that is not ASCII; `Unescaped` undoes only line breaks (`Replaced`), and the rest only if a
`\u` is in the label (`HasCode`, `Decoded`); `LooksRed` finds `color=red` anywhere in a
line, the text of its node included.  What is claimed of a text (`Legible`) follows from that.

The operators called *faulty variant* are not part of the model; each stands next
to the operator it would replace and is what a plausible slip in that line of
the code would make of it.  The `mutants` of `PROJECT.json` name for every
property a variant that breaks it.

## 3. Runs

| run | question | bounds | result |
|---|---|---|---|
| `rfmcts` | are the statistics, the hand-over and the contract kept, is a refuted proof the last resort? | 2 children, depth 2, 5 rounds | holds, 0.90 M states |
| `rfmcts_reselect` | are refuted proofs left alone, as `methods/rf_mcts.py:162` says? | 6 rounds | violated |
| `bfts` | is only lost what failures explain, is nothing stale, is the best expanded first, is the contract kept? | 2 children, depth 2, 4 rounds, values 0..1 | holds, 1.5 M states |
| `bfts_levels` | level by level, as `docs/methods.md:128` says? | depth 3, 3 rounds | violated |
| `bfts_refused` | can the computed answer be a refused proof? | as `bfts` | violated |
| `treethink` | is what is reported correct, of the right prompt, and complete while the service works? | 2 prompts, batch of 2, `max_repl` 2 | holds, 1.8 M states |
| `treethink_fallback` | does the paths check catch what an outage missed, as `docs/termination.md:41` says? | 1 prompt, batch size 1 | violated |
| `proof_cache` | do answers stay with their snippets, is the cache LRU? | 2 tasks, 3 snippets, lists of up to 2, limit 0 to 2, 3 checks | holds, 191 k states |
| `rocq_pool` | do threads keep off each other's connection, does every check end? | 2 connections, up to 3 groups of one proof, 2 checks | holds, 0.75 M states |
| `methods` | is the beam the best of its level, do visits count expansions, is every reported proof verified, is the contract kept, under each policy and evaluator? | 2 children, depth 2, 3 rounds or layers, beams of up to 3, values 0..3, 24 configurations | holds, 0.61 M states |
| `sampling_job` | are answers of their iteration, is no problem forgotten, are tracker, client and tournaments kept in order, can tree files be read, does the job end? | up to 3 problems, 2 iterations, 2 crashes, 2 evaluator calls per search, tournaments of up to 5, trees of up to 4 nodes, 21 configurations | holds, 0.60 M states |
| `rocq_shared` | do threads never share proof state, as `clients/coq/rocq.py:29` and `:501` say? | groups of 2, up to 5 proofs | violated |

Why the bounds are enough.  With two children and depth two there are seven
nodes: a refuted proof can have an unvisited sibling, an expandable one and one
of the same text, and two levels of ancestors to be credited.  Five rounds
expand the root, both its children and hand over two proofs; a batch of two
fills once and is left half full once; `max_repl` 2 cuts off a list of up to four
terminated leaves; two prompts are what a leftover batch needs to go astray.  BFTS's
order needs two values; its level-by-level counterexample needs depth three.
Three checks let one fill the cache, one wait with a hit in hand and one evict that
hit; three groups are more than two connections, two checks let one fail and the
next begin while the first one's threads still run.

Every method is explored with each policy, evaluator, option and callback at least once
(`MethodsMC`), not with each combination of them: policy and evaluator meet the search
only through the outcomes of `Expansion`.  A beam of one leaves candidates out, one
of three has room for more than there are; three layers are one more than the tree
has.  Jobs likewise take each way to run once (`SamplingJobMC`): three problems are
what it takes for two to be at work while one waits, and a batch of two is
left half full once; two iterations make entries that are older than the report, and two
crashes let a restarted job crash again.  Five players fill a bracket with three
byes, so that a bye meets a bye; four nodes are two levels or three siblings.

Deadlock is not checked in any run: all of these programs end, and an ended one
takes no step.  Fairness is assumed in `RocqPool` and `SamplingJob` only.  In
`SamplingJob` it is weak fairness of the job as a whole: the event loop runs a task that
is ready, what a task waits for returns or raises (the clients' and the models'
requests have timeouts or fail with their connection, and a search has a budget),
and a job that crashed is started again; a crash itself is never forced.  `JobEnds` is checked
under it.  In `RocqPool` it is weak fairness of each thread's
next step and of the end of a check.  Threads are scheduled by the operating system,
and each command of a proof runs under `client_args.timeout` (400 seconds) or, if it
begins with `Timeout`, under its own, so a thread that works gets a verdict, an error or
an exception in the end; that connecting, opening a file and starting a proof return
is assumed.  Liveness
(`EveryCheckEnds`) is checked under it.  The searches and the driver state no
liveness: a search whose time and expansion limits are `None` need not end.

### What the violated runs show

* `rfmcts_reselect`: `win_value` of minus infinity does not keep UCT from
  descending to a refuted proof.  When all children of one node are refuted and
  the node itself has a finite value, selection walks into it and ends at the
  first refuted child, in round after round, although other leaves can be
  expanded.
* `bfts_levels`: the search that `docs/methods.md` documents as level by level is
  best-first: a deeper node with a higher value is expanded before a higher one.
* `bfts_refused`: `repl_runtime.py:115` says the immediate path penalises failed
  nodes.  BFTS does not: a refused proof keeps its value, and the frontier rebuilt
  from all leaves may put it first.
* `treethink_fallback`: an answer that reports the failure of the service is
  cached like a verdict, so the paths check is answered from the cache.  With the
  cache off the promise is kept, which `UncachedFallbackCatchesMissed` of run
  `treethink` checks and theorem `UncachedPathsCatchMissed` proves.

* `rocq_shared`: two groups with the same remainder, or the first groups of two
  asynchronous checks, are worked on over one connection at the same time.  Theorem
  `ThreadsStayApart` gives the condition under which the synchronous client is safe.

## 4. Theorems

Every theorem holds for every value of the constants the named `ASSUME`s admit: the
sizes are natural numbers, there is at least one prompt, `NoAnswer` is no node or
entry, and in the trees of which files are read (`TreesAssumption`) nodes are finitely many, have
a parent unless they are the root, and are numbered without a gap among their siblings.

`SearchTreeProofs` holds the lemmas about the tree: paths are linear, a node has
one parent, siblings differ in position, growing a leaf keeps `TreeShape`, and what
a growth adds is new, and there are finitely many nodes.

| module | theorem | states |
|---|---|---|
| `RFMCTSProofs` | `TypeCorrect` | `TypeOK` |
| | `VisitsAreMonotone` | a node has at least the visits of each descendant |
| | `VisitsFlow` | `VisitFlow` |
| | `UnvisitedComeFirst` | `UnvisitedFirst` |
| | `RefutationsStayLocal` | `RefutationIsLocal` |
| | `RefutationsAreFinal` | `RefutedStaysRefuted` |
| | `OnlyVerifiedProofs` | `SolvedByVerifiedProof` (for TLC a part of `ContractSpec`) |
| | `RefutedComesLast` | `RefutedIsLastResort` |
| | `ImplementsTreeSearch` | `ContractSpec`: RFMCTS implements TreeSearch |
| `BFTSProofs` | `TypeCorrect` | `TypeOK` |
| | `FrontierStaysFresh` | `FrontierIsFresh` |
| | `NothingElseGetsLost` | `LossesAreCounted` |
| | `ExpandsBestFirst` | `BestFirst` |
| | `ImplementsTreeSearch` | `ContractSpec`: BFTS implements TreeSearch |
| `TreeThinkProofs` | `TypeCorrect` | `TypeOK` |
| | `VerifiedAnswersAreCorrect` | `VerifiedIsCorrect` |
| | `AnswersFitProblems` | `AnswersItsProblem` |
| | `ReliableLosesNothing` | `ReliableServiceLosesNothing` |
| | `UncachedPathsCatchMissed` | `UncachedFallbackCatchesMissed` |
| `ProofCacheProofs` | `TypeCorrect` | `TypeOK` |
| | `AnswersAboutSnippets` | `AnswersAreAbout` |
| | `CacheHoldsRecent` | `CacheIsRecent` |
| | `SerialVerdictsKept` | `SerialVerdictsStay` |
| `RocqPoolProofs` | `TypeCorrect` | `TypeOK` |
| | `ThreadsStayApart` | `ThreadsDoNotShare` |
| | `NoConnectionGetsLost` | `NoConnectionLost` |
| | `ChecksCleanUp` | `NothingLeftBehind` |
| `MethodsProofs` | `TypeCorrect` | `TypeOK` |
| | `SelectionStaysInformed` | `SelectionIsInformed` |
| | `ProofsBlockSiblings` | `ProofBlocksSiblings` |
| | `OnlyVerifiedProofs` | `ProofsAreVerified` |
| | `ImplementsTreeSearch` | `ContractSpec`: asynchronous beam search and traditional MCTS implement TreeSearch |
| `SamplingJobProofs` | `TypeCorrect` | `TypeOK` |
| | `PraisedOnce` | `NovelOnce` |
| | `ClientsStartUp` | `SessionBeforeCheck` |
| | `AnswersAreFresh` | `EntriesAreFresh` |
| | `NoWorkIsLost` | `WorkIsKept` |
| | `TournamentsAreRankings` | `TournamentRanks` |
| | `SavedTreesTell` | `SavedTreeTells` |

**RFMCTS.**  `TypeOK` with `TreeShape` is inductive: a round either leaves the tree
alone or grows it at the selected leaf (`TreeStep`).  `UnvisitedFirst` is not
inductive: a new child could be born with a visit; `AbsentUnvisited` (nodes that do
not exist have no visits) excludes it, and the selected leaf's siblings were all
visited before it unless it is the first unvisited one (`TowardChild`).
`VisitFlow` counts the visits of the children as a set, each visit by itself (`Through`).
Its invariant says besides that this set is finite (`FlowCounted`); a round
adds at most one pair to the set of a node, and then a visit to the node.
`RefutationIsLocal` needs the tree shape too: a termination node has no
descendants, so no value passes through it, and what `Penalised` adds to its
ancestors is finite.  `RefutationsAreFinal` follows because a refuted node is in
`checked` and every action that changes values or visits starts from a selected
leaf that is not.  `RefutedComesLast` rests on `EndsVisitedOnce`: a termination node has no
visit before it is refuted and exactly one afterwards, so no refuted sibling has more
visits than one that was visited at all, and the tie is broken by value.  `ImplementsTreeSearch` maps a round to `Grow`, `Probe`, `Stop` or a
stutter.

**BFTS.**  The invariant adds to `TypeOK` that the heap holds each node at most once,
under its present value and only while it is a leaf the callback has not seen
(`FrontierIsFresh`), and that only termination nodes were seen (`CheckedEnd`).
That a popped node
leaves the heap and only new children enter it is what makes the callback run at
most once per node, which the contract asks.  `NothingElseGetsLost` carries a set of nodes
along that explains the missing leaves (`Explains`) and gains the expanded node when an expansion
fails.  `ExpandsBestFirst`
follows step by step: what leaves the heap is its head, and a head has the largest
value in it.

**TreeThink.**  The truth of what is reported depends on everything that can write
it: batch, cache and found list.  The invariant says that every pending, found or
best entry is of the prompt at hand (`AboutCurrent`), that sibling termination nodes
agree on their verdict (`SiblingsAgree`), that the cache remembers only correct
snippets as proved (`RemembersTrue`), and how far each phase has come (`Progress`).
`AboutCurrent` is what the clearing of the batch after the flush has to restore
before the next prompt.  `ReliableLosesNothing` needs one more part (`Lossless`):
while the service is up, a correct entry that was handed over is still pending or has
become the best answer, and the batch is empty after the flush.
`UncachedPathsCatchMissed` needs that without a cache nothing is remembered (`Forgetful`), so every
answer comes from the service, and that the cut to `max_repl` spares the proofs that were not
refuted (`UnrefutedAreSent`): if one of them were left out, only others of them would be
sent, and there would be more than `max_repl`.

**ProofCache.**  `CacheInv` ties the store to the order of last use: `Follows` says that the
keys of the entries are the end of `recent` and that no snippet is there twice, for then taking one
out and putting it last does the same to both.  What a list of look-ups or of stored entries does
is a recursive function over its length; `LookedUpFollows` and `StoredFollows` carry `Follows`
along it by induction.  `MissesAre` says that the misses are the positions
without a hit, each once and in order, hence the merge finds an answer for each of them
(`MergedIs`).  `HitsAreAbout` keeps the answers that a waiting check holds, whatever happens to
their entries.  For a cache used by one check at a time the invariant adds that at most one check
waits (`OneAtATime`) and that what it asks for is not in the cache
(`MissesUnknown`), so no entry is replaced by another answer.

**RocqPool.**  A thread that has not ended has a group of an open check (or of a raised
asynchronous one), and the synchronous client has one check open at a time
(`OneCheck`).  If the groups fit the pool, group `g` has slot `g` (`OwnSlot`), so two busy
threads on one slot are the same thread.  From this follows that who is about to fill a
slot found it empty and nobody has filled it since (`OpensEmpty`), hence no connection
is replaced.

**Methods.**  `Sound` says that the nodes are a tree and that checked nodes and answer are
proofs that were handed over.  Every step of either method, whatever policy and evaluator do,
grows the tree at a leaf, hands over one proof or rests (`Step`); from this alone follow
`OnlyVerifiedProofs` and the refinement.  For MCTS the invariant adds that the visits of
a termination node and of absent nodes are zero (`Unvisited`) and that a proof blocks its
siblings (`Blocked`).  That visits count expansions (`Counted`) is inductive with the
count of failed expansions as slack: an expansion adds one to the visits of the ancestors
of a leaf and that leaf to what was expanded below them, unless it failed; a
cardinality needs finite sets, so that finitely many nodes exist is proved first.
For beam search the invariant is what `BeamHoldsBest` says, part by part (`Distinct`,
`Filled`, `Best`, `Frontier`), and that proofs handed over are not deeper than
the beam (`HandedOver`): the next beam's candidates have not been handed over, so no
value among them is minus infinity when the best are chosen.  The proof of `TypeCorrect`
includes that a tournament's shares stay within the scale for any number of players.

**SamplingJob.**  Semaphores are counted in `TypeInv` (`Counted`).  `PraisedOnce` needs that a search
that is alone finds the tracker either in another tree or with everything it was
praised for (`Remembers`), also when its root was given an old `id()`.  `ClientsStartUp` rests on
who is in the middle of a start (`Attended`) and, for searches one at a time, on the first
start having the server to itself (`FirstStart`).  `AnswersAreFresh` needs
that what an entry says of a search it says of its output unless that is an error (`Truthful`), that a waiting problem
has no tree in the output directory except in the first iteration after a crash
(`NothingSaved`), that in the first iteration a waiting problem has no output
(`Unsolved`), and that a finished one is fresh (`DoneIsFresh`).  `NoWorkIsLost` says where the work of each problem is at any moment
(`NothingOwed`).  With `--continue-from-prev` a restart leaves out as many problems as there are
tree files.  That these have trees is `Prefix`, an invariant of the synchronous sampler: the problems
up to the number of files, and those it is done with, have trees; what comes before
the one at work is done; and the files do not reach up to what is not saved yet.  One more file
then stands for the problem at work or an earlier one.  With the asynchronous sampler, which
finishes problems in any order, the invariant fails, and `WorkIsKept` does not claim it.
`TournamentsAreRankings` follows a bracket round by round (`Orderly`): before round `r` the field
that is left sits in the first slots, all others are byes, and who lost in an earlier round has
that round as his score, as many as the halving says.  A round halves the field, rounded up, and the slots
(`WinnersSeated`), so with `2 ** Rounds(n)` slots for `n` players one player is left at the end
(`EnoughSlots`).

`SavedTreesTell` holds of trees of every size and shape; what it says of a text it says of texts that
the reader gives back as they were (`Legible`).  That the file completed
last has a tree and the proof of one of its nodes (`FileIsOfTree`) is inductive; the rest is about the
operators of `TreeFile` (`FilesTell`), in four parts.
The order of the lines is a total order of names (`EarlierTotal`, `EarlierTransitive`), so a finite set
of nodes can be sorted and every node has one line (`InOrderIs`), which is found by its name (`LinesReadAre`);
a label has no mark that the text does not have, and no `color=red` either (`LabelHas`, `LooksAreTrue`).
Children without a gap are numbered up to their number (`NoGap`), and only the group of edges
that was written for a node has children of it, the last one first (`ChildrenAreRead`).
The replacements leave the escapes of tabs and of coded characters in the label of a text without
backslashes, and decoding, which a code in it starts, undoes those; so a legible text comes back
(`LabelTells`), and the red nodes, if they are one path,
come parent first, so what has been read is the proof of the last red node so far; at the end this is
the solution (`SolutionIsExtracted`).  Lines that are joined and split again are the same lines
(`LinesOfJoined`), so merging gives the lines of both texts (`MergedIs`), and the way to a
node collects those of its ancestors (`WordsAreRead`).
What recursive functions and `FlattenSeq` return is proved by showing that their steps can be taken
(`Stepwise`) and that whoever takes them gets the same (`SameSteps`).

Proofs by induction use the library's theorem that a well-founded set has a minimal element
(`WFMin`), stated for sets of numbers as `SetInduction`; the induction theorems that take an operator
as a parameter cannot be used with the installed provers, and neither can what rests on
them.

Only model-checked: `EveryCheckEnds` and `JobEnds`, because liveness under fairness and
`ENABLED` are out of the prover's reach, and the violated runs.  Every invariant and every action
property that a passing run checks is a theorem.

## 5. Abstractions

* Values of RFMCTS are finite or minus infinity; values of BFTS are small numbers
  and minus infinity.  Sums that overflow or become NaN are out of the model.
* Values of the evaluators are ranks 0 to `MaxScore`; in traditional MCTS they are finite or
  minus infinity, as in RFMCTS.  The text of a rollout is not kept, and the answer that
  these two methods compute without a proof is left out.
* In `SamplingJob` a search is its evaluator calls and its verdict; what it does otherwise is
  in the other modules.  Two searches of the asynchronous sampler interleave between
  calls.  `MaxEvaluations`, `MaxPlayers`, `Shapes` and `Texts` are bounds of the model.
* In `TreeFile` a text is a sequence of symbols: line break, tab (for every control character with
  a letter of its own), any other character that is written as a code, backslash, the letters that
  may follow one, what looks like statistics or like a red node, and any other.  A text with a
  backslash, or with a tab and nothing to decode, is not read back as it was; where several nodes
  could be on the solution (a text that begins like its sibling's), or a text looks red, more is
  extracted than the solution.  In these cases only the parts of `Tells` that do not depend on it
  are claimed.  Left out are a number after what looks like statistics, characters outside the basic
  plane (two codes), and escapes `json.dumps` does not write.
* A node's text is one of three kinds.  Proofs of different termination leaves are
  different snippets unless the leaves have the same parent.
* In `ProofCache` an answer is a verdict, always the same for a snippet, or a failure.
* A verdict in `RocqPool` has no content; closing the pool is not modelled.
* The cache of `ReplRuntime` never evicts and answers about one prompt only: the
  snippets of different prompts differ.
* The time limit is a choice to stop; it is looked at where the code looks at it.
* After an exception the driver is not used again (`crashed`): `batched_inference`
  leaves its loop, `_process_single_datapoint` throws the object away.

## 6. Plan

Order of the modules, most important behaviour first:

1. done: `SearchTree`, `TreeSearch`, `RFMCTS`, `ReplRuntime`, `TreeThink`, `BFTS`;
   `ProofCache`, `RocqPool`; `SearchTreeProofs`, `RFMCTSProofs`, `BFTSProofs`,
   `TreeThinkProofs`, `RocqPoolProofs`.
2. done: `Policies`, `Evaluators`, `Expansion`, `Beam`, `TraditionalMCTS`, `Methods`, with
   their refinement of `TreeSearch`, and `MethodsProofs`.
3. done: `Isabelle`, `Novelty`, `Bracket`, `TreeFile`, `SamplingJob`, with crashes, restarts and
   liveness, and `SamplingJobProofs`.
4. done: `ProofCacheProofs`; visit flow, tournaments, the uncached paths check,
   `--continue-from-prev` and what a tree file tells as theorems.

Left: the retries of the Lean client's HTTP connection and its batches, next to `RocqPool`; the
answers that beam search and traditional MCTS compute without a proof; the judge's cache under
concurrent tasks, which is `ProofCache` without a limit.

## 7. Not modelled

* Configuration, argument parsing, the dry run, dataset preparation, prompts and
  statistics: stateless, or sums for reports.
* Lean proof text, the infotree and natural-language answer matching: text
  processing over unbounded strings, which unit tests reach better than a model checker.
  The Lean and natural-language clients are thin wrappers of them.
* The lowering of the token limit in the shared sampling parameters: it decides which
  texts come, and a policy here is the set of texts that can come.
* Intermediate saves of outputs, which nothing reads again; `stop()` and `close()` of
  clients, which are called by hand when nothing runs; the counters of the cache.
* The language model, the judge and the proof assistants are external; they appear as the
  choices they can make.
