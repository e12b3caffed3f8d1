---------------------------- MODULE SamplingJob ----------------------------
(***************************************************************************)
(* One run of the program over a data set: the samplers                    *)
(* (src/treethink/sampler.py), the loop over iterations that writes their  *)
(* answers and files away their trees                                      *)
(* (src/treethink/cli/helpers/iteration.py), and the command that starts   *)
(* it, again after a crash too (src/treethink/cli/commands/run.py).        *)
(*                                                                         *)
(* The searches themselves are in other modules.  What they share is here: *)
(* the entries of the data set, the directory of tree files, and the one   *)
(* evaluator with its novelty tracker or its client.  In the asynchronous  *)
(* sampler a search runs alone between two awaits.                         *)
(***************************************************************************)
EXTENDS Isabelle, Bracket, Novelty, TreeFile

CONSTANTS
  DataSize,        \* problems in the largest data set
  MaxIterations,   \* largest --num-iterations
  MaxEvaluations,  \* bound of the model: evaluator calls of one search
  MaxPlayers,      \* nodes evaluated together
  ProofState,      \* what state_fn can return for the nodes of a search
  RootId,          \* what id() can return for a root
  Shapes, Texts,   \* nodes and texts of the trees of which files are read
  NoFile,
  Setups           \* configurations to explore

ASSUME JobAssumption ==
  /\ DataSize \in Nat \ {0} /\ Task = 1..DataSize
  /\ MaxIterations \in Nat \ {0} /\ MaxEvaluations \in Nat
  /\ MaxPlayers \in Nat \ {0}
  /\ NoRoot \notin RootId

(* A tree has a root, every node but the root has a parent, and the        *)
(* children of a node are a list.                                          *)
ASSUME TreesAssumption ==
  /\ \A shape \in Shapes :
       /\ IsFiniteSet(shape) /\ shape \subseteq Seq(Nat \ {0}) /\ <<>> \in shape
       /\ \A n \in shape \ {<<>>} :
            /\ Front(n) \in shape
            /\ \A k \in 1..Last(n) : Append(Front(n), k) \in shape
  /\ \A t \in Texts : t \in Seq(ToSet(t))

VARIABLES
  opts,       \* configuration and command line; never changes
  job,        \* state of the process
  iter,       \* iteration it is in
  crashes,    \* crashes so far
  pc,         \* where each problem is
  entry,      \* the dictionary of each problem, or its copy among the results
  verified,   \* checked_and_true of the search that has just ended
  left,       \* evaluator calls a search may still make
  root,       \* id() of the root of the search, or NoRoot
  praised,    \* how often a search got the reward for a new state
  tracker,    \* the evaluator's _RMaxNoveltyTracker
  bracket,    \* the tournament a search is waiting for
  trees,      \* number of tree files of a problem in graph_path
  file,       \* the tree and the solution of the file completed last
  moved,      \* problems with tree files in some graphs_<i>
  report,     \* the answers file written last
  delivered,  \* problems whose output is in some answers file
  raised      \* problems that raised since the process started

searchVars == <<verified, left, root, praised, tracker, bracket, phase,
                connected, session, process, server, broken>>
fileVars   == <<trees, file, moved, report, delivered>>
vars       == <<opts, job, iter, crashes, pc, entry, raised, searchVars, fileVars>>

Setup ==
  [size : 1..DataSize, async : BOOLEAN, iterations : 1..MaxIterations,
   concurrent : 1..DataSize, batch : 1..DataSize, skip : BOOLEAN,
   resume : BOOLEAN, crashes : Nat,
   graphs : {"none", "output", "elsewhere", "file"},
   alike : {"none", "prefix", "all"},
   evaluator : {"plain", "repl", "tournament", "rmaxts"},
   client : {"ready", "isabelle"}, shuffle : BOOLEAN, read : BOOLEAN]

ASSUME SetupAssumption == Setups \subseteq Setup

Data == 1..opts.size

Each(x) == [d \in Task |-> x]

Unpraised == [s \in ProofState |-> 0]
NoBracket == [slots |-> <<>>, round |-> 0, score |-> <<>>]

(* A dictionary of the data set before anything is stored in it.  `output',*)
(* `true', `stats' and `error' are the iteration that put an output,       *)
(* checked_and_true = True, graph_stats and an error there, 0 if none did. *)
Untouched == [output |-> 0, true |-> 0, stats |-> 0, error |-> 0, skipped |-> FALSE]

(* The output is an ERROR.                                                 *)
Failed(e) == e.error > 0 /\ e.error = e.output

Busy == {d \in Data : pc[d] \in {"search", "found", "saved"}}

-----------------------------------------------------------------------------
(* Starting the program.                                                   *)

(* How many of the given files belong to the first problems.               *)
FilesUpTo(files) ==
  LET upTo[d \in 0..DataSize] == IF d = 0 THEN 0 ELSE upTo[d - 1] + files[d]
  IN  upTo

TreeFiles == IF opts.graphs = "output" THEN FilesUpTo(trees)[opts.size] ELSE 0

(* Faulty variant: one problem too many is taken for done.                 *)
Dropped_OffByOne == IF opts.resume /\ TreeFiles > 0 THEN TreeFiles + 1 ELSE 0

(* --continue-from-prev counts the tree files in the output directory.     *)
Dropped == IF opts.resume THEN TreeFiles ELSE 0

Launch(n) ==
  /\ iter' = 1
  /\ pc' = [d \in Task |-> IF d <= n THEN "dropped" ELSE "waiting"]
  /\ entry' = Each(Untouched)
  /\ raised' = {}

Init ==
  /\ opts \in Setups
  /\ job = "off" /\ iter = 1 /\ crashes = 0
  /\ pc = Each("waiting") /\ entry = Each(Untouched) /\ raised = {}
  /\ verified = Each(FALSE) /\ left = Each(0) /\ bracket = Each(NoBracket)
  /\ root = Each(NoRoot) /\ praised = Each(Unpraised) /\ tracker = Forgotten
  /\ IsaInit
  /\ trees = Each(0) /\ file = NoFile /\ moved = {}
  /\ report = [iter |-> 0, entry |-> <<>>]
  /\ delivered = {}

StartsServer == opts.client = "isabelle" /\ ~opts.async

StartJob ==
  /\ job \in {"off", "crashed"}
  /\ job' = "running"
  /\ Launch(Dropped)
  /\ IF StartsServer THEN Constructed ELSE UNCHANGED isaVars
  /\ UNCHANGED <<opts, crashes, verified, left, root, praised, tracker, bracket,
                 fileVars>>

(* setup_model raises, and so does the command.                            *)
StartFails ==
  /\ job \in {"off", "crashed"} /\ StartsServer
  /\ job' = "aborted"
  /\ NotConstructed
  /\ UNCHANGED <<opts, iter, crashes, pc, entry, raised, verified, left, root,
                 praised, tracker, bracket, fileVars>>

(* A tree that is being written when something happens leaves a file.      *)
PartlySaved(D) ==
  trees' = [d \in Task |-> IF d \in D THEN trees[d] + 1 ELSE trees[d]]

Saving == {d \in Data : pc[d] = "found" /\ opts.graphs \in {"output", "elsewhere"}}

(* The process dies.  Files stay, and so does a server it has started.     *)
Crash ==
  /\ job \in {"running", "written"} /\ crashes < opts.crashes
  /\ job' = "crashed" /\ crashes' = crashes + 1
  /\ \E D \in SUBSET Saving : PartlySaved(D)
  /\ verified' = Each(FALSE) /\ left' = Each(0) /\ bracket' = Each(NoBracket)
  /\ root' = Each(NoRoot) /\ praised' = Each(Unpraised) /\ tracker' = Forgotten
  /\ phase' = Each("idle") /\ broken' = {}
  /\ connected' = FALSE /\ session' = FALSE /\ process' = "none"
  /\ UNCHANGED <<opts, iter, pc, entry, raised, server, file, moved, report,
                 delivered>>

-----------------------------------------------------------------------------
(* Taking up a problem.                                                    *)

(* The semaphore of the asynchronous sampler lets any waiting task in; the *)
(* synchronous one takes the problems of a batch in order.                 *)
InTurn(d) ==
  /\ Busy = {}
  /\ \A e \in Data : e < d => pc[e] # "waiting"
  /\ Cardinality({e \in Data : pc[e] = "answered"}) < opts.batch

(* Faulty variant: the semaphore lets one task more in.                    *)
Free_OneMore(d) ==
  IF opts.async THEN Cardinality(Busy) <= opts.concurrent ELSE InTurn(d)

Free(d) ==
  IF opts.async THEN Cardinality(Busy) < opts.concurrent ELSE InTurn(d)

(* The pattern tree_<id>_*.txt also fits the files of a problem whose id   *)
(* begins with <id>_, and all files when no problem has an id.             *)
Fits(d) ==
  CASE opts.alike = "none"   -> {d}
    [] opts.alike = "prefix" -> IF d = 1 THEN Data ELSE {d}
    [] opts.alike = "all"    -> Data

(* _check_if_processed.  Tree files are named by their problem only in a   *)
(* directory; a graph_path that is none is one file for all.               *)
IsProcessed(d) ==
  /\ opts.graphs \in {"output", "elsewhere"}
  /\ \E e \in Fits(d) : trees[e] > 0

Skips(d) == opts.async /\ opts.skip /\ IsProcessed(d)

Skip(d) ==
  /\ job = "running" /\ pc[d] = "waiting" /\ Free(d) /\ Skips(d)
  /\ entry' = [entry EXCEPT ![d].skipped = TRUE]
  /\ pc' = [pc EXCEPT ![d] = "done"]
  /\ UNCHANGED <<opts, job, iter, crashes, raised, searchVars, fileVars>>

(* A search with a root of its own begins.  An id is free when the tree    *)
(* it belonged to is gone.                                                 *)
Start(d) ==
  /\ job = "running" /\ pc[d] = "waiting" /\ Free(d) /\ ~Skips(d)
  /\ pc' = [pc EXCEPT ![d] = "search"]
  /\ left' = [left EXCEPT ![d] = IF opts.evaluator = "plain" THEN 0 ELSE MaxEvaluations]
  /\ \E r \in IF opts.evaluator = "rmaxts"
              THEN RootId \ {root[e] : e \in Busy} ELSE {NoRoot} :
       root' = [root EXCEPT ![d] = r]
  /\ praised' = [praised EXCEPT ![d] = Unpraised]
  /\ UNCHANGED <<opts, job, iter, crashes, entry, raised, verified, tracker,
                 bracket, isaVars, fileVars>>

-----------------------------------------------------------------------------
(* The evaluator calls of a search.                                        *)

(* The search is not waiting for its evaluator.                            *)
AtWork(d) ==
  /\ job = "running" /\ pc[d] = "search"
  /\ phase[d] = "idle" /\ bracket[d] = NoBracket

Calls(d) ==
  /\ AtWork(d) /\ left[d] > 0
  /\ left' = [left EXCEPT ![d] = @ - 1]

Others == <<opts, job, iter, crashes, pc, entry, raised, verified, root, fileVars>>

(* RMaxTSEvaluator: new states are praised and remembered.                 *)
Praise(d) ==
  /\ opts.evaluator = "rmaxts" /\ Calls(d)
  /\ \E n \in 1..2 : \E ss \in [1..n -> ProofState] :
       LET new == {ss[i] : i \in Novel(tracker, root[d], ss)} IN
       /\ tracker' = Seen(tracker, root[d], ss)
       /\ praised' = [praised EXCEPT ![d] =
                        [s \in ProofState |-> IF s \in new THEN @[s] + 1 ELSE @[s]]]
  /\ UNCHANGED <<Others, bracket, isaVars>>

(* TournamentEvaluator puts the nodes of one call into a bracket; a single *)
(* node has won.                                                           *)
Opened(d) ==
  \E n \in 1..MaxPlayers :
    IF n = 1 THEN UNCHANGED bracket
    ELSE \E b \in Starts(n, opts.shuffle) : bracket' = [bracket EXCEPT ![d] = b]

(* The tournament over a client that answers at once.                      *)
Judge(d) ==
  /\ opts.evaluator = "tournament" /\ opts.client = "ready" /\ Calls(d)
  /\ Opened(d)
  /\ UNCHANGED <<Others, praised, tracker, isaVars>>

PlayRound(d) ==
  /\ job = "running" /\ bracket[d] # NoBracket /\ ~IsOver(bracket[d])
  /\ \E b \in Played(bracket[d]) : bracket' = [bracket EXCEPT ![d] = b]
  /\ UNCHANGED <<Others, left, praised, tracker, isaVars>>

EndTournament(d) ==
  /\ job = "running" /\ bracket[d] # NoBracket /\ IsOver(bracket[d])
  /\ bracket' = [bracket EXCEPT ![d] = NoBracket]
  /\ UNCHANGED <<Others, left, praised, tracker, isaVars>>

(* Evaluators that check proofs wait for the Isabelle client.              *)
Check(d) ==
  /\ opts.evaluator \in {"repl", "tournament"} /\ opts.client = "isabelle"
  /\ Calls(d) /\ Call(d)
  /\ UNCHANGED <<Others, praised, tracker, bracket>>

ClientStep(d) ==
  /\ job = "running" /\ Starting(d)
  /\ UNCHANGED <<Others, left, praised, tracker, bracket>>

(* The tournament asks the client for proof states without awaiting them,  *)
(* so with the asynchronous client it raises as soon as there is an answer *)
(* to read them from, and the search goes on.                              *)
CheckReturns(d) ==
  /\ job = "running" /\ Answer(d)
  /\ IF opts.evaluator = "tournament" /\ ~opts.async
     THEN Opened(d) ELSE UNCHANGED bracket
  /\ UNCHANGED <<Others, left, praised, tracker>>

(* Evaluators catch what the client raises: proofs get no score, while the *)
(* tournament is held without proof states.                                *)
CheckFails(d) ==
  /\ job = "running" /\ CheckRaises(d)
  /\ IF opts.evaluator = "tournament" THEN Opened(d) ELSE UNCHANGED bracket
  /\ UNCHANGED <<Others, left, praised, tracker>>

-----------------------------------------------------------------------------
(* The end of a search.                                                    *)

Gone(d) == root' = [root EXCEPT ![d] = NoRoot]

EndSearch(d) ==
  /\ AtWork(d)
  /\ pc' = [pc EXCEPT ![d] = "found"]
  /\ \E v \in BOOLEAN : verified' = [verified EXCEPT ![d] = v]
  /\ UNCHANGED <<opts, job, iter, crashes, entry, raised, left, root, praised,
                 tracker, bracket, isaVars, fileVars>>

(* save_tree_to_txt, before anything else is done with the result.  A tree *)
(* without an id may get the name of another one of the same second.       *)
Save(d) ==
  /\ job = "running" /\ pc[d] = "found" /\ opts.graphs # "none"
  /\ pc' = [pc EXCEPT ![d] = "saved"]
  /\ IF opts.graphs = "file" THEN UNCHANGED trees
     ELSE \/ PartlySaved({d})
          \/ opts.alike = "all" /\ (\E e \in Data : trees[e] > 0) /\ UNCHANGED trees
  /\ IF opts.read
     THEN \E shape \in Shapes : \E text \in [shape -> Texts] :
            LET t == [text |-> text, visits |-> [n \in shape |-> Len(n) + 1]] IN
            \E n \in shape : file' = [tree |-> t, solution |-> PathText(t, n)]
     ELSE UNCHANGED file
  /\ UNCHANGED <<opts, job, iter, crashes, entry, raised, searchVars, moved,
                 report, delivered>>

Returns(d) == pc[d] = IF opts.graphs = "none" THEN "found" ELSE "saved"

(* graph_stats are stored by default.  A dictionary that is used again     *)
(* keeps the error of an earlier iteration.                                *)
Result(d) ==
  [entry[d] EXCEPT !.output = iter, !.true = IF verified[d] THEN iter ELSE 0,
                   !.stats = iter]

(* The asynchronous sampler writes into the dictionary of the data set.    *)
Deliver(d) ==
  /\ job = "running" /\ opts.async /\ Returns(d)
  /\ entry' = [entry EXCEPT ![d] = Result(d)]
  /\ pc' = [pc EXCEPT ![d] = "done"]
  /\ Gone(d)
  /\ UNCHANGED <<opts, job, iter, crashes, raised, verified, left, praised,
                 tracker, bracket, isaVars, fileVars>>

(* The synchronous one collects the responses of a batch ...               *)
Respond(d) ==
  /\ job = "running" /\ ~opts.async /\ Returns(d)
  /\ pc' = [pc EXCEPT ![d] = "answered"]
  /\ Gone(d)
  /\ UNCHANGED <<opts, job, iter, crashes, entry, raised, verified, left,
                 praised, tracker, bracket, isaVars, fileVars>>

(* Faulty variant: the last batch has to be as large as the others.        *)
IsBatch_Full(answered) == Cardinality(answered) = opts.batch

IsBatch(answered) ==
  /\ answered # {}
  /\ Cardinality(answered) = opts.batch \/ \A d \in Data : pc[d] # "waiting"

(* ... and writes them into copies.                                        *)
EndBatch ==
  LET answered == {d \in Data : pc[d] = "answered"} IN
  /\ job = "running" /\ Busy = {} /\ IsBatch(answered)
  /\ entry' = [d \in Task |-> IF d \in answered THEN Result(d) ELSE entry[d]]
  /\ pc' = [d \in Task |-> IF d \in answered THEN "done" ELSE pc[d]]
  /\ UNCHANGED <<opts, job, iter, crashes, raised, searchVars, fileVars>>

(* Something raises in the search, in saving the tree or after it.  The    *)
(* asynchronous sampler stores an error in that dictionary, next to what   *)
(* it still has of an earlier iteration: checked_and_true and graph_stats. *)
Raise(d) ==
  /\ opts.async
  /\ AtWork(d) \/ (job = "running" /\ pc[d] \in {"found", "saved"})
  /\ entry' = [entry EXCEPT ![d].output = iter, ![d].error = iter]
  /\ pc' = [pc EXCEPT ![d] = "done"]
  /\ raised' = raised \union {d}
  /\ Gone(d)
  /\ \E D \in SUBSET (Saving \intersect {d}) : PartlySaved(D)
  /\ UNCHANGED <<opts, job, iter, crashes, verified, left, praised, tracker,
                 bracket, isaVars, file, moved, report, delivered>>

(* The synchronous one gives up the batch and all that follow.             *)
RaiseAll(d) ==
  /\ ~opts.async
  /\ AtWork(d) \/ (job = "running" /\ pc[d] \in {"found", "saved"})
  /\ pc' = [e \in Task |-> IF pc[e] \in {"done", "dropped"} THEN pc[e] ELSE "lost"]
  /\ raised' = raised \union {d}
  /\ Gone(d)
  /\ \E D \in SUBSET (Saving \intersect {d}) : PartlySaved(D)
  /\ UNCHANGED <<opts, job, iter, crashes, entry, verified, left, praised,
                 tracker, bracket, isaVars, file, moved, report, delivered>>

-----------------------------------------------------------------------------
(* The end of an iteration.                                                *)

Listed == {d \in Data : pc[d] = "done"}

(* batched_inference refuses to work on an empty list.                     *)
NothingLeft == ~opts.async /\ \A d \in Data : pc[d] = "dropped"

Abort ==
  /\ job = "running" /\ NothingLeft
  /\ job' = "aborted"
  /\ UNCHANGED <<opts, iter, crashes, pc, entry, raised, searchVars, fileVars>>

WriteAnswers ==
  /\ job = "running" /\ ~NothingLeft
  /\ \A d \in Data : pc[d] \in {"done", "lost", "dropped"}
  /\ job' = "written"
  /\ report' = [iter |-> iter, entry |-> [d \in Listed |-> entry[d]]]
  /\ delivered' = delivered \union
       {d \in Listed : entry[d].output = iter /\ ~Failed(entry[d])}
  /\ UNCHANGED <<opts, iter, crashes, pc, entry, raised, searchVars, trees, file, moved>>

(* Faulty variant: two iterations are taken for one.                       *)
MovesTrees_OffByOne == opts.iterations > 2 /\ opts.graphs = "output"

(* Trees are put away when there are several iterations, if they are in    *)
(* the output directory.                                                   *)
MovesTrees == opts.iterations > 1 /\ opts.graphs = "output"

NextIteration ==
  /\ job = "written"
  /\ IF MovesTrees
     THEN /\ trees' = Each(0)
          /\ moved' = moved \union {d \in Data : trees[d] > 0}
     ELSE UNCHANGED <<trees, moved>>
  /\ IF iter = opts.iterations
     THEN job' = "ended" /\ UNCHANGED <<iter, pc>>
     ELSE /\ job' = "running" /\ iter' = iter + 1
          /\ pc' = [d \in Task |-> IF pc[d] = "dropped" THEN "dropped" ELSE "waiting"]
  /\ UNCHANGED <<opts, crashes, entry, raised, searchVars, file, report, delivered>>

-----------------------------------------------------------------------------
Work(d) ==
  \/ Skip(d) \/ Start(d)
  \/ Praise(d) \/ Judge(d) \/ PlayRound(d) \/ EndTournament(d)
  \/ Check(d) \/ ClientStep(d) \/ CheckReturns(d) \/ CheckFails(d)
  \/ EndSearch(d) \/ Save(d) \/ Deliver(d) \/ Respond(d)
  \/ Raise(d) \/ RaiseAll(d)

Progress ==
  \/ StartJob \/ StartFails \/ EndBatch \/ Abort \/ WriteAnswers \/ NextIteration
  \/ \E d \in Data : Work(d)

Next == Crash \/ Progress

(* The event loop runs what can run, calls return, and a crashed job is    *)
(* started again.                                                          *)
Fairness == WF_vars(Progress)

Spec == Init /\ [][Next]_vars /\ Fairness

-----------------------------------------------------------------------------
(* Properties.                                                             *)

Places == IF opts.async THEN opts.concurrent ELSE 1

TypeOK ==
  /\ opts \in Setups
  /\ job \in {"off", "running", "written", "ended", "aborted", "crashed"}
  /\ iter \in 1..opts.iterations /\ crashes \in 0..opts.crashes
  /\ pc \in [Task -> {"waiting", "search", "found", "saved", "answered",
                      "done", "lost", "dropped"}]
  /\ Cardinality(Busy) <= Places
  /\ entry \in [Task -> [output : 0..iter, true : 0..iter, stats : 0..iter,
                         error : 0..iter, skipped : BOOLEAN]]
  /\ verified \in [Task -> BOOLEAN]
  /\ left \in [Task -> 0..MaxEvaluations]
  /\ root \in [Task -> RootId \union {NoRoot}]
  /\ tracker.seen \subseteq ProofState /\ tracker.root \in RootId \union {NoRoot}
  /\ IsaTypeOK
  /\ trees \in [Task -> Nat] /\ moved \subseteq Task
  /\ file # NoFile => opts.read
  /\ delivered \subseteq Task /\ raised \subseteq Task
  /\ DOMAIN report.entry \subseteq Data

(* An answers file holds the outputs of its iteration.  An entry that is   *)
(* older says that it was skipped; with the tree files where the program   *)
(* puts them by default, and ids that are told apart, it was skipped in    *)
(* the first iteration after a crash, and it is empty.  What an entry says *)
(* of checked_and_true and graph_stats it says of its output, unless that  *)
(* is an error.                                                            *)
EntriesAreFresh ==
  \A d \in DOMAIN report.entry :
    LET e == report.entry[d] IN
    /\ e.output # report.iter =>
         /\ e.skipped /\ opts.async /\ opts.skip
         /\ opts.graphs = "output" /\ opts.alike = "none" =>
              report.iter = 1 /\ e.output = 0 /\ crashes > 0
    /\ ~Failed(e) => {e.true, e.stats} \subseteq {0, e.output}

(* A job that has ended owes no problem an answer: the output is in an     *)
(* answers file, or the tree was saved before a crash and the problem was  *)
(* not solved again, or it failed, or it came after one that failed.  This *)
(* is for ids that are told apart, and --continue-from-prev only works     *)
(* when problems are solved in order.                                      *)
WorkIsKept ==
  job = "ended" /\ opts.alike = "none" /\ (opts.resume => ~opts.async) =>
    \A d \in Data :
      \/ d \in delivered \union moved \union raised
      \/ trees[d] > 0
      \/ pc[d] = "lost" /\ raised # {}

(* With one search at a time the evaluator praises a state once in a       *)
(* search, also when the root has the id of an earlier one.                *)
NovelOnce ==
  Places = 1 => \A d \in Task : \A s \in ProofState : praised[d][s] <= 1

(* See module Bracket: every tournament, seen after any round.             *)
TournamentRanks ==
  \A d \in Task : bracket[d] # NoBracket => Consistent(bracket[d])

(* See module TreeFile: every file of a tree tells what the tree was, and  *)
(* what was its solution.                                                  *)
SavedTreeTells ==
  file # NoFile /\ (\E d \in Data : pc[d] = "saved") => Tells(file.tree, file.solution)

(* See module Isabelle: the client that the searches share.                *)
SessionBeforeCheck ==
  /\ NoHalfStart
  /\ Places = 1 /\ crashes = 0 => SerialStart

(* Every job ends, whatever fails.                                         *)
JobEnds == <>[](job \in {"ended", "aborted"})
=============================================================================
