--------------------------- MODULE SamplingJobMC ---------------------------
(* The configurations that TLC explores: each way to run a job once, with  *)
(* an evaluator that matters in those that are about evaluators.           *)
EXTENDS SamplingJob

Plain ==
  [size |-> 2, async |-> TRUE, iterations |-> 1, concurrent |-> 2, batch |-> 1,
   skip |-> TRUE, resume |-> FALSE, crashes |-> 0, graphs |-> "output",
   alike |-> "none", evaluator |-> "plain", client |-> "ready", shuffle |-> FALSE,
   read |-> FALSE]

Sync == [Plain EXCEPT !.async = FALSE, !.concurrent = 1]

MCSetups ==
  { [Plain EXCEPT !.size = 3, !.iterations = 2],
    [Plain EXCEPT !.iterations = 2, !.crashes = 2],
    [Plain EXCEPT !.size = 3, !.crashes = 1],
    [Plain EXCEPT !.alike = "prefix", !.iterations = 2],
    [Plain EXCEPT !.alike = "all", !.crashes = 1],
    [Plain EXCEPT !.graphs = "elsewhere", !.iterations = 2, !.crashes = 1],
    [Plain EXCEPT !.graphs = "file", !.iterations = 2, !.crashes = 1],
    [Plain EXCEPT !.graphs = "none", !.concurrent = 1, !.iterations = 2, !.crashes = 1],
    [Plain EXCEPT !.skip = FALSE, !.resume = TRUE, !.size = 3, !.crashes = 1],
    [Plain EXCEPT !.evaluator = "repl", !.client = "isabelle"],
    [Plain EXCEPT !.evaluator = "repl", !.client = "isabelle", !.concurrent = 1],
    [Plain EXCEPT !.evaluator = "tournament", !.client = "isabelle", !.size = 1],
    [Plain EXCEPT !.evaluator = "rmaxts", !.graphs = "none"],
    [Plain EXCEPT !.evaluator = "rmaxts", !.graphs = "none", !.concurrent = 1],
    [Sync EXCEPT !.size = 3, !.batch = 2, !.resume = TRUE, !.iterations = 2, !.crashes = 2],
    [Sync EXCEPT !.graphs = "none", !.crashes = 1],
    [Sync EXCEPT !.evaluator = "rmaxts", !.graphs = "none"],
    [Sync EXCEPT !.evaluator = "repl", !.client = "isabelle", !.crashes = 1],
    [Sync EXCEPT !.evaluator = "tournament", !.size = 1, !.shuffle = TRUE],
    [Sync EXCEPT !.evaluator = "tournament", !.client = "isabelle", !.size = 1],
    [Sync EXCEPT !.size = 1, !.read = TRUE] }

(* Trees of four nodes at most, with texts that are empty, end in a line   *)
(* break or within a line, begin like another, have escaped characters or  *)
(* look like something else in a file.                                     *)
MCShapes ==
  { {<<>>}, {<<>>, <<1>>}, {<<>>, <<1>>, <<2>>}, {<<>>, <<1>>, <<1, 1>>},
    {<<>>, <<1>>, <<2>>, <<3>>}, {<<>>, <<1>>, <<2>>, <<2, 1>>} }

MCTexts ==
  { <<>>, <<"p", NL>>, <<"p", TAB>>, <<"p", NL, TAB, UNI>>, <<BS, LetterN>>,
    <<Mark, Red>> }
=============================================================================
