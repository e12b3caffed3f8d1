------------------------------ MODULE MethodsMC ------------------------------
(* The configurations that TLC explores: every policy, every evaluator,    *)
(* every option and every callback at least once with each method.         *)
EXTENDS Methods

Beams(async, dedupe, callback, policy, evaluator, width, tie, reset) ==
  [method |-> "BeamSearch", async |-> async, dedupe |-> dedupe,
   callback |-> callback, policy |-> policy, evaluator |-> evaluator,
   width |-> width, tie |-> tie, reset |-> reset, rooted |-> FALSE]

Rooted(beams) == [beams EXCEPT !.rooted = TRUE]

Trees(async, dedupe, callback, policy, evaluator, rollout, reset) ==
  [method |-> "TraditionalMCTS", async |-> async, dedupe |-> dedupe,
   callback |-> callback, policy |-> policy, evaluator |-> evaluator,
   rollout |-> rollout, reset |-> reset]

MCSetups ==
  { Beams(FALSE, FALSE, "immediate", "vllm",             "repl",       1, "random", FALSE),
    Beams(FALSE, TRUE,  "immediate", "dynamic",          "tournament", 2, "first",  FALSE),
    Beams(FALSE, TRUE,  "batch",     "vllm",             "rmaxts",     1, "random", TRUE),
    Beams(FALSE, FALSE, "none",      "vllm_server",      "judge",      1, "first",  FALSE),
    Beams(TRUE,  TRUE,  "immediate", "async_vllm",       "repl",       2, "first",  FALSE),
    Beams(TRUE,  TRUE,  "batch",     "async_dynamic",    "tournament", 2, "random", FALSE),
    Beams(TRUE,  TRUE,  "none",      "async_batch_vllm", "rmaxts",     1, "random", TRUE),
    Beams(TRUE,  TRUE,  "immediate", "async_vllm_server","normlen_prob", 1, "first", FALSE),
    Beams(TRUE,  TRUE,  "immediate", "async_vllm",       "prob",       1, "first",  FALSE),
    Beams(TRUE,  FALSE, "immediate", "vllm_server",      "logprob",    1, "first",  FALSE),
    Beams(FALSE, TRUE,  "none",      "vllm",             "normlen",    1, "first",  FALSE),
    Beams(FALSE, TRUE,  "none",      "vllm",             "reward",     1, "first",  FALSE),
    Beams(TRUE,  FALSE, "none",      "async_vllm",       "logprob",    1, "first",  TRUE),
    Beams(TRUE,  TRUE,  "none",      "vllm",             "repl",       2, "first",  FALSE),
    Rooted(Beams(FALSE, TRUE, "immediate", "vllm",      "repl",    2, "first",  FALSE)),
    Rooted(Beams(TRUE, TRUE, "immediate", "async_vllm", "logprob", 2, "random", FALSE)),
    Trees(FALSE, FALSE, "immediate", "vllm",             "repl",       TRUE,  FALSE),
    Trees(FALSE, TRUE,  "batch",     "vllm",             "logprob",    TRUE,  TRUE),
    Trees(FALSE, TRUE,  "none",      "dynamic",          "tournament", TRUE,  FALSE),
    Trees(FALSE, FALSE, "immediate", "vllm_server",      "judge",      FALSE, FALSE),
    Trees(TRUE,  TRUE,  "immediate", "async_vllm",       "rmaxts",     TRUE,  FALSE),
    Trees(TRUE,  TRUE,  "batch",     "async_batch_vllm", "reward",     FALSE, FALSE),
    Trees(TRUE,  FALSE, "immediate", "async_dynamic",    "normlen",    FALSE, TRUE),
    Trees(TRUE,  TRUE,  "none",      "vllm",             "prob",       TRUE,  FALSE) }
=============================================================================
