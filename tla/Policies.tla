------------------------------ MODULE Policies ------------------------------
(***************************************************************************)
(* The policies: what a call of the language model can leave below a node  *)
(* (src/treethink/policies.py and async_policies.py).                      *)
(*                                                                         *)
(* A policy is what the search can tell of it: the sequences of texts that *)
(* it can append to node n, and whether it can raise.  Prompts, sampling   *)
(* parameters and adapters decide which of the texts come, not which can.  *)
(***************************************************************************)
EXTENDS SearchTree

Nothing == << >>

SyncPolicy  == {"vllm", "dynamic", "vllm_server"}
AsyncPolicy == {"async_vllm", "async_batch_vllm", "async_vllm_server", "async_dynamic"}

(* One request for sampling_params.n texts: it brings all of them.         *)
Responses(n) == {ks \in Samples(n, FALSE) : Len(ks) = MaxChildren}

(* The requests of an asynchronous policy ask for one text each and fail   *)
(* one by one; the node gets the texts that came, moved up.                *)
Survivors(n) == Samples(n, FALSE) \union {Nothing}

(* The prompt may be too long for the model: logged, and no children.      *)
VLLMPolicy(n) == Responses(n) \union {Nothing}

(* No such test here: an overlong prompt is left to the model to refuse.   *)
DynamicPolicy(n) == Responses(n)

(* Whatever the server or the connection does is logged.                   *)
VLLMServerPolicy(n) == Responses(n) \union {Nothing}

AsyncVLLMPolicy(n) == Survivors(n)

(* A prompt that is too long leaves no children, like requests that all    *)
(* fail.                                                                   *)
AsyncBatchVLLMPolicy(n) == Survivors(n)

AsyncVLLMServerPolicy(n) == Responses(n) \union {Nothing}

AsyncDynamicPolicy(n) == Survivors(n)

Generated(p, n) ==
  CASE p = "vllm"              -> VLLMPolicy(n)
    [] p = "dynamic"           -> DynamicPolicy(n)
    [] p = "vllm_server"       -> VLLMServerPolicy(n)
    [] p = "async_vllm"        -> AsyncVLLMPolicy(n)
    [] p = "async_batch_vllm"  -> AsyncBatchVLLMPolicy(n)
    [] p = "async_vllm_server" -> AsyncVLLMServerPolicy(n)
    [] p = "async_dynamic"     -> AsyncDynamicPolicy(n)

(* The policies that let an exception out.  Those with a model of their    *)
(* own call the prompter they were given outside of any handler; the       *)
(* model's exceptions leave the synchronous ones too, and the batching     *)
(* one, which logs them and raises them again.  Those that ask a server    *)
(* have no prompter and handle everything else.                            *)
PolicyMayRaise(p) == p \notin {"vllm_server", "async_vllm_server"}
=============================================================================
