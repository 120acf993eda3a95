--------------------------- MODULE MCModelRouting ---------------------------
(* A small instance of ModelRouting for TLC: a local provider and two cloud  *)
(* ones that declare the same and differ in their price, so that scores tie. *)
(* The adapters of the repository declare only the defaults of interface.py, *)
(* under which every score ties; the test's providers declare more.          *)
EXTENDS ModelRouting, TLC

MCProviders == <<"ollama", "gemini", "anthropic">>

Cloud(price) == [quality |-> "EXCELLENT", latency |-> "FAST", local |-> FALSE,
                 can |-> {"coding", "research"}, price |-> price]

MCCaps == [
  ollama    |-> [quality |-> "GOOD", latency |-> "MEDIUM", local |-> TRUE, can |-> {"coding"}, price |-> 0],
  gemini    |-> Cloud(1),
  anthropic |-> Cloud(2)]

Request(name, policy, needs, budget, chat) ==
  [model |-> name, policy |-> policy, local |-> FALSE, needs |-> needs, budget |-> budget,
   system |-> chat[1], messages |-> chat[2], blank |-> chat[3]]

MCRequests == {
  Request(<<>>, "BALANCED", {"research"}, NoLimit, <<FALSE, <<"system", "user">>, {}>>),
  [Request(<<"llama3">>, "HIGHEST_QUALITY", {}, 1, <<TRUE, <<>>, {}>>) EXCEPT !.local = TRUE],
  Request(<<"openai", "gpt-4o">>, "HIGHEST_QUALITY", {"coding"}, 1, <<TRUE, <<"system", "user", "assistant">>, {1}>>),
  Request(<<"anthropic", "claude">>, "LOCAL_FIRST", {}, 0, <<FALSE, <<"user", "system", "system">>, {2}>>),
  Request(<<"gemini", "flash">>, "PINNED", {"research"}, NoLimit, <<TRUE, <<"system">>, {}>>)}

Symmetry == Permutations(Callers)
=============================================================================
