---------------------------- MODULE ModelRouting ----------------------------
(***************************************************************************)
(* The model service: a generation request is given to one of the loaded   *)
(* providers, the one that the model's name asks for or else the best by   *)
(* the policy's score, and the provider's answer is counted.               *)
(*                                                                         *)
(* The router asks the providers one after another whether they are        *)
(* available, and calls the one it chose afterwards; requests run at once  *)
(* and share the list of recent decisions and the totals.  A score is      *)
(* exact, in thousandths; the code adds floats.                            *)
(***************************************************************************)
EXTENDS Integers, FiniteSets, Sequences, SequencesExt

CONSTANTS
  Providers,    \* the loaded providers in the order of _build_providers
  Caps,         \* what each declares: quality, latency, local, can, price
  Requests,     \* the requests that clients make
  Callers,      \* requests under way at one time
  NoProvider,
  NoRequest,
  NoLimit,      \* a request without max_cost_usd
  MaxDecisions, \* recent decisions kept: 100 in the code
  MaxServed     \* bound: requests

Names == ToSet(Providers)

ASSUME ProvidersAssumption ==
  /\ Providers \in Seq(Names) /\ Len(Providers) > 0 /\ IsInjective(Providers) /\ NoProvider \notin Names
  /\ MaxDecisions \in Nat \ {0} /\ MaxServed \in Nat /\ NoRequest \notin Requests

VARIABLES
  up,         \* the providers whose is_available answers True now
  stage,      \* what each caller's request does next
  request,    \* the request it serves
  asked,      \* providers asked so far in the scan
  candidates, \* those found eligible, in order
  chosen,     \* the provider selected
  model,      \* the model name the provider is given
  decisions,  \* the router's recent decisions
  requests,   \* the service's total_requests
  cost,       \* its total_cost_usd
  served,     \* requests begun
  steady,     \* providers that were up ever since the request was begun
  selections, \* decisions ever made
  ordinal     \* the number of the caller's own decision

caller == <<stage, request, asked, candidates, chosen, model>>
totals == <<requests, cost>>
history == <<served, steady, selections, ordinal>>
vars == <<up, caller, decisions, totals, history>>

-----------------------------------------------------------------------------
(* Scores *)

\* Quality, latency, cost, locality, in hundredths.
PolicyWeights == [
  LOCAL_FIRST     |-> <<20, 10, 10, 60>>,
  LOWEST_COST     |-> <<20, 10, 60, 10>>,
  LOWEST_LATENCY  |-> <<20, 60, 10, 10>>,
  HIGHEST_QUALITY |-> <<60, 20, 10, 10>>,
  BALANCED        |-> <<30, 25, 25, 20>>,
  PINNED          |-> <<0, 0, 0, 0>>]

QualityScore == [BASIC |-> 3, GOOD |-> 6, EXCELLENT |-> 10]
LatencyScore == [FAST |-> 10, MEDIUM |-> 6, SLOW |-> 3]

\* What interface.py lets a provider declare, and a request ask for.
ASSUME DeclarationsAssumption ==
  /\ \A p \in Names : /\ Caps[p].quality \in DOMAIN QualityScore /\ Caps[p].latency \in DOMAIN LatencyScore
                      /\ Caps[p].local \in BOOLEAN /\ Caps[p].price \in Nat
  /\ \A r \in Requests : r.policy \in DOMAIN PolicyWeights /\ r.messages \in Seq(STRING)
                       /\ r.system \in BOOLEAN /\ r.blank \subseteq DOMAIN r.messages

Score(p, policy) ==
  LET w == PolicyWeights[policy]
      local == IF Caps[p].local THEN 10 ELSE 0
  IN w[1] * QualityScore[Caps[p].quality] + w[2] * LatencyScore[Caps[p].latency]
     + w[3] * (IF Caps[p].local THEN 10 ELSE 5) + w[4] * local

CapabilityMatch(p, r) == r.needs \subseteq Caps[p].can

CostConstraint(p, r) == r.budget # NoLimit => (Caps[p].price = 0 \/ Caps[p].price <= r.budget)

\* A request that prefers a local provider overrides the policy.
ActivePolicy(r) == IF r.local THEN "LOCAL_FIRST" ELSE r.policy

\* Mutant: an equal score displaces an earlier candidate.
BestLast(found, policy) ==
  found[CHOOSE i \in DOMAIN found : \A j \in DOMAIN found :
    Score(found[j], policy) < Score(found[i], policy) + (IF j <= i THEN 1 ELSE 0)]

\* The first of a stable sort by descending score.
Best(found, policy) ==
  found[CHOOSE i \in DOMAIN found : \A j \in DOMAIN found :
    Score(found[j], policy) < Score(found[i], policy) + (IF j >= i THEN 1 ELSE 0)]

-----------------------------------------------------------------------------
(* Model names, as the parts between their slashes *)

\* The provider that the first part of the name is one of, if any.
InferProvider(name) == IF Len(name) > 1 /\ name[1] \in Names THEN name[1] ELSE NoProvider

StripPrefix(name) == IF InferProvider(name) = NoProvider THEN name ELSE Tail(name)

-----------------------------------------------------------------------------
(* What a provider sends: turns <<role, text>>, and instructions beside them. *)
(* A text is the number of a message of the request, or one of these.  The    *)
(* contents of a message may be empty (blank); the prompt's are not (api.py).  *)

Prompt == 0
SystemPrompt == -1

\* seq without the elements that are in a set.
Without(seq, dropped) ==
  LET upTo[k \in 0 .. Len(seq)] ==
        IF k = 0 THEN <<>> ELSE IF seq[k] \in dropped THEN upTo[k - 1] ELSE Append(upTo[k - 1], seq[k])
  IN upTo[Len(seq)]

\* The messages, by their numbers, and those that are instructions.
Order(r) == [i \in DOMAIN r.messages |-> i]
SystemMessages(r) == {i \in DOMAIN r.messages : r.messages[i] = "system"}

Messages(r) == [i \in DOMAIN r.messages |-> <<r.messages[i], i>>]

\* Ollama's API and OpenAI's: a system message in the conversation, an empty one
\* too, displaces the system prompt.
ChatPayload(r) ==
  LET first == IF r.system /\ SystemMessages(r) = {} THEN <<<<"system", SystemPrompt>>>> ELSE <<>>
  IN [turns |-> first \o Messages(r) \o <<<<"user", Prompt>>>>, beside |-> {}]

\* Gemini knows the roles user and model: a system message becomes the user's.
GeminiPayload(r) ==
  LET Said(i) == <<IF r.messages[i] \in {"user", "system"} THEN "user" ELSE "model", i>>
  IN [turns |-> [i \in DOMAIN r.messages |-> Said(i)] \o <<<<"user", Prompt>>>>,
      beside |-> IF r.system THEN {SystemPrompt} ELSE {}]

\* The conversation alone, by the roles that Anthropic knows.
Talk(r) ==
  LET said == Without(Order(r), SystemMessages(r))
  IN [k \in DOMAIN said |-> <<IF r.messages[said[k]] = "assistant" THEN "assistant" ELSE "user", said[k]>>]

\* Mutant: the system messages are taken out and only the system prompt is sent.
AnthropicForgets(r) ==
  [turns |-> Talk(r) \o <<<<"user", Prompt>>>>, beside |-> IF r.system THEN {SystemPrompt} ELSE {}]

\* Anthropic takes instructions beside the turns only: the system prompt, or
\* else the first system message, which is left out if it is empty.
AnthropicPayload(r) ==
  [turns |-> Talk(r) \o <<<<"user", Prompt>>>>,
   beside |-> IF r.system THEN {SystemPrompt}
              ELSE {i \in SystemMessages(r) \ r.blank : \A j \in SystemMessages(r) : i <= j}]

\* OpenRouter and Ollama build the list that OpenAI does.
OpenRouterPayload(r) == ChatPayload(r)
OllamaPayload(r) == ChatPayload(r)

Payload(p, r) == CASE p = "gemini" -> GeminiPayload(r)
                   [] p = "anthropic" -> AnthropicPayload(r)
                   [] p = "openrouter" -> OpenRouterPayload(r)
                   [] p = "ollama" -> OllamaPayload(r)
                   [] OTHER -> ChatPayload(r)

-----------------------------------------------------------------------------
(* Requests *)

Init ==
  /\ up \in SUBSET Names
  /\ stage = [s \in Callers |-> "idle"] /\ request = [s \in Callers |-> NoRequest]
  /\ asked = [s \in Callers |-> 0] /\ candidates = [s \in Callers |-> <<>>]
  /\ chosen = [s \in Callers |-> NoProvider] /\ model = [s \in Callers |-> <<>>]
  /\ decisions = <<>> /\ requests = 0 /\ cost = 0
  /\ served = 0 /\ steady = [s \in Callers |-> {}]
  /\ selections = 0 /\ ordinal = [s \in Callers |-> 0]

\* A request whose model names a loaded provider asks that one first.
Begin(s, r) ==
  /\ stage[s] = "idle" /\ served < MaxServed
  /\ served' = served + 1
  /\ request' = [request EXCEPT ![s] = r]
  /\ stage' = [stage EXCEPT ![s] = IF InferProvider(r.model) = NoProvider THEN "scan" ELSE "pinned"]
  /\ steady' = [steady EXCEPT ![s] = up]
  /\ UNCHANGED <<up, asked, candidates, chosen, model, decisions, totals, selections, ordinal>>

\* Mutant: the list is cut at the wrong end.
RecordOldest(d) ==
  decisions' = IF Len(decisions) < MaxDecisions THEN Append(decisions, d) ELSE decisions

\* _record_decision: the list is cut to its newest entries.
RecordDecision(d) ==
  LET all == Append(decisions, d)
      surplus == Len(all) - MaxDecisions
  IN decisions' = IF surplus > 0 THEN SubSeq(all, surplus + 1, Len(all)) ELSE all

\* No await lies between a provider's answer and the record of the decision.
Select(s, p, name, policy) ==
  /\ chosen' = [chosen EXCEPT ![s] = p]
  /\ model' = [model EXCEPT ![s] = name]
  /\ RecordDecision([provider |-> p, policy |-> policy])
  /\ stage' = [stage EXCEPT ![s] = "call"]
  /\ selections' = selections + 1 /\ ordinal' = [ordinal EXCEPT ![s] = selections']

\* The named provider takes the request if it is available, whatever its
\* capabilities and cost; otherwise the policy decides.
AskPinned(s) ==
  LET r == request[s]  p == InferProvider(r.model) IN
  /\ stage[s] = "pinned"
  /\ IF p \in up
     THEN Select(s, p, StripPrefix(r.model), "PINNED")
     ELSE /\ stage' = [stage EXCEPT ![s] = "scan"]
          /\ UNCHANGED <<chosen, model, decisions, selections, ordinal>>
  /\ UNCHANGED <<up, request, asked, candidates, totals, served, steady>>

Eligible(p, r) == CapabilityMatch(p, r) /\ CostConstraint(p, r)

\* The next provider of the list answers; the last answer brings the choice,
\* or NoEligibleModelError.  The name goes to the provider as it came.
Ask(s) ==
  LET r == request[s]
      p == Providers[asked[s] + 1]
      found == IF p \in up /\ Eligible(p, r) THEN Append(candidates[s], p) ELSE candidates[s]
      more == asked[s] + 1 < Len(Providers)
  IN /\ stage[s] = "scan"
     /\ asked' = [asked EXCEPT ![s] = IF more THEN @ + 1 ELSE 0]
     /\ candidates' = [candidates EXCEPT ![s] = IF more THEN found ELSE <<>>]
     /\ IF ~more /\ found # <<>>
        THEN Select(s, Best(found, ActivePolicy(r)), r.model, ActivePolicy(r))
        ELSE /\ stage' = [stage EXCEPT ![s] = IF more THEN "scan" ELSE "refused"]
             /\ UNCHANGED <<chosen, model, decisions, selections, ordinal>>
     /\ UNCHANGED <<up, request, totals, served, steady>>

\* Mutant: the choice outlives the request.
EndKeepsChoice(s) ==
  /\ stage' = [stage EXCEPT ![s] = "idle"] /\ request' = [request EXCEPT ![s] = NoRequest]
  /\ model' = [model EXCEPT ![s] = <<>>]
  /\ steady' = [steady EXCEPT ![s] = {}] /\ ordinal' = [ordinal EXCEPT ![s] = 0]
  /\ UNCHANGED <<up, asked, chosen, candidates, decisions, served, selections>>

End(s) ==
  /\ stage' = [stage EXCEPT ![s] = "idle"] /\ request' = [request EXCEPT ![s] = NoRequest]
  /\ chosen' = [chosen EXCEPT ![s] = NoProvider] /\ model' = [model EXCEPT ![s] = <<>>]
  /\ steady' = [steady EXCEPT ![s] = {}] /\ ordinal' = [ordinal EXCEPT ![s] = 0]
  /\ UNCHANGED <<up, asked, candidates, decisions, served, selections>>

\* The provider answers: the totals grow by its estimate.
Answer(s) ==
  /\ stage[s] = "call" /\ chosen[s] \in up
  /\ requests' = requests + 1 /\ cost' = cost + Caps[chosen[s]].price
  /\ End(s)

\* The call raises or times out, also because the provider went away since it
\* was asked; nobody else is tried.  Or no provider was eligible (503).
Fail(s) == stage[s] \in {"call", "refused"} /\ End(s) /\ UNCHANGED totals

-----------------------------------------------------------------------------
\* The providers outside: one comes or goes.
ComesBack(p) == p \notin up /\ up' = up \cup {p} /\ UNCHANGED <<caller, decisions, totals, history>>

GoesAway(p) ==
  /\ p \in up /\ up' = up \ {p}
  /\ steady' = [s \in Callers |-> steady[s] \ {p}]
  /\ UNCHANGED <<caller, decisions, totals, served, selections, ordinal>>

Advance(s) == AskPinned(s) \/ Ask(s) \/ Answer(s) \/ Fail(s)

Next ==
  \/ \E s \in Callers : Advance(s) \/ \E r \in Requests : Begin(s, r)
  \/ \E p \in Names : ComesBack(p) \/ GoesAway(p)

Spec == Init /\ [][Next]_vars

-----------------------------------------------------------------------------
(* Properties *)

Decision == [provider : Names, policy : DOMAIN PolicyWeights]
Given == {<<>>} \cup {r.model : r \in Requests} \cup {StripPrefix(r.model) : r \in Requests}

\* Every variable has its type; a caller is given a provider and a model name
\* exactly while it calls.
TypeOK ==
  /\ up \subseteq Names
  /\ stage \in [Callers -> {"idle", "pinned", "scan", "call", "refused"}]
  /\ request \in [Callers -> Requests \cup {NoRequest}] /\ model \in [Callers -> Given]
  /\ asked \in [Callers -> 0 .. Len(Providers) - 1] /\ candidates \in [Callers -> Seq(Names)]
  /\ \A s \in Callers :
       /\ stage[s] = "idle" <=> request[s] = NoRequest
       /\ stage[s] = "call" <=> chosen[s] \in Names
       /\ stage[s] # "scan" => asked[s] = 0 /\ candidates[s] = <<>>
       /\ Len(candidates[s]) <= asked[s]
  /\ chosen \in [Callers -> Names \cup {NoProvider}]
  /\ decisions \in Seq(Decision) /\ requests \in Nat /\ cost \in Nat /\ served \in 0 .. MaxServed
  /\ steady \in [Callers -> SUBSET Names] /\ selections \in Nat /\ ordinal \in [Callers -> Nat]

Place(p) == CHOOSE i \in 1 .. Len(Providers) : Providers[i] = p

\* Whether p comes before q under the request's policy.
Outranks(p, q, policy) ==
  Score(p, policy) > Score(q, policy) \/ (Score(p, policy) = Score(q, policy) /\ Place(p) < Place(q))

\* Providers come and go while they are asked in turn.  Of those that stayed up
\* all the while, the one that a request names is called, and otherwise none
\* that is eligible is passed over for a worse one, or the request refused.
ChoosesBest == \A s \in Callers : stage[s] \in {"call", "refused"} =>
  LET r == request[s]
      pin == InferProvider(r.model)
  IN \/ pin # NoProvider /\ chosen[s] = pin /\ model[s] = StripPrefix(r.model)
     \/ /\ pin \notin steady[s]
        /\ stage[s] = "call" => Eligible(chosen[s], r)
        /\ \A q \in steady[s] \ {chosen[s]} :
             Eligible(q, r) => (stage[s] = "call" /\ Outranks(chosen[s], q, ActivePolicy(r)))

\* What the routing summary shows: the latest decisions of all requests, each
\* in its place, and no request counted that had none or is still under way.
SummaryAgrees ==
  /\ Len(decisions) = IF selections < MaxDecisions THEN selections ELSE MaxDecisions
  /\ \A s \in Callers : stage[s] = "call" =>
       LET age == selections - ordinal[s]
       IN age < Len(decisions) => decisions[Len(decisions) - age].provider = chosen[s]
  /\ requests <= selections - Cardinality({s \in Callers : stage[s] = "call"})

Texts(turns) == [i \in DOMAIN turns |-> turns[i][2]]

\* What a request says besides the conversation, and what of it is not empty.
Guidance(r) == SystemMessages(r) \cup (IF r.system THEN {SystemPrompt} ELSE {})
Instructions(r) == Guidance(r) \ r.blank

\* The instructions that a provider does not take, because of another one, be it
\* empty: all but the first (Anthropic), or the system prompt next to a system
\* message (the APIs like OpenAI's).
Displaced(p, r) ==
  CASE p = "gemini" -> {}
    [] p = "anthropic" -> {i \in SystemMessages(r) : r.system \/ \E j \in SystemMessages(r) : j < i}
    [] OTHER -> IF SystemMessages(r) = {} THEN {} ELSE {SystemPrompt}

\* Whichever provider it falls to, the conversation and then the prompt arrive
\* in order, nothing else does but instructions, and of these every one that no
\* other displaces: the adapters differ in what they lose, and in no other way.
OnlyDisplacedAreLost == \A s \in Callers : stage[s] = "call" =>
  LET r == request[s]
      sent == Payload(chosen[s], r)
      told == Texts(sent.turns)
  IN /\ Without(told, Guidance(r)) = Append(Without(Order(r), SystemMessages(r)), Prompt)
     /\ sent.beside \subseteq Instructions(r)
     /\ \A i \in Instructions(r) : i \notin ToSet(told) \cup sent.beside <=> i \in Displaced(chosen[s], r)

\* select_provider: "Returns (provider, modified_request) where model name is
\* cleaned".
NameIsClean == \A s \in Callers : stage[s] = "call" => model[s] = StripPrefix(request[s].model)
=============================================================================
