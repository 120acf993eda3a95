-------------------------- MODULE ModelRoutingProofs --------------------------
(***************************************************************************)
(* The router for any providers, policies, requests and callers: it gives  *)
(* a request to the best provider that stayed up, its list of recent       *)
(* decisions is what its summary says, and whichever adapter a request     *)
(* falls to tells its provider all but the instructions that another one   *)
(* displaces.  The first two follow from one inductive invariant, IInv,    *)
(* the last from what the adapters build.                                  *)
(***************************************************************************)
EXTENDS ModelRouting, SequenceTheorems, FiniteSetTheorems, WellFoundedInduction, TLAPS

Calling == {s \in Callers : stage[s] = "call"}

\* A request that waits for a named provider has named one.
Named(s) == stage[s] = "pinned" => InferProvider(request[s].model) \in Names

\* A provider that was up all the while is up.
Staying == \A s \in Callers : steady[s] \subseteq up

\* The candidates of a scan: eligible providers in their order, and all of those
\* asked that stayed up.  The named provider did not.
Scans(s) == stage[s] = "scan" =>
  /\ InferProvider(request[s].model) \notin steady[s]
  /\ \A i \in DOMAIN candidates[s] :
       Eligible(candidates[s][i], request[s]) /\ Place(candidates[s][i]) <= asked[s]
  /\ \A i, j \in DOMAIN candidates[s] : i < j => Place(candidates[s][i]) < Place(candidates[s][j])
  /\ \A q \in steady[s] : Place(q) <= asked[s] /\ Eligible(q, request[s]) =>
       \E i \in DOMAIN candidates[s] : candidates[s][i] = q

\* The choice made for one caller, as ChoosesBest states it.
Chose(s) == stage[s] \in {"call", "refused"} =>
  \/ /\ InferProvider(request[s].model) # NoProvider
     /\ chosen[s] = InferProvider(request[s].model) /\ model[s] = StripPrefix(request[s].model)
  \/ /\ InferProvider(request[s].model) \notin steady[s]
     /\ stage[s] = "call" => Eligible(chosen[s], request[s])
     /\ \A q \in steady[s] \ {chosen[s]} : Eligible(q, request[s]) =>
          (stage[s] = "call" /\ Outranks(chosen[s], q, ActivePolicy(request[s])))

Served(s) == Named(s) /\ Scans(s) /\ Chose(s)

\* The list of decisions holds the latest, and knows a caller's own by its age.
Listing ==
  /\ Len(decisions) = IF selections < MaxDecisions THEN selections ELSE MaxDecisions
  /\ \A s \in Callers : stage[s] = "call" =>
       /\ ordinal[s] \in 1 .. selections
       /\ selections - ordinal[s] < Len(decisions) =>
            decisions[Len(decisions) - (selections - ordinal[s])].provider = chosen[s]

\* A request that is counted was given to a provider and has been answered.
Answered == IsFiniteSet(Calling) /\ requests + Cardinality(Calling) <= selections

IInv == TypeOK /\ Staying /\ (\A s \in Callers : Served(s)) /\ Listing /\ Answered

-----------------------------------------------------------------------------
(* Scores and places *)

\* A set of naturals has a least element.
LEMMA LeastNatural ==
  ASSUME NEW S \in SUBSET Nat, S # {}
  PROVE  \E n \in S : \A m \in S : n <= m
<1>1. PICK n \in S : \A m \in S : ~ (<<m, n>> \in OpToRel(<, Nat))
  BY WFMin, NatLessThanWellFounded, Zenon
<1>2. \A m \in S : ~(m < n)
  BY <1>1 DEF OpToRel
<1>. QED
  BY <1>2

\* No score is above this: four weights of at most 60 times scores of at most 10.
Highest == 600 + 600 + 600 + 600

\* Whatever a provider declares, its score is a natural number below a bound.
LEMMA ScoreType ==
  ASSUME NEW p \in Names, NEW policy \in DOMAIN PolicyWeights
  PROVE  Score(p, policy) \in 0 .. Highest
<1>1. Caps[p].quality \in DOMAIN QualityScore /\ Caps[p].latency \in DOMAIN LatencyScore
  BY DeclarationsAssumption
<1>2. QualityScore[Caps[p].quality] \in {3, 6, 10}
  BY <1>1 DEF QualityScore
<1>3. LatencyScore[Caps[p].latency] \in {3, 6, 10}
  BY <1>1 DEF LatencyScore
<1>4. PolicyWeights[policy] \in [1 .. 4 -> 0 .. 60]
  BY DEF PolicyWeights
<1> DEFINE w == PolicyWeights[policy]
           q == QualityScore[Caps[p].quality]
           l == LatencyScore[Caps[p].latency]
           c == IF Caps[p].local THEN 10 ELSE 5
           h == IF Caps[p].local THEN 10 ELSE 0
<1>5. w[1] \in 0 .. 60 /\ w[2] \in 0 .. 60 /\ w[3] \in 0 .. 60 /\ w[4] \in 0 .. 60
  BY <1>4
<1>6. c \in {5, 10} /\ h \in {0, 10}
  OBVIOUS
<1>7. Score(p, policy) = w[1] * q + w[2] * l + w[3] * c + w[4] * h
  BY Zenon DEF Score
<1>a. q \in {0, 3, 5, 6, 10} /\ l \in {0, 3, 5, 6, 10} /\ c \in {0, 3, 5, 6, 10} /\ h \in {0, 3, 5, 6, 10}
  BY <1>2, <1>3, <1>6
<1> HIDE DEF w, q, l, c, h
<1>8. \A u \in 0 .. 60, x \in {0, 3, 5, 6, 10} : u * x \in 0 .. 600
  OBVIOUS
<1>9. /\ w[1] * q \in 0 .. 600 /\ w[2] * l \in 0 .. 600
      /\ w[3] * c \in 0 .. 600 /\ w[4] * h \in 0 .. 600
  <2>1. w[1] * q \in 0 .. 600
    BY <1>5, <1>8, <1>a
  <2>2. w[2] * l \in 0 .. 600
    BY <1>5, <1>8, <1>a
  <2>3. w[3] * c \in 0 .. 600
    BY <1>5, <1>8, <1>a
  <2>4. w[4] * h \in 0 .. 600
    BY <1>5, <1>8, <1>a
  <2>. QED
    BY <2>1, <2>2, <2>3, <2>4
<1>10. \A x1, x2, x3, x4 \in 0 .. 600 : x1 + x2 + x3 + x4 \in 0 .. Highest
  BY DEF Highest
<1>11. w[1] * q + w[2] * l + w[3] * c + w[4] * h \in 0 .. Highest
  BY <1>9, <1>10, ZenonT(60)
<1>. QED
  BY <1>7, <1>11, Zenon

\* Each provider has one place.
LEMMA Places ==
  /\ \A p \in Names : Place(p) \in 1 .. Len(Providers) /\ Providers[Place(p)] = p
  /\ \A i \in 1 .. Len(Providers) : Providers[i] \in Names /\ Place(Providers[i]) = i
<1>1. Providers \in Seq(Names) /\ DOMAIN Providers = 1 .. Len(Providers)
  BY ProvidersAssumption
<1>2. \A i, j \in 1 .. Len(Providers) : Providers[i] = Providers[j] => i = j
  BY <1>1, ProvidersAssumption DEF IsInjective
<1>3. ASSUME NEW p \in Names PROVE Place(p) \in 1 .. Len(Providers) /\ Providers[Place(p)] = p
  <2>1. \E i \in 1 .. Len(Providers) : Providers[i] = p
    BY <1>1 DEF Names, ToSet
  <2>. QED
    BY <2>1 DEF Place
<1>. QED
  BY <1>1, <1>2, <1>3

\* Of numbers in a row there is a first among the greatest.
LEMMA FirstOfGreatest ==
  ASSUME NEW k \in Nat \ {0}, NEW top \in Nat, NEW f \in [1 .. k -> 0 .. top]
  PROVE  \E b \in 1 .. k : \A j \in 1 .. k : f[j] < f[b] + (IF j >= b THEN 1 ELSE 0)
<1> DEFINE Short == {m \in Nat : \E i \in 1 .. k : m = top - f[i]}
<1>12. \A i \in 1 .. k : f[i] \in 0 .. top
  OBVIOUS
<1>13. \A i \in 1 .. k : top - f[i] \in Nat
  BY <1>12
<1>1. \A i \in 1 .. k : f[i] \in 0 .. top /\ top - f[i] \in Short
  BY <1>12, <1>13
<1>2. \A m \in Short : m \in Nat /\ \E i \in 1 .. k : m = top - f[i]
  OBVIOUS
<1>3. 1 \in 1 .. k
  OBVIOUS
<1> HIDE DEF Short
<1>4. Short \in SUBSET Nat /\ Short # {}
  BY <1>1, <1>2, <1>3
<1>5. PICK least \in Short : \A m \in Short : least <= m
  BY <1>4, LeastNatural, Zenon
<1> DEFINE Greatest == {i \in 1 .. k : top - f[i] = least}
<1>6. Greatest \in SUBSET Nat /\ Greatest # {}
  BY <1>2, <1>5, SMTT(30)
<1>7. \A i \in Greatest : i \in 1 .. k /\ top - f[i] = least
  OBVIOUS
<1>8. \A i \in 1 .. k : top - f[i] = least => i \in Greatest
  OBVIOUS
<1> HIDE DEF Greatest
<1>9. PICK b \in Greatest : \A m \in Greatest : b <= m
  BY <1>6, LeastNatural, Zenon
<1>10. b \in 1 .. k /\ top - f[b] = least
  BY <1>7, <1>9
<1>11. ASSUME NEW j \in 1 .. k PROVE f[j] < f[b] + (IF j >= b THEN 1 ELSE 0)
  <2>1. least <= top - f[j]
    BY <1>1, <1>5
  <2>2. j < b => top - f[j] # least
    BY <1>8, <1>9, <1>10
  <2>3. f[b] \in 0 .. top /\ f[j] \in 0 .. top
    BY <1>1, <1>10
  <2>. QED
    BY <1>10, <2>1, <2>2, <2>3
<1>. QED
  BY <1>10, <1>11

\* The first of the best: better than those before it, no worse than those after.
LEMMA BestIsBest ==
  ASSUME NEW found \in Seq(Names), found # <<>>, NEW policy \in DOMAIN PolicyWeights
  PROVE  \E i \in DOMAIN found :
           /\ Best(found, policy) = found[i]
           /\ \A j \in DOMAIN found :
                Score(found[j], policy) < Score(found[i], policy) + (IF j >= i THEN 1 ELSE 0)
<1>1. Len(found) \in Nat \ {0} /\ DOMAIN found = 1 .. Len(found) /\ \A i \in DOMAIN found : found[i] \in Names
  OBVIOUS
<1> DEFINE f == [i \in 1 .. Len(found) |-> Score(found[i], policy)]
<1>2. f \in [1 .. Len(found) -> 0 .. Highest]
  BY <1>1, ScoreType
<1>20. \A i \in 1 .. Len(found) : f[i] = Score(found[i], policy)
  OBVIOUS
<1> HIDE DEF f
<1>21. Highest \in Nat
  BY DEF Highest
<1>3. PICK b \in 1 .. Len(found) : \A j \in 1 .. Len(found) : f[j] < f[b] + (IF j >= b THEN 1 ELSE 0)
  BY <1>1, <1>2, <1>21, FirstOfGreatest, Zenon
<1>4. b \in DOMAIN found /\ \A j \in DOMAIN found :
        Score(found[j], policy) < Score(found[b], policy) + (IF j >= b THEN 1 ELSE 0)
  BY <1>1, <1>3, <1>20
<1>. QED
  BY <1>4, Zenon DEF Best
\* A list after one more entry: cut to its newest.
Cut(q, d) ==
  LET all == Append(q, d)
      surplus == Len(all) - MaxDecisions
  IN IF surplus > 0 THEN SubSeq(all, surplus + 1, Len(all)) ELSE all

\* The newest entry is the last, and every entry kept is one place further from it.
Slides(q, d) ==
  /\ Len(Cut(q, d)) = IF Len(q) < MaxDecisions THEN Len(q) + 1 ELSE MaxDecisions
  /\ Cut(q, d)[Len(Cut(q, d))] = d
  /\ \A age \in Nat : age + 1 < Len(Cut(q, d)) =>
       Cut(q, d)[Len(Cut(q, d)) - (age + 1)] = q[Len(q) - age]

\* A list within its limit slides.
LEMMA Window ==
  ASSUME NEW S, NEW q \in Seq(S), NEW d \in S, Len(q) <= MaxDecisions
  PROVE  Cut(q, d) \in Seq(S) /\ Slides(q, d)
<1>1. MaxDecisions \in Nat \ {0} /\ Len(q) \in Nat
  BY ProvidersAssumption
<1>2. /\ Append(q, d) \in Seq(S) /\ Len(Append(q, d)) = Len(q) + 1
      /\ Append(q, d)[Len(q) + 1] = d /\ \A i \in 1 .. Len(q) : Append(q, d)[i] = q[i]
  OBVIOUS
<1>3. CASE Len(q) < MaxDecisions
  <2>1. Cut(q, d) = Append(q, d)
    BY <1>1, <1>2, <1>3 DEF Cut
  <2>2. ASSUME NEW age \in Nat, age + 1 < Len(q) + 1
        PROVE  Append(q, d)[(Len(q) + 1) - (age + 1)] = q[Len(q) - age]
    <3>1. (Len(q) + 1) - (age + 1) = Len(q) - age /\ Len(q) - age \in 1 .. Len(q)
      BY <1>1, <2>2
    <3>. QED
      BY <1>2, <3>1
  <2>. QED
    BY <1>2, <1>3, <2>1, <2>2 DEF Slides
<1>4. CASE Len(q) = MaxDecisions
  <2>1. Cut(q, d) = SubSeq(Append(q, d), 2, MaxDecisions + 1)
    BY <1>1, <1>2, <1>4 DEF Cut
  <2>2. /\ Cut(q, d) \in Seq(S) /\ Len(Cut(q, d)) = MaxDecisions
        /\ \A i \in 1 .. MaxDecisions : Cut(q, d)[i] = Append(q, d)[i + 1]
    BY <1>1, <1>2, <1>4, <2>1
  <2>3. Cut(q, d)[MaxDecisions] = d
    BY <1>1, <1>2, <1>4, <2>2
  <2>4. ASSUME NEW age \in Nat, age + 1 < MaxDecisions
        PROVE  Cut(q, d)[MaxDecisions - (age + 1)] = q[MaxDecisions - age]
    <3>1. MaxDecisions - (age + 1) \in 1 .. MaxDecisions /\ MaxDecisions - age \in 1 .. Len(q)
      BY <1>1, <1>4, <2>4
    <3>2. (MaxDecisions - (age + 1)) + 1 = MaxDecisions - age
      BY <1>1
    <3>. QED
      BY <1>2, <2>2, <3>1, <3>2
  <2>5. ~(Len(q) < MaxDecisions)
    BY <1>1, <1>4
  <2>. QED
    BY <1>4, <2>2, <2>3, <2>4, <2>5 DEF Slides
<1>5. Len(q) < MaxDecisions \/ Len(q) = MaxDecisions
  BY <1>1
<1>. QED
  BY <1>3, <1>4, <1>5

-----------------------------------------------------------------------------
(* The invariant is kept *)

\* A choice: the list and the totals follow, and the caller is given a provider.
LEMMA SelectKeeps ==
  ASSUME TypeOK, Listing, Answered, NEW s \in Callers, NEW p \in Names, NEW name \in Given,
         NEW policy \in DOMAIN PolicyWeights, Select(s, p, name, policy), stage[s] # "call",
         UNCHANGED requests
  PROVE  /\ decisions' \in Seq(Decision) /\ chosen' \in [Callers -> Names \cup {NoProvider}]
         /\ stage' \in [Callers -> {"idle", "pinned", "scan", "call", "refused"}]
         /\ model' \in [Callers -> Given] /\ selections' \in Nat /\ ordinal' \in [Callers -> Nat]
         /\ Listing' /\ Answered'
<1>1. /\ stage \in [Callers -> {"idle", "pinned", "scan", "call", "refused"}]
      /\ chosen \in [Callers -> Names \cup {NoProvider}] /\ model \in [Callers -> Given]
      /\ ordinal \in [Callers -> Nat] /\ selections \in Nat /\ decisions \in Seq(Decision)
      /\ requests \in Nat
  BY DEF TypeOK
<1>2. /\ chosen' = [chosen EXCEPT ![s] = p] /\ model' = [model EXCEPT ![s] = name]
      /\ stage' = [stage EXCEPT ![s] = "call"] /\ selections' = selections + 1
      /\ ordinal' = [ordinal EXCEPT ![s] = selections + 1]
  BY DEF Select
<1>3. PICK d \in Decision : d.provider = p /\ RecordDecision(d)
  <2>1. [provider |-> p, policy |-> policy] \in Decision
    BY DEF Decision
  <2>. QED
    BY <2>1 DEF Select
<1>4. MaxDecisions \in Nat \ {0} /\ Len(decisions) \in Nat /\ Len(decisions) <= MaxDecisions
  BY <1>1, ProvidersAssumption DEF Listing
<1>5. /\ decisions' \in Seq(Decision)
      /\ Len(decisions') = IF Len(decisions) < MaxDecisions THEN Len(decisions) + 1 ELSE MaxDecisions
      /\ decisions'[Len(decisions')] = d
      /\ \A age \in Nat : age + 1 < Len(decisions') =>
           decisions'[Len(decisions') - (age + 1)] = decisions[Len(decisions) - age]
  <2>1. decisions' = Cut(decisions, d)
    BY <1>3 DEF RecordDecision, Cut
  <2>2. Cut(decisions, d) \in Seq(Decision) /\ Slides(decisions, d)
    BY <1>1, <1>4, Window
  <2>. QED
    BY <2>1, <2>2, Zenon DEF Slides
<1>6. Len(decisions') = IF selections' < MaxDecisions THEN selections' ELSE MaxDecisions
  BY <1>1, <1>2, <1>4, <1>5 DEF Listing
<1>7. ASSUME NEW t \in Callers, stage'[t] = "call"
      PROVE  /\ ordinal'[t] \in 1 .. selections'
             /\ selections' - ordinal'[t] < Len(decisions') =>
                  decisions'[Len(decisions') - (selections' - ordinal'[t])].provider = chosen'[t]
  <2>1. CASE t = s
    <3>1. ordinal'[t] = selections' /\ chosen'[t] = p /\ selections' - ordinal'[t] = 0
      BY <1>1, <1>2, <2>1
    <3>2. Len(decisions') - 0 = Len(decisions') /\ decisions'[Len(decisions')].provider = p
      BY <1>3, <1>5
    <3>. QED
      BY <1>1, <1>2, <3>1, <3>2
  <2>2. CASE t # s
    <3>1. stage[t] = "call" /\ ordinal'[t] = ordinal[t] /\ chosen'[t] = chosen[t]
      BY <1>1, <1>2, <1>7, <2>2
    <3>2. ordinal[t] \in 1 .. selections
      BY <3>1 DEF Listing
    <3> DEFINE age == selections - ordinal[t]
    <3>3. age \in Nat /\ selections' - ordinal'[t] = age + 1
      BY <1>1, <1>2, <3>1, <3>2
    <3>4. age < Len(decisions) => decisions[Len(decisions) - age].provider = chosen[t]
      BY <3>1 DEF Listing
    <3> HIDE DEF age
    <3>5. age + 1 < Len(decisions') =>
            age < Len(decisions) /\ decisions'[Len(decisions') - (age + 1)] = decisions[Len(decisions) - age]
      BY <1>4, <1>5, <3>3
    <3>6. age + 1 < Len(decisions') => decisions'[Len(decisions') - (age + 1)].provider = chosen[t]
      BY <3>4, <3>5
    <3>. QED
      BY <1>1, <1>2, <3>1, <3>2, <3>3, <3>6
  <2>. QED
    BY <2>1, <2>2
<1>8. Listing'
  BY <1>6, <1>7 DEF Listing
<1>9. Answered'
  <2>1. Calling' = Calling \cup {s} /\ s \notin Calling
    BY <1>1, <1>2 DEF Calling
  <2>2. IsFiniteSet(Calling) /\ Cardinality(Calling) \in Nat
    BY FS_CardinalityType DEF Answered
  <2>3. IsFiniteSet(Calling') /\ Cardinality(Calling') = Cardinality(Calling) + 1
    BY <2>1, <2>2, FS_AddElement
  <2>. QED
    BY <1>1, <1>2, <2>2, <2>3 DEF Answered
<1>. QED
  BY <1>1, <1>2, <1>5, <1>8, <1>9
\* While nobody is given a provider or answered, list and totals stay right.
LEMMA NothingChosen ==
  ASSUME TypeOK, Listing, Answered, UNCHANGED <<decisions, selections, requests>>,
         \A t \in Callers : stage'[t] = "call" <=> stage[t] = "call",
         \A t \in Callers : stage[t] = "call" => ordinal'[t] = ordinal[t] /\ chosen'[t] = chosen[t]
  PROVE  Listing' /\ Answered'
<1>1. Calling' = Calling
  BY DEF Calling
<1>. QED
  BY <1>1 DEF Listing, Answered

\* A step of one caller leaves the requests of the others as they are.
Apart(s) == \A t \in Callers \ {s} :
  /\ stage'[t] = stage[t] /\ request'[t] = request[t] /\ asked'[t] = asked[t]
  /\ candidates'[t] = candidates[t] /\ chosen'[t] = chosen[t] /\ model'[t] = model[t]
  /\ steady'[t] = steady[t]

\* What a request waits for is about its own variables.
LEMMA OthersKeep ==
  ASSUME IInv, NEW s \in Callers, Apart(s), Served(s)'
  PROVE  (\A t \in Callers : Served(t))'
<1>1. ASSUME NEW t \in Callers \ {s} PROVE Served(t)'
  <2>1. Named(t) /\ Scans(t) /\ Chose(t)
    BY DEF IInv, Served
  <2>2. /\ stage'[t] = stage[t] /\ request'[t] = request[t] /\ asked'[t] = asked[t]
        /\ candidates'[t] = candidates[t] /\ chosen'[t] = chosen[t] /\ model'[t] = model[t]
        /\ steady'[t] = steady[t]
    BY DEF Apart
  <2>3. Named(t)'
    BY <2>1, <2>2 DEF Named
  <2>4. Scans(t)'
    BY <2>1, <2>2 DEF Scans, Eligible, CapabilityMatch, CostConstraint
  <2>5. Chose(t)'
    BY <2>1, <2>2 DEF Chose, Eligible, CapabilityMatch, CostConstraint, Outranks
  <2>. QED
    BY <2>3, <2>4, <2>5 DEF Served
<1>. QED
  BY <1>1

LEMMA BeginKeeps ==
  ASSUME IInv, NEW s \in Callers, NEW r \in Requests, Begin(s, r)
  PROVE  IInv'
<1>1. /\ stage[s] = "idle" /\ request' = [request EXCEPT ![s] = r]
      /\ stage' = [stage EXCEPT ![s] = IF InferProvider(r.model) = NoProvider THEN "scan" ELSE "pinned"]
      /\ steady' = [steady EXCEPT ![s] = up] /\ served' = served + 1 /\ served < MaxServed
      /\ UNCHANGED <<up, asked, candidates, chosen, model, decisions, requests, cost, selections, ordinal>>
  BY DEF Begin, totals
<1>2. /\ stage \in [Callers -> {"idle", "pinned", "scan", "call", "refused"}]
      /\ request \in [Callers -> Requests \cup {NoRequest}]
      /\ steady \in [Callers -> SUBSET Names] /\ up \subseteq Names
      /\ chosen[s] \notin Names /\ asked[s] = 0 /\ candidates[s] = <<>>
  BY <1>1 DEF IInv, TypeOK
<1>3. MaxServed \in Nat /\ NoRequest \notin Requests /\ NoProvider \notin Names
  BY ProvidersAssumption
<1>4. TypeOK'
  <2>1. served' \in 0 .. MaxServed
    BY <1>1, <1>3 DEF IInv, TypeOK
  <2>2. /\ stage' \in [Callers -> {"idle", "pinned", "scan", "call", "refused"}]
        /\ request' \in [Callers -> Requests \cup {NoRequest}] /\ steady' \in [Callers -> SUBSET Names]
    BY <1>1, <1>2
  <2>3. ASSUME NEW t \in Callers
        PROVE  /\ stage'[t] = "idle" <=> request'[t] = NoRequest
               /\ stage'[t] = "call" <=> chosen'[t] \in Names
               /\ stage'[t] # "scan" => asked'[t] = 0 /\ candidates'[t] = <<>>
               /\ Len(candidates'[t]) <= asked'[t]
    BY <1>1, <1>2, <1>3 DEF IInv, TypeOK
  <2>. QED
    BY <1>1, <2>1, <2>2, <2>3 DEF IInv, TypeOK
<1>5. Staying'
  BY <1>1, <1>2 DEF IInv, Staying
<1>6. (\A t \in Callers : Served(t))'
  <2>1. Named(s)'
    BY <1>1, <1>2 DEF Named, InferProvider
  <2>2. Scans(s)'
    <3>1. stage'[s] = "scan" => InferProvider(request'[s].model) \notin steady'[s]
      BY <1>1, <1>2, <1>3
    <3>2. \A q \in steady'[s] : ~(Place(q) <= 0)
      BY <1>1, <1>2, Places, ProvidersAssumption
    <3>3. DOMAIN candidates'[s] = {} /\ asked'[s] = 0
      BY <1>1, <1>2
    <3>. QED
      BY <3>1, <3>2, <3>3 DEF Scans
  <2>3. Chose(s)'
    BY <1>1, <1>2 DEF Chose
  <2>4. Apart(s)
    BY <1>1, <1>2 DEF Apart
  <2>. QED
    BY <2>1, <2>2, <2>3, <2>4, OthersKeep DEF Served
<1>7. Listing' /\ Answered'
  <2>1. \A t \in Callers : stage'[t] = "call" <=> stage[t] = "call"
    BY <1>1, <1>2
  <2>. QED
    BY <1>1, <2>1, NothingChosen DEF IInv
<1>. QED
  BY <1>4, <1>5, <1>6, <1>7 DEF IInv
LEMMA AskPinnedKeeps ==
  ASSUME IInv, NEW s \in Callers, AskPinned(s)
  PROVE  IInv'
<1> DEFINE r == request[s]
           p == InferProvider(r.model)
<1>1. /\ stage[s] = "pinned"
      /\ UNCHANGED <<up, request, asked, candidates, requests, cost, served, steady>>
      /\ \/ p \in up /\ Select(s, p, StripPrefix(r.model), "PINNED")
         \/ /\ p \notin up /\ stage' = [stage EXCEPT ![s] = "scan"]
            /\ UNCHANGED <<chosen, model, decisions, selections, ordinal>>
  BY DEF AskPinned, totals
<1>2. /\ TypeOK /\ Staying /\ Listing /\ Answered
      /\ stage \in [Callers -> {"idle", "pinned", "scan", "call", "refused"}]
      /\ request \in [Callers -> Requests \cup {NoRequest}]
      /\ steady \in [Callers -> SUBSET Names] /\ up \subseteq Names
      /\ chosen \in [Callers -> Names \cup {NoProvider}] /\ model \in [Callers -> Given]
      /\ chosen[s] \notin Names /\ asked[s] = 0 /\ candidates[s] = <<>> /\ r \in Requests
  BY <1>1 DEF IInv, TypeOK
<1>3. NoProvider \notin Names /\ p \in Names
  BY <1>1, ProvidersAssumption DEF IInv, Served, Named
<1>4. Staying'
  BY <1>1, <1>2 DEF Staying
<1>5. CASE p \in up
  <2>1. Select(s, p, StripPrefix(r.model), "PINNED")
    BY <1>1, <1>5
  <2>2. /\ chosen' = [chosen EXCEPT ![s] = p] /\ model' = [model EXCEPT ![s] = StripPrefix(r.model)]
        /\ stage' = [stage EXCEPT ![s] = "call"]
    BY <2>1 DEF Select
  <2>3. StripPrefix(r.model) \in Given /\ "PINNED" \in DOMAIN PolicyWeights
    BY <1>2 DEF Given, PolicyWeights
  <2> HIDE DEF p
  <2>4. /\ decisions' \in Seq(Decision) /\ chosen' \in [Callers -> Names \cup {NoProvider}]
        /\ stage' \in [Callers -> {"idle", "pinned", "scan", "call", "refused"}]
        /\ model' \in [Callers -> Given] /\ selections' \in Nat /\ ordinal' \in [Callers -> Nat]
        /\ Listing' /\ Answered'
    BY <1>1, <1>2, <1>3, <2>1, <2>3, SelectKeeps
  <2>5. ASSUME NEW t \in Callers
        PROVE  /\ stage'[t] = "idle" <=> request'[t] = NoRequest
               /\ stage'[t] = "call" <=> chosen'[t] \in Names
               /\ stage'[t] # "scan" => asked'[t] = 0 /\ candidates'[t] = <<>>
               /\ Len(candidates'[t]) <= asked'[t]
    BY <1>1, <1>2, <1>3, <2>2 DEF TypeOK
  <2>6. TypeOK'
    BY <1>1, <1>2, <2>4, <2>5 DEF TypeOK
  <2>7. Named(s)' /\ Scans(s)'
    BY <1>2, <2>2 DEF Named, Scans
  <2>8. Chose(s)'
    BY <1>1, <1>2, <1>3, <2>2 DEF Chose, p
  <2>9. Apart(s)
    BY <1>1, <1>2, <2>2 DEF Apart
  <2>. QED
    BY <1>4, <2>4, <2>6, <2>7, <2>8, <2>9, OthersKeep DEF IInv, Served
<1>6. CASE p \notin up
  <2>1. /\ stage' = [stage EXCEPT ![s] = "scan"]
        /\ UNCHANGED <<chosen, model, decisions, selections, ordinal>>
    BY <1>1, <1>6
  <2>2. ASSUME NEW t \in Callers
        PROVE  /\ stage'[t] = "idle" <=> request'[t] = NoRequest
               /\ stage'[t] = "call" <=> chosen'[t] \in Names
               /\ stage'[t] # "scan" => asked'[t] = 0 /\ candidates'[t] = <<>>
               /\ Len(candidates'[t]) <= asked'[t]
    BY <1>1, <1>2, <2>1 DEF TypeOK
  <2>3. stage' \in [Callers -> {"idle", "pinned", "scan", "call", "refused"}]
    BY <1>2, <2>1
  <2>4. TypeOK'
    BY <1>1, <1>2, <2>1, <2>2, <2>3 DEF TypeOK
  <2>5. Named(s)' /\ Chose(s)'
    BY <1>2, <2>1 DEF Named, Chose
  <2>6. Scans(s)'
    <3>1. InferProvider(request'[s].model) \notin steady'[s]
      BY <1>1, <1>2, <1>6 DEF Staying
    <3>2. \A q \in steady'[s] : ~(Place(q) <= 0)
      BY <1>1, <1>2, Places, ProvidersAssumption
    <3>3. DOMAIN candidates'[s] = {} /\ asked'[s] = 0
      BY <1>1, <1>2
    <3>. QED
      BY <3>1, <3>2, <3>3 DEF Scans
  <2>7. Apart(s)
    BY <1>1, <1>2, <2>1 DEF Apart
  <2>8. Listing' /\ Answered'
    <3>1. \A t \in Callers : stage'[t] = "call" <=> stage[t] = "call"
      BY <1>1, <1>2, <2>1
    <3>. QED
      BY <1>1, <1>2, <2>1, <3>1, NothingChosen
  <2>. QED
    BY <1>4, <2>4, <2>5, <2>6, <2>7, <2>8, OthersKeep DEF IInv, Served
<1>. QED
  BY <1>5, <1>6

\* The end of a request: the caller is free again.
LEMMA EndKeeps ==
  ASSUME IInv, NEW s \in Callers, stage[s] \in {"call", "refused"}, End(s),
         requests' \in Nat, cost' \in Nat,
         \/ requests' = requests
         \/ stage[s] = "call" /\ requests' = requests + 1
  PROVE  IInv'
<1>1. /\ stage' = [stage EXCEPT ![s] = "idle"] /\ request' = [request EXCEPT ![s] = NoRequest]
      /\ chosen' = [chosen EXCEPT ![s] = NoProvider] /\ model' = [model EXCEPT ![s] = <<>>]
      /\ steady' = [steady EXCEPT ![s] = {}] /\ ordinal' = [ordinal EXCEPT ![s] = 0]
      /\ UNCHANGED <<up, asked, candidates, decisions, served, selections>>
  BY DEF End
<1>2. /\ TypeOK /\ Staying /\ Listing /\ Answered
      /\ stage \in [Callers -> {"idle", "pinned", "scan", "call", "refused"}]
      /\ request \in [Callers -> Requests \cup {NoRequest}]
      /\ steady \in [Callers -> SUBSET Names] /\ up \subseteq Names
      /\ chosen \in [Callers -> Names \cup {NoProvider}] /\ model \in [Callers -> Given]
      /\ ordinal \in [Callers -> Nat] /\ requests \in Nat /\ selections \in Nat
      /\ asked[s] = 0 /\ candidates[s] = <<>>
  BY DEF IInv, TypeOK
<1>3. NoProvider \notin Names
  BY ProvidersAssumption
<1>4. TypeOK'
  <2>1. /\ stage' \in [Callers -> {"idle", "pinned", "scan", "call", "refused"}]
        /\ request' \in [Callers -> Requests \cup {NoRequest}]
        /\ steady' \in [Callers -> SUBSET Names] /\ ordinal' \in [Callers -> Nat]
        /\ chosen' \in [Callers -> Names \cup {NoProvider}]
    BY <1>1, <1>2
  <2>2. model' \in [Callers -> Given]
    BY <1>1, <1>2 DEF Given
  <2>3. ASSUME NEW t \in Callers
        PROVE  /\ stage'[t] = "idle" <=> request'[t] = NoRequest
               /\ stage'[t] = "call" <=> chosen'[t] \in Names
               /\ stage'[t] # "scan" => asked'[t] = 0 /\ candidates'[t] = <<>>
               /\ Len(candidates'[t]) <= asked'[t]
    BY <1>1, <1>2, <1>3 DEF TypeOK
  <2>. QED
    BY <1>1, <1>2, <2>1, <2>2, <2>3 DEF TypeOK
<1>5. Staying'
  BY <1>1, <1>2 DEF Staying
<1>6. (\A t \in Callers : Served(t))'
  <2>1. Served(s)'
    BY <1>1, <1>2 DEF Served, Named, Scans, Chose
  <2>2. Apart(s)
    BY <1>1, <1>2 DEF Apart
  <2>. QED
    BY <2>1, <2>2, OthersKeep
<1>7. Listing'
  <2>1. ASSUME NEW t \in Callers, stage'[t] = "call"
        PROVE  stage[t] = "call" /\ ordinal'[t] = ordinal[t] /\ chosen'[t] = chosen[t]
    BY <1>1, <1>2, <2>1
  <2>. QED
    BY <1>1, <1>2, <2>1 DEF Listing
<1>8. Answered'
  <2>1. Calling' = Calling \ {s} /\ (stage[s] = "call" <=> s \in Calling)
    BY <1>1, <1>2 DEF Calling
  <2>2. IsFiniteSet(Calling) /\ Cardinality(Calling) \in Nat /\ requests + Cardinality(Calling) <= selections
    BY <1>2, FS_CardinalityType DEF Answered
  <2>3. /\ IsFiniteSet(Calling')
        /\ Cardinality(Calling') = IF s \in Calling THEN Cardinality(Calling) - 1 ELSE Cardinality(Calling)
    BY <2>1, <2>2, FS_RemoveElement
  <2>4. Cardinality(Calling') \in Nat
    BY <2>3, FS_CardinalityType
  <2>. QED
    BY <1>1, <1>2, <2>1, <2>2, <2>3, <2>4 DEF Answered
<1>. QED
  BY <1>4, <1>5, <1>6, <1>7, <1>8 DEF IInv

LEMMA AnswerKeeps ==
  ASSUME IInv, NEW s \in Callers, Answer(s)
  PROVE  IInv'
<1>1. /\ stage[s] = "call" /\ End(s) /\ requests' = requests + 1 /\ cost' = cost + Caps[chosen[s]].price
  BY DEF Answer
<1>2. requests \in Nat /\ cost \in Nat /\ chosen[s] \in Names
  BY <1>1 DEF IInv, TypeOK
<1>3. Caps[chosen[s]].price \in Nat
  BY <1>2, DeclarationsAssumption
<1>4. requests' \in Nat /\ cost' \in Nat
  BY <1>1, <1>2, <1>3
<1>. QED
  BY <1>1, <1>4, EndKeeps

LEMMA FailKeeps ==
  ASSUME IInv, NEW s \in Callers, Fail(s)
  PROVE  IInv'
<1>1. stage[s] \in {"call", "refused"} /\ End(s) /\ requests' = requests /\ cost' = cost
  BY DEF Fail, totals
<1>2. requests' \in Nat /\ cost' \in Nat
  BY <1>1 DEF IInv, TypeOK
<1>. QED
  BY <1>1, <1>2, EndKeeps
\* What the providers asked so far have come to, with the next one's answer.
Found(s) ==
  LET p == Providers[asked[s] + 1]
  IN IF p \in up /\ Eligible(p, request[s]) THEN Append(candidates[s], p) ELSE candidates[s]

\* The next provider asked comes behind all of those before it, and is missed
\* only when it is down or not eligible.
LEMMA NextIsFound ==
  ASSUME IInv, NEW s \in Callers, stage[s] = "scan"
  PROVE  /\ asked[s] + 1 \in 1 .. Len(Providers) /\ Found(s) \in Seq(Names)
         /\ Len(Found(s)) <= asked[s] + 1
         /\ \A i \in DOMAIN Found(s) :
              Eligible(Found(s)[i], request[s]) /\ Place(Found(s)[i]) <= asked[s] + 1
         /\ \A i, j \in DOMAIN Found(s) : i < j => Place(Found(s)[i]) < Place(Found(s)[j])
         /\ \A q \in steady[s] : Place(q) <= asked[s] + 1 /\ Eligible(q, request[s]) =>
              \E i \in DOMAIN Found(s) : Found(s)[i] = q
<1> DEFINE c == candidates[s]
           n == asked[s] + 1
           p == Providers[n]
<1>1. /\ c \in Seq(Names) /\ asked[s] \in 0 .. Len(Providers) - 1 /\ Len(c) <= asked[s]
      /\ steady[s] \subseteq up /\ steady[s] \subseteq Names /\ Len(Providers) \in Nat
  BY ProvidersAssumption DEF IInv, TypeOK, Staying
<1>2. n \in 1 .. Len(Providers) /\ p \in Names /\ Place(p) = n
  BY <1>1, Places
<1>3. /\ \A i \in DOMAIN c : Eligible(c[i], request[s]) /\ Place(c[i]) <= asked[s]
      /\ \A i, j \in DOMAIN c : i < j => Place(c[i]) < Place(c[j])
      /\ \A q \in steady[s] : Place(q) <= asked[s] /\ Eligible(q, request[s]) => \E i \in DOMAIN c : c[i] = q
  BY DEF IInv, Served, Scans
<1>4. \A q \in steady[s] : Place(q) \in Nat /\ (Place(q) = n => q = p)
  BY <1>1, Places
<1>5. \A i \in DOMAIN c : Place(c[i]) \in Nat
  BY <1>1, Places
<1>6. Found(s) = IF p \in up /\ Eligible(p, request[s]) THEN Append(c, p) ELSE c
  BY DEF Found
<1>7. n = asked[s] + 1 /\ n \in Nat /\ asked[s] \in Nat
  BY <1>1
<1> HIDE DEF c, n, p
<1>8. CASE p \in up /\ Eligible(p, request[s])
  <2>1. /\ Found(s) \in Seq(Names) /\ Len(Found(s)) = Len(c) + 1 /\ DOMAIN Found(s) = 1 .. Len(c) + 1
        /\ DOMAIN c = 1 .. Len(c) /\ Len(c) \in Nat
        /\ Found(s)[Len(c) + 1] = p /\ \A i \in DOMAIN c : Found(s)[i] = c[i]
    BY <1>1, <1>2, <1>6, <1>8
  <2>2. \A i \in DOMAIN Found(s) : i \in DOMAIN c \/ i = Len(c) + 1
    BY <2>1
  <2>3. \A i \in DOMAIN Found(s) : Eligible(Found(s)[i], request[s]) /\ Place(Found(s)[i]) <= n
    BY <1>2, <1>3, <1>5, <1>7, <1>8, <2>1, <2>2
  <2>4. ASSUME NEW i \in DOMAIN Found(s), NEW j \in DOMAIN Found(s), i < j
        PROVE  Place(Found(s)[i]) < Place(Found(s)[j])
    <3>1. i \in DOMAIN c
      BY <2>1, <2>2, <2>4
    <3>2. CASE j \in DOMAIN c
      BY <1>3, <2>1, <2>4, <3>1, <3>2
    <3>3. CASE j = Len(c) + 1
      BY <1>2, <1>3, <1>5, <1>7, <2>1, <3>1, <3>3
    <3>. QED
      BY <2>2, <3>2, <3>3
  <2>5. ASSUME NEW q \in steady[s], Place(q) <= n, Eligible(q, request[s])
        PROVE  \E i \in DOMAIN Found(s) : Found(s)[i] = q
    <3>1. CASE q = p
      BY <2>1, <3>1
    <3>2. CASE Place(q) <= asked[s]
      <4>1. PICK i \in DOMAIN c : c[i] = q
        BY <1>3, <2>5, <3>2
      <4>. QED
        BY <2>1, <4>1
    <3>. QED
      BY <1>4, <1>7, <2>5, <3>1, <3>2
  <2>. QED
    BY <1>1, <1>2, <1>7, <2>1, <2>3, <2>4, <2>5
<1>9. CASE ~(p \in up /\ Eligible(p, request[s]))
  <2>1. Found(s) = c
    BY <1>6, <1>9
  <2>2. \A i \in DOMAIN c : Place(c[i]) <= n
    BY <1>3, <1>5, <1>7
  <2>3. ASSUME NEW q \in steady[s], Place(q) <= n, Eligible(q, request[s])
        PROVE  Place(q) <= asked[s]
    BY <1>1, <1>4, <1>7, <1>9, <2>3
  <2>. QED
    BY <1>1, <1>2, <1>3, <1>7, <2>1, <2>2, <2>3
<1>. QED
  BY <1>8, <1>9

LEMMA AskKeeps ==
  ASSUME IInv, NEW s \in Callers, Ask(s)
  PROVE  IInv'
<1> DEFINE r == request[s]
           more == asked[s] + 1 < Len(Providers)
<1>1. /\ stage[s] = "scan"
      /\ asked' = [asked EXCEPT ![s] = IF more THEN asked[s] + 1 ELSE 0]
      /\ candidates' = [candidates EXCEPT ![s] = IF more THEN Found(s) ELSE <<>>]
      /\ UNCHANGED <<up, request, requests, cost, served, steady>>
  BY DEF Ask, Found, totals
<1>2. IF ~more /\ Found(s) # <<>>
      THEN Select(s, Best(Found(s), ActivePolicy(r)), r.model, ActivePolicy(r))
      ELSE /\ stage' = [stage EXCEPT ![s] = IF more THEN "scan" ELSE "refused"]
           /\ UNCHANGED <<chosen, model, decisions, selections, ordinal>>
  BY DEF Ask, Found
<1>3. /\ TypeOK /\ Staying /\ Listing /\ Answered
      /\ stage \in [Callers -> {"idle", "pinned", "scan", "call", "refused"}]
      /\ request \in [Callers -> Requests \cup {NoRequest}] /\ r \in Requests
      /\ steady \in [Callers -> SUBSET Names] /\ up \subseteq Names
      /\ chosen \in [Callers -> Names \cup {NoProvider}] /\ model \in [Callers -> Given]
      /\ asked \in [Callers -> 0 .. Len(Providers) - 1] /\ candidates \in [Callers -> Seq(Names)]
      /\ chosen[s] \notin Names /\ Len(Providers) \in Nat \ {0}
  BY <1>1, ProvidersAssumption DEF IInv, TypeOK
<1>4. /\ asked[s] + 1 \in 1 .. Len(Providers) /\ Found(s) \in Seq(Names)
      /\ Len(Found(s)) <= asked[s] + 1
      /\ \A i \in DOMAIN Found(s) :
           Eligible(Found(s)[i], r) /\ Place(Found(s)[i]) <= asked[s] + 1
      /\ \A i, j \in DOMAIN Found(s) : i < j => Place(Found(s)[i]) < Place(Found(s)[j])
      /\ \A q \in steady[s] : Place(q) <= asked[s] + 1 /\ Eligible(q, r) =>
           \E i \in DOMAIN Found(s) : Found(s)[i] = q
  BY <1>1, NextIsFound
<1>5. InferProvider(r.model) \notin steady[s]
  BY <1>1 DEF IInv, Served, Scans
<1>6. /\ asked' \in [Callers -> 0 .. Len(Providers) - 1] /\ candidates' \in [Callers -> Seq(Names)]
      /\ asked'[s] = (IF more THEN asked[s] + 1 ELSE 0)
      /\ candidates'[s] = (IF more THEN Found(s) ELSE <<>>)
  BY <1>1, <1>3, <1>4
<1>7. Staying'
  BY <1>1, <1>3 DEF Staying
<1>8. ~more => \A q \in steady[s] : Place(q) <= asked[s] + 1
  BY <1>3, <1>4, Places
<1>9. ActivePolicy(r) \in DOMAIN PolicyWeights
  BY <1>3, DeclarationsAssumption DEF ActivePolicy, PolicyWeights
<1> HIDE DEF more
<1>10. CASE ~more /\ Found(s) # <<>>
  <2> DEFINE best == Best(Found(s), ActivePolicy(r))
  <2>1. PICK i \in DOMAIN Found(s) :
          /\ best = Found(s)[i]
          /\ \A j \in DOMAIN Found(s) :
               Score(Found(s)[j], ActivePolicy(r)) < Score(Found(s)[i], ActivePolicy(r)) + (IF j >= i THEN 1 ELSE 0)
    BY <1>4, <1>9, <1>10, BestIsBest
  <2>2. best \in Names /\ Eligible(best, r)
    BY <1>4, <2>1
  <2>3. Select(s, best, r.model, ActivePolicy(r)) /\ r.model \in Given
    BY <1>2, <1>3, <1>10 DEF Given
  <2>4. /\ chosen' = [chosen EXCEPT ![s] = best] /\ model' = [model EXCEPT ![s] = r.model]
        /\ stage' = [stage EXCEPT ![s] = "call"]
    BY <2>3 DEF Select
  <2>5. ASSUME NEW q \in steady[s] \ {best}, Eligible(q, r)
        PROVE  Outranks(best, q, ActivePolicy(r))
    <3>1. PICK j \in DOMAIN Found(s) : Found(s)[j] = q
      BY <1>4, <1>8, <1>10, <2>5
    <3>2. Score(q, ActivePolicy(r)) < Score(best, ActivePolicy(r)) + (IF j >= i THEN 1 ELSE 0)
      BY <2>1, <3>1
    <3>3. Score(q, ActivePolicy(r)) \in Int /\ Score(best, ActivePolicy(r)) \in Int
      <4>1. q \in Names
        BY <1>3, <2>5
      <4>2. Score(q, ActivePolicy(r)) \in 0 .. Highest /\ Score(best, ActivePolicy(r)) \in 0 .. Highest
        BY <1>9, <2>2, <4>1, ScoreType
      <4>. QED
        BY <4>2
    <3>4. j # i /\ i \in Nat /\ j \in Nat
      BY <1>4, <2>1, <2>5, <3>1
    <3>5. i < j => Place(best) < Place(q)
      BY <1>4, <2>1, <3>1
    <3> HIDE DEF best
    <3>. QED
      BY <3>2, <3>3, <3>4, <3>5 DEF Outranks
  <2> HIDE DEF best
  <2>6. /\ decisions' \in Seq(Decision) /\ chosen' \in [Callers -> Names \cup {NoProvider}]
        /\ stage' \in [Callers -> {"idle", "pinned", "scan", "call", "refused"}]
        /\ model' \in [Callers -> Given] /\ selections' \in Nat /\ ordinal' \in [Callers -> Nat]
        /\ Listing' /\ Answered'
    BY <1>1, <1>3, <1>9, <2>2, <2>3, SelectKeeps
  <2>7. ASSUME NEW t \in Callers
        PROVE  /\ stage'[t] = "idle" <=> request'[t] = NoRequest
               /\ stage'[t] = "call" <=> chosen'[t] \in Names
               /\ stage'[t] # "scan" => asked'[t] = 0 /\ candidates'[t] = <<>>
               /\ Len(candidates'[t]) <= asked'[t]
    BY <1>1, <1>3, <1>6, <1>10, <2>2, <2>4 DEF TypeOK
  <2>8. TypeOK'
    BY <1>1, <1>3, <1>6, <2>6, <2>7 DEF TypeOK
  <2>9. Named(s)' /\ Scans(s)'
    BY <1>3, <2>4 DEF Named, Scans
  <2>10. Chose(s)'
    <3>1. chosen'[s] = best /\ stage'[s] = "call" /\ request'[s] = r /\ steady'[s] = steady[s]
      BY <1>1, <1>3, <2>4
    <3>. QED
      BY <1>5, <2>2, <2>5, <3>1 DEF Chose, Eligible, CapabilityMatch, CostConstraint, Outranks
  <2>11. Apart(s)
    BY <1>1, <1>3, <2>4 DEF Apart
  <2>. QED
    BY <1>7, <2>6, <2>8, <2>9, <2>10, <2>11, OthersKeep DEF IInv, Served
<1>11. CASE more \/ Found(s) = <<>>
  <2>1. /\ stage' = [stage EXCEPT ![s] = IF more THEN "scan" ELSE "refused"]
        /\ UNCHANGED <<chosen, model, decisions, selections, ordinal>>
    BY <1>2, <1>11
  <2>2. stage' \in [Callers -> {"idle", "pinned", "scan", "call", "refused"}]
    BY <1>3, <2>1
  <2>3. ASSUME NEW t \in Callers
        PROVE  /\ stage'[t] = "idle" <=> request'[t] = NoRequest
               /\ stage'[t] = "call" <=> chosen'[t] \in Names
               /\ stage'[t] # "scan" => asked'[t] = 0 /\ candidates'[t] = <<>>
               /\ Len(candidates'[t]) <= asked'[t]
    BY <1>1, <1>3, <1>4, <1>6, <2>1 DEF TypeOK
  <2>4. TypeOK'
    BY <1>1, <1>3, <1>6, <2>1, <2>2, <2>3 DEF TypeOK
  <2>5. Named(s)'
    BY <1>3, <2>1 DEF Named
  <2>6. Scans(s)'
    <3>1. CASE more
      <4>1. asked'[s] = asked[s] + 1 /\ candidates'[s] = Found(s) /\ request'[s] = r /\ steady'[s] = steady[s]
        BY <1>1, <1>6, <3>1
      <4>. QED
        BY <1>4, <1>5, <4>1 DEF Scans, Eligible, CapabilityMatch, CostConstraint
    <3>2. CASE ~more
      BY <1>3, <2>1, <3>2 DEF Scans
    <3>. QED
      BY <3>1, <3>2
  <2>7. Chose(s)'
    <3>1. CASE more
      BY <1>3, <2>1, <3>1 DEF Chose
    <3>2. CASE ~more
      <4>1. stage'[s] = "refused" /\ request'[s] = r /\ steady'[s] = steady[s] /\ chosen'[s] = chosen[s]
        BY <1>1, <1>3, <2>1, <3>2
      <4>2. Found(s) = <<>>
        BY <1>11, <3>2
      <4>3. \A q \in steady[s] : ~Eligible(q, r)
        BY <1>4, <1>8, <3>2, <4>2
      <4>. QED
        BY <1>5, <4>1, <4>3 DEF Chose, Eligible, CapabilityMatch, CostConstraint
    <3>. QED
      BY <3>1, <3>2
  <2>8. Apart(s)
    BY <1>1, <1>3, <2>1 DEF Apart
  <2>9. Listing' /\ Answered'
    <3>1. \A t \in Callers : stage'[t] = "call" <=> stage[t] = "call"
      BY <1>1, <1>3, <2>1
    <3>. QED
      BY <1>1, <1>3, <2>1, <3>1, NothingChosen
  <2>. QED
    BY <1>7, <2>4, <2>5, <2>6, <2>7, <2>8, <2>9, OthersKeep DEF IInv, Served
<1>. QED
  BY <1>10, <1>11
LEMMA ComesBackKeeps ==
  ASSUME IInv, NEW p \in Names, ComesBack(p)
  PROVE  IInv'
<1>1. /\ up' = up \cup {p}
      /\ UNCHANGED <<stage, request, asked, candidates, chosen, model, decisions, requests, cost,
                     served, steady, selections, ordinal>>
  BY DEF ComesBack, caller, totals, history
<1>2. TypeOK' /\ Staying'
  BY <1>1 DEF IInv, TypeOK, Staying
<1>3. (\A t \in Callers : Served(t))'
  <2>1. ASSUME NEW t \in Callers PROVE Served(t)'
    BY <1>1 DEF IInv, Served, Named, Scans, Chose, Eligible, CapabilityMatch, CostConstraint, Outranks
  <2>. QED
    BY <2>1
<1>4. Listing' /\ Answered'
  BY <1>1, NothingChosen DEF IInv
<1>. QED
  BY <1>2, <1>3, <1>4 DEF IInv

LEMMA GoesAwayKeeps ==
  ASSUME IInv, NEW p \in Names, GoesAway(p)
  PROVE  IInv'
<1>1. /\ up' = up \ {p} /\ steady' = [t \in Callers |-> steady[t] \ {p}]
      /\ UNCHANGED <<stage, request, asked, candidates, chosen, model, decisions, requests, cost,
                     served, selections, ordinal>>
  BY DEF GoesAway, caller, totals
<1>2. TypeOK' /\ Staying'
  BY <1>1 DEF IInv, TypeOK, Staying
<1>3. (\A t \in Callers : Served(t))'
  <2>1. ASSUME NEW t \in Callers PROVE Served(t)'
    <3>1. Named(t) /\ Scans(t) /\ Chose(t) /\ steady'[t] \subseteq steady[t]
      BY <1>1 DEF IInv, Served
    <3>2. Named(t)'
      BY <1>1, <3>1 DEF Named
    <3>3. Scans(t)'
      BY <1>1, <3>1 DEF Scans, Eligible, CapabilityMatch, CostConstraint
    <3>4. Chose(t)'
      BY <1>1, <3>1 DEF Chose, Eligible, CapabilityMatch, CostConstraint, Outranks
    <3>. QED
      BY <3>2, <3>3, <3>4 DEF Served
  <2>. QED
    BY <2>1
<1>4. Listing' /\ Answered'
  BY <1>1, NothingChosen DEF IInv
<1>. QED
  BY <1>2, <1>3, <1>4 DEF IInv

-----------------------------------------------------------------------------
(* The theorems *)

LEMMA InitHolds == Init => IInv
<1> SUFFICES ASSUME Init PROVE IInv
  OBVIOUS
<1>1. TypeOK
  BY ProvidersAssumption DEF Init, TypeOK, Given
<1>2. Staying /\ \A s \in Callers : Served(s)
  BY DEF Init, Staying, Served, Named, Scans, Chose
<1>3. Listing
  BY ProvidersAssumption DEF Init, Listing
<1>4. Answered
  <2>1. Calling = {}
    BY DEF Init, Calling
  <2>. QED
    BY <2>1, FS_EmptySet DEF Init, Answered
<1>. QED
  BY <1>1, <1>2, <1>3, <1>4 DEF IInv

LEMMA StepKeeps == IInv /\ [Next]_vars => IInv'
<1> SUFFICES ASSUME IInv, [Next]_vars PROVE IInv'
  OBVIOUS
<1>1. ASSUME NEW s \in Callers, NEW r \in Requests, Begin(s, r) PROVE IInv'
  BY <1>1, BeginKeeps
<1>2. ASSUME NEW s \in Callers, Advance(s) PROVE IInv'
  BY <1>2, AskPinnedKeeps, AskKeeps, AnswerKeeps, FailKeeps DEF Advance
<1>3. ASSUME NEW p \in Names, ComesBack(p) \/ GoesAway(p) PROVE IInv'
  BY <1>3, ComesBackKeeps, GoesAwayKeeps
<1>4. CASE UNCHANGED vars
  <2>1. UNCHANGED <<up, stage, request, asked, candidates, chosen, model, decisions, requests, cost,
                    served, steady, selections, ordinal>>
    BY <1>4 DEF vars, caller, totals, history
  <2>2. TypeOK' /\ Staying'
    BY <2>1 DEF IInv, TypeOK, Staying
  <2>3. ASSUME NEW t \in Callers PROVE Served(t)'
    BY <2>1 DEF IInv, Served, Named, Scans, Chose, Eligible, CapabilityMatch, CostConstraint, Outranks
  <2>4. Listing' /\ Answered'
    BY <2>1, NothingChosen DEF IInv
  <2>. QED
    BY <2>2, <2>3, <2>4 DEF IInv
<1>. QED
  BY <1>1, <1>2, <1>3, <1>4 DEF Next

\* The invariant holds in every reachable state.
THEOREM Invariance == Spec => []IInv
  BY InitHolds, StepKeeps, PTL DEF Spec

\* Every variable of the router keeps its type, for any providers and requests.
THEOREM TypeCorrect == Spec => []TypeOK
<1>1. IInv => TypeOK
  BY DEF IInv
<1>. QED
  BY Invariance, <1>1, PTL

\* select_provider: among any providers that come and go while they are asked,
\* none that stayed up is passed over for a worse one.
THEOREM RouterChoosesBest == Spec => []ChoosesBest
<1>1. IInv => ChoosesBest
  BY DEF IInv, Served, Chose, ChoosesBest
<1>. QED
  BY Invariance, <1>1, PTL

\* get_routing_summary: however many requests run at once, the list of decisions
\* is the latest of them in order, and no request is counted that had none.
THEOREM SummaryIsRight == Spec => []SummaryAgrees
<1>1. ASSUME IInv PROVE SummaryAgrees
  <2>1. Calling = {s \in Callers : stage[s] = "call"}
    BY DEF Calling
  <2>2. Cardinality(Calling) \in Nat /\ requests \in Nat /\ selections \in Nat
    BY <1>1, FS_CardinalityType DEF IInv, Answered, TypeOK
  <2>3. requests <= selections - Cardinality({s \in Callers : stage[s] = "call"})
    BY <1>1, <2>1, <2>2 DEF IInv, Answered
  <2>. QED
    BY <1>1, <2>3 DEF IInv, Listing, SummaryAgrees
<1>. QED
  BY Invariance, <1>1, PTL
-----------------------------------------------------------------------------
(* What a provider is told *)

\* Induction up to N, over the set of the numbers for which something holds.
LEMMA Upwards ==
  ASSUME NEW N \in Nat, NEW S, 0 \in S, \A n \in 1 .. N : n - 1 \in S => n \in S
  PROVE  0 .. N \subseteq S
<1>1. SUFFICES ASSUME (0 .. N) \ S # {}
               PROVE  FALSE
  OBVIOUS
<1>2. PICK n \in (0 .. N) \ S : \A m \in (0 .. N) \ S : n <= m
  <2>1. (0 .. N) \ S \in SUBSET Nat
    OBVIOUS
  <2>. QED
    BY <1>1, <2>1, LeastNatural, Zenon
<1>3. n \in 1 .. N /\ n - 1 \in 0 .. N
  OBVIOUS
<1>4. n - 1 \in S
  BY <1>2, <1>3
<1>. QED
  BY <1>3, <1>4

\* f[k] is what is left of the first k elements of seq, up to n of them.
IsRest(f, seq, dropped, n) ==
  /\ f[0] = <<>>
  /\ \A k \in 1 .. n : f[k] = IF seq[k] \in dropped THEN f[k - 1] ELSE Append(f[k - 1], seq[k])

\* What is left agrees where the elements do and where they are dropped.
LEMMA RestsAgree ==
  ASSUME NEW n \in Nat, NEW s, NEW t, NEW D, NEW E, NEW f, NEW g,
         IsRest(f, s, D, n), IsRest(g, t, E, n),
         \A k \in 1 .. n : s[k] = t[k] /\ (s[k] \in D <=> t[k] \in E)
  PROVE  f[n] = g[n]
<1>. DEFINE Same == {k \in 0 .. n : f[k] = g[k]}
<1>1. 0 \in Same
  BY DEF IsRest
<1>2. ASSUME NEW k \in 1 .. n, k - 1 \in Same
      PROVE  k \in Same
  <2>1. f[k] = (IF s[k] \in D THEN f[k - 1] ELSE Append(f[k - 1], s[k]))
    BY DEF IsRest
  <2>2. g[k] = (IF t[k] \in E THEN g[k - 1] ELSE Append(g[k - 1], t[k]))
    BY DEF IsRest
  <2>3. f[k - 1] = g[k - 1] /\ s[k] = t[k] /\ (s[k] \in D <=> t[k] \in E)
    BY <1>2
  <2>4. f[k] = g[k]
    BY <2>1, <2>2, <2>3
  <2>. QED
    BY <2>4
<1>3. 0 .. n \subseteq Same
  <2>. HIDE DEF Same
  <2>. QED
    BY <1>1, <1>2, Upwards
<1>. QED
  BY <1>3

LEMMA RestExists ==
  ASSUME NEW seq \in Seq(Int), NEW D
  PROVE  \E f : IsRest(f, seq, D, Len(seq))
<1>. DEFINE Has(n) == \E f : IsRest(f, seq, D, n)
            Good == {n \in 0 .. Len(seq) : Has(n)}
<1>1. 0 \in Good
  <2>1. IsRest([k \in 0 .. 0 |-> <<>>], seq, D, 0)
    BY DEF IsRest
  <2>. QED
    BY <2>1
<1>2. ASSUME NEW n \in 1 .. Len(seq), n - 1 \in Good
      PROVE  n \in Good
  <2>1. PICK f : IsRest(f, seq, D, n - 1)
    BY <1>2
  <2>. DEFINE h == [k \in 0 .. n |-> IF k = n THEN (IF seq[n] \in D THEN f[n - 1] ELSE Append(f[n - 1], seq[n]))
                                             ELSE f[k]]
  <2>2. h[0] = <<>>
    BY <2>1 DEF IsRest
  <2>3. \A k \in 1 .. n : h[k] = IF seq[k] \in D THEN h[k - 1] ELSE Append(h[k - 1], seq[k])
    <3>. SUFFICES ASSUME NEW k \in 1 .. n
                  PROVE  h[k] = IF seq[k] \in D THEN h[k - 1] ELSE Append(h[k - 1], seq[k])
      OBVIOUS
    <3>1. h[k - 1] = f[k - 1]
      OBVIOUS
    <3>2. CASE k = n
      <4>1. h[k] = IF seq[n] \in D THEN f[n - 1] ELSE Append(f[n - 1], seq[n])
        BY <3>2
      <4>. QED
        BY <3>1, <3>2, <4>1
    <3>3. CASE k # n
      <4>1. k \in 1 .. n - 1 /\ h[k] = f[k]
        BY <3>3
      <4>2. f[k] = IF seq[k] \in D THEN f[k - 1] ELSE Append(f[k - 1], seq[k])
        BY <2>1, <4>1 DEF IsRest
      <4>. QED
        BY <3>1, <4>1, <4>2
    <3>. QED
      BY <3>2, <3>3
  <2>4. IsRest(h, seq, D, n)
    <3>. HIDE DEF h
    <3>. QED
      BY <2>2, <2>3 DEF IsRest
  <2>. QED
    BY <2>4
<1>3. Len(seq) \in Nat
  OBVIOUS
<1>4. 0 .. Len(seq) \subseteq Good
  <2>. HIDE DEF Good
  <2>. QED
    BY <1>1, <1>2, <1>3, Upwards
<1>5. Has(Len(seq))
  BY <1>3, <1>4
<1>. QED
  BY <1>5

\* Without is what is left in the end.
LEMMA WithoutIs ==
  ASSUME NEW seq \in Seq(Int), NEW D
  PROVE  \E f : IsRest(f, seq, D, Len(seq)) /\ Without(seq, D) = f[Len(seq)]
<1>. DEFINE Step(g) == [k \in 0 .. Len(seq) |->
                          IF k = 0 THEN <<>> ELSE IF seq[k] \in D THEN g[k - 1] ELSE Append(g[k - 1], seq[k])]
            upTo == CHOOSE g : g = Step(g)
<1>1. PICK f : IsRest(f, seq, D, Len(seq))
  BY RestExists
<1>. DEFINE h == [k \in 0 .. Len(seq) |-> f[k]]
<1>2. h = Step(h)
  <2>1. \A k \in 0 .. Len(seq) : f[k] = Step(h)[k]
    BY <1>1 DEF IsRest
  <2>. QED
    BY <2>1
<1>3. upTo = Step(upTo)
  <2>. HIDE DEF h
  <2>. QED
    BY <1>2
<1>4. Without(seq, D) = upTo[Len(seq)]
  BY DEF Without
<1>. HIDE DEF upTo
<1>5. IsRest(upTo, seq, D, Len(seq))
  <2>1. Len(seq) \in Nat
    OBVIOUS
  <2>2. \A k \in 0 .. Len(seq) : upTo[k] =
          IF k = 0 THEN <<>> ELSE IF seq[k] \in D THEN upTo[k - 1] ELSE Append(upTo[k - 1], seq[k])
    BY <1>3
  <2>. QED
    BY <2>1, <2>2 DEF IsRest
<1>. QED
  BY <1>4, <1>5

\* What is left is a sequence of elements that are not dropped.
LEMMA WithoutKeeps ==
  ASSUME NEW seq \in Seq(Int), NEW D, NEW T, \A i \in 1 .. Len(seq) : seq[i] \in T
  PROVE  Without(seq, D) \in Seq(T \ D)
<1>1. PICK f : IsRest(f, seq, D, Len(seq)) /\ Without(seq, D) = f[Len(seq)]
  BY WithoutIs
<1>2. Len(seq) \in Nat
  OBVIOUS
<1>. DEFINE Good == {n \in 0 .. Len(seq) : f[n] \in Seq(T \ D)}
<1>3. 0 \in Good
  <2>1. f[0] = <<>> /\ 0 \in 0 .. Len(seq)
    BY <1>1, <1>2 DEF IsRest
  <2>2. <<>> \in Seq(T \ D)
    BY EmptySeq
  <2>. QED
    BY <2>1, <2>2
<1>4. ASSUME NEW n \in 1 .. Len(seq), n - 1 \in Good
      PROVE  n \in Good
  <2>1. f[n] = IF seq[n] \in D THEN f[n - 1] ELSE Append(f[n - 1], seq[n])
    BY <1>1 DEF IsRest
  <2>2. f[n - 1] \in Seq(T \ D) /\ seq[n] \in T
    BY <1>4
  <2>3. f[n] \in Seq(T \ D)
    BY <2>1, <2>2
  <2>. QED
    BY <2>3
<1>5. 0 .. Len(seq) \subseteq Good
  <2>. HIDE DEF Good
  <2>. QED
    BY <1>2, <1>3, <1>4, Upwards
<1>. QED
  BY <1>1, <1>2, <1>5

\* Where nothing is dropped all is left.
LEMMA WithoutNothing ==
  ASSUME NEW seq \in Seq(Int), NEW D, \A i \in 1 .. Len(seq) : seq[i] \notin D
  PROVE  Without(seq, D) = seq
<1>1. PICK f : IsRest(f, seq, D, Len(seq)) /\ Without(seq, D) = f[Len(seq)]
  BY WithoutIs
<1>2. Len(seq) \in Nat
  OBVIOUS
<1>. DEFINE Good == {n \in 0 .. Len(seq) :
                       f[n] \in Seq(Int) /\ Len(f[n]) = n /\ \A i \in 1 .. n : f[n][i] = seq[i]}
<1>3. 0 \in Good
  <2>1. f[0] = <<>> /\ 0 \in 0 .. Len(seq)
    BY <1>1, <1>2 DEF IsRest
  <2>2. <<>> \in Seq(Int) /\ Len(<<>>) = 0
    BY EmptySeq
  <2>3. \A i \in 1 .. 0 : f[0][i] = seq[i]
    OBVIOUS
  <2>. QED
    BY <2>1, <2>2, <2>3
<1>4. ASSUME NEW n \in 1 .. Len(seq), n - 1 \in Good
      PROVE  n \in Good
  <2>1. f[n] = Append(f[n - 1], seq[n])
    BY <1>1 DEF IsRest
  <2>2. f[n - 1] \in Seq(Int) /\ Len(f[n - 1]) = n - 1 /\ \A i \in 1 .. n - 1 : f[n - 1][i] = seq[i]
    BY <1>4
  <2>3. seq[n] \in Int
    OBVIOUS
  <2>4. f[n] \in Seq(Int) /\ Len(f[n]) = n
    BY <2>1, <2>2, <2>3
  <2>5. \A i \in 1 .. n : f[n][i] = seq[i]
    BY <2>1, <2>2, <2>3
  <2>. QED
    BY <2>4, <2>5
<1>5. 0 .. Len(seq) \subseteq Good
  <2>. HIDE DEF Good
  <2>. QED
    BY <1>2, <1>3, <1>4, Upwards
<1>6. f[Len(seq)] \in Seq(Int) /\ Len(f[Len(seq)]) = Len(seq) /\ \A i \in 1 .. Len(seq) : f[Len(seq)][i] = seq[i]
  BY <1>2, <1>5
<1>7. f[Len(seq)] = seq
  BY <1>6, SeqEqual
<1>. QED
  BY <1>1, <1>7

\* Whether an element is kept does not depend on those that are absent.
LEMMA WithoutAgrees ==
  ASSUME NEW seq \in Seq(Int), NEW D, NEW E, \A i \in 1 .. Len(seq) : seq[i] \in D <=> seq[i] \in E
  PROVE  Without(seq, D) = Without(seq, E)
<1>1. PICK f : IsRest(f, seq, D, Len(seq)) /\ Without(seq, D) = f[Len(seq)]
  BY WithoutIs
<1>2. PICK g : IsRest(g, seq, E, Len(seq)) /\ Without(seq, E) = g[Len(seq)]
  BY WithoutIs
<1>3. Len(seq) \in Nat
  OBVIOUS
<1>. QED
  BY <1>1, <1>2, <1>3, RestsAgree

\* One more element at the end that is kept.
LEMMA WithoutAppend ==
  ASSUME NEW seq \in Seq(Int), NEW x \in Int, NEW D, x \notin D
  PROVE  Without(Append(seq, x), D) = Append(Without(seq, D), x)
<1>. DEFINE long == Append(seq, x)
            n == Len(seq)
<1>1. n \in Nat /\ long \in Seq(Int) /\ Len(long) = n + 1 /\ long[n + 1] = x /\ \A k \in 1 .. n : long[k] = seq[k]
  OBVIOUS
<1>2. PICK f : IsRest(f, seq, D, n) /\ Without(seq, D) = f[n]
  BY WithoutIs
<1>. HIDE DEF long
<1>3. PICK g : IsRest(g, long, D, Len(long)) /\ Without(long, D) = g[Len(long)]
  BY <1>1, WithoutIs
<1>. HIDE DEF n
<1>4. IsRest(g, long, D, n)
  BY <1>1, <1>3 DEF IsRest
<1>5. f[n] = g[n]
  BY <1>1, <1>2, <1>4, RestsAgree
<1>6. g[n + 1] = Append(g[n], x)
  <2>1. n + 1 \in 1 .. Len(long) /\ (n + 1) - 1 = n
    BY <1>1
  <2>. QED
    BY <2>1, <1>1, <1>3 DEF IsRest
<1>. QED
  BY <1>1, <1>2, <1>3, <1>5, <1>6 DEF long

\* One more element at the beginning that is dropped.
LEMMA WithoutFirst ==
  ASSUME NEW seq \in Seq(Int), NEW D, NEW x \in D, x \in Int
  PROVE  Without(<<x>> \o seq, D) = Without(seq, D)
<1>. DEFINE long == <<x>> \o seq
            n == Len(seq)
<1>1. n \in Nat /\ long \in Seq(Int) /\ Len(long) = n + 1 /\ long[1] = x /\ \A k \in 1 .. n : long[k + 1] = seq[k]
  OBVIOUS
<1>2. PICK f : IsRest(f, seq, D, n) /\ Without(seq, D) = f[n]
  BY WithoutIs
<1>. HIDE DEF long
<1>3. PICK g : IsRest(g, long, D, Len(long)) /\ Without(long, D) = g[Len(long)]
  BY <1>1, WithoutIs
<1>. HIDE DEF n
<1>. DEFINE h == [k \in 0 .. n |-> g[k + 1]]
<1>4. h[0] = <<>>
  <2>1. 1 \in 1 .. Len(long) /\ 1 - 1 = 0
    BY <1>1
  <2>2. g[1] = IF long[1] \in D THEN g[1 - 1] ELSE Append(g[1 - 1], long[1])
    BY <2>1, <1>3 DEF IsRest
  <2>3. g[1] = <<>>
    BY <2>1, <2>2, <1>1, <1>3 DEF IsRest
  <2>. QED
    BY <2>3, <1>1
<1>5. \A k \in 1 .. n : h[k] = IF seq[k] \in D THEN h[k - 1] ELSE Append(h[k - 1], seq[k])
  <2>. SUFFICES ASSUME NEW k \in 1 .. n
                PROVE  h[k] = IF seq[k] \in D THEN h[k - 1] ELSE Append(h[k - 1], seq[k])
    OBVIOUS
  <2>1. k + 1 \in 1 .. Len(long) /\ (k + 1) - 1 = k /\ (k - 1) + 1 = k
    BY <1>1
  <2>2. g[k + 1] = IF long[k + 1] \in D THEN g[k] ELSE Append(g[k], long[k + 1])
    BY <2>1, <1>3 DEF IsRest
  <2>3. h[k] = g[k + 1] /\ h[k - 1] = g[k]
    BY <1>1, <2>1
  <2>. QED
    BY <2>2, <2>3, <1>1
<1>6. IsRest(h, seq, D, n)
  <2>. HIDE DEF h
  <2>. QED
    BY <1>4, <1>5 DEF IsRest
<1>7. h[n] = f[n]
  <2>. HIDE DEF h
  <2>. QED
    BY <1>1, <1>2, <1>6, RestsAgree
<1>8. h[n] = g[n + 1]
  BY <1>1
<1>. QED
  BY <1>1, <1>2, <1>3, <1>7, <1>8 DEF long
Roles == STRING \cup {"user", "system", "model", "assistant"}
Turns == Seq(Roles \X Int)

LEMMA TurnIs ==
  ASSUME NEW role \in Roles, NEW text \in Int
  PROVE  <<role, text>> \in Roles \X Int /\ <<role, text>>[2] = text
  OBVIOUS

LEMMA OneTurn ==
  ASSUME NEW role \in Roles, NEW text \in Int
  PROVE  <<<<role, text>>>> \in Turns /\ Len(<<<<role, text>>>>) = 1 /\ <<<<role, text>>>>[1][2] = text
<1>1. <<role, text>> \in Roles \X Int /\ <<role, text>>[2] = text
  BY TurnIs
<1>2. \A S : \A t \in S : <<t>> \in Seq(S) /\ Len(<<t>>) = 1 /\ <<t>>[1] = t
  OBVIOUS
<1>. QED
  BY <1>1, <1>2 DEF Turns

LEMMA TextsIs ==
  ASSUME NEW turns \in Turns
  PROVE  /\ Texts(turns) \in Seq(Int) /\ Len(Texts(turns)) = Len(turns)
         /\ \A i \in 1 .. Len(turns) : Texts(turns)[i] = turns[i][2]
<1>1. Len(turns) \in Nat /\ DOMAIN turns = 1 .. Len(turns)
  BY DEF Turns
<1>2. \A i \in 1 .. Len(turns) : turns[i][2] \in Int
  <2>. SUFFICES ASSUME NEW i \in 1 .. Len(turns)
                PROVE  turns[i][2] \in Int
    OBVIOUS
  <2>1. turns[i] \in Roles \X Int
    BY DEF Turns
  <2>. QED
    BY <2>1
<1>3. Texts(turns) = [i \in 1 .. Len(turns) |-> turns[i][2]]
  BY <1>1 DEF Texts
<1>. QED
  BY <1>1, <1>2, <1>3

\* The prompt comes last.
LEMMA TextsLast ==
  ASSUME NEW turns \in Turns
  PROVE  Texts(turns \o <<<<"user", Prompt>>>>) = Append(Texts(turns), Prompt)
<1>. DEFINE last == <<<<"user", Prompt>>>>
            n == Len(turns)
<1>1. last \in Turns /\ Len(last) = 1 /\ last[1][2] = Prompt /\ n \in Nat /\ Prompt \in Int
  <2>1. "user" \in Roles /\ Prompt \in Int /\ n \in Nat
    BY DEF Roles, Prompt, Turns
  <2>. QED
    BY <2>1, OneTurn
<1>. HIDE DEF last
<1>2. /\ turns \o last \in Turns /\ Len(turns \o last) = n + 1 /\ (turns \o last)[n + 1] = last[1]
      /\ \A i \in 1 .. n : (turns \o last)[i] = turns[i]
  <2>0. turns \in Seq(Roles \X Int) /\ last \in Seq(Roles \X Int)
    BY <1>1 DEF Turns
  <2>3. /\ turns \o last \in Seq(Roles \X Int) /\ Len(turns \o last) = Len(turns) + Len(last)
        /\ \A i \in 1 .. Len(turns) + Len(last) : (turns \o last)[i] = IF i <= Len(turns) THEN turns[i] ELSE last[i - Len(turns)]
    BY <2>0, ConcatProperties
  <2>1. /\ turns \o last \in Turns /\ Len(turns \o last) = n + 1
        /\ \A i \in 1 .. n + 1 : (turns \o last)[i] = IF i <= n THEN turns[i] ELSE last[i - n]
    BY <1>1, <2>3 DEF Turns
  <2>2. (n + 1) - n = 1 /\ ~(n + 1 <= n) /\ n + 1 \in 1 .. n + 1
    BY <1>1
  <2>. QED
    BY <1>1, <2>1, <2>2
<1>3. /\ Texts(turns \o last) \in Seq(Int) /\ Len(Texts(turns \o last)) = n + 1
      /\ \A i \in 1 .. n + 1 : Texts(turns \o last)[i] = (turns \o last)[i][2]
  BY <1>2, TextsIs
<1>4. Texts(turns) \in Seq(Int) /\ Len(Texts(turns)) = n /\ \A i \in 1 .. n : Texts(turns)[i] = turns[i][2]
  BY TextsIs
<1>. HIDE DEF n
<1>5. /\ Append(Texts(turns), Prompt) \in Seq(Int) /\ Len(Append(Texts(turns), Prompt)) = n + 1
      /\ Append(Texts(turns), Prompt)[n + 1] = Prompt
      /\ \A i \in 1 .. n : Append(Texts(turns), Prompt)[i] = Texts(turns)[i]
  BY <1>1, <1>4
<1>6. \A i \in 1 .. n + 1 : Texts(turns \o last)[i] = Append(Texts(turns), Prompt)[i]
  <2>. SUFFICES ASSUME NEW i \in 1 .. n + 1
                PROVE  Texts(turns \o last)[i] = Append(Texts(turns), Prompt)[i]
    OBVIOUS
  <2>1. CASE i = n + 1
    BY <2>1, <1>1, <1>2, <1>3, <1>5
  <2>2. CASE i \in 1 .. n
    BY <2>2, <1>2, <1>3, <1>4, <1>5
  <2>. QED
    <3>1. i = n + 1 \/ i \in 1 .. n
      BY <1>1
    <3>. QED
      BY <2>1, <2>2, <3>1
<1>7. Texts(turns \o last) = Append(Texts(turns), Prompt)
  BY <1>3, <1>5, <1>6, SeqEqual
<1>. QED
  BY <1>7 DEF last

\* A system prompt comes first.
LEMMA TextsFirst ==
  ASSUME NEW turns \in Turns
  PROVE  /\ <<<<"system", SystemPrompt>>>> \o turns \in Turns
         /\ Texts(<<<<"system", SystemPrompt>>>> \o turns) = <<SystemPrompt>> \o Texts(turns)
<1>. DEFINE first == <<<<"system", SystemPrompt>>>>
            n == Len(turns)
            all == <<SystemPrompt>> \o Texts(turns)
<1>1. first \in Turns /\ Len(first) = 1 /\ first[1][2] = SystemPrompt /\ n \in Nat /\ SystemPrompt \in Int
  <2>1. "system" \in Roles /\ SystemPrompt \in Int /\ n \in Nat
    BY DEF Roles, SystemPrompt, Turns
  <2>. QED
    BY <2>1, OneTurn
<1>. HIDE DEF first
<1>2. /\ first \o turns \in Turns /\ Len(first \o turns) = n + 1 /\ (first \o turns)[1] = first[1]
      /\ \A i \in 1 .. n : (first \o turns)[i + 1] = turns[i]
  <2>0. first \in Seq(Roles \X Int) /\ turns \in Seq(Roles \X Int)
    BY <1>1 DEF Turns
  <2>3. /\ first \o turns \in Seq(Roles \X Int) /\ Len(first \o turns) = Len(first) + Len(turns)
        /\ \A i \in 1 .. Len(first) + Len(turns) : (first \o turns)[i] = IF i <= Len(first) THEN first[i] ELSE turns[i - Len(first)]
    BY <2>0, ConcatProperties
  <2>1. /\ first \o turns \in Turns /\ Len(first \o turns) = n + 1
        /\ \A i \in 1 .. 1 + n : (first \o turns)[i] = IF i <= 1 THEN first[i] ELSE turns[i - 1]
    BY <1>1, <2>3 DEF Turns
  <2>2. \A i \in 1 .. n : (i + 1) - 1 = i /\ ~(i + 1 <= 1) /\ i + 1 \in 1 .. 1 + n
    BY <1>1
  <2>. QED
    BY <1>1, <2>1, <2>2
<1>3. /\ Texts(first \o turns) \in Seq(Int) /\ Len(Texts(first \o turns)) = n + 1
      /\ \A i \in 1 .. n + 1 : Texts(first \o turns)[i] = (first \o turns)[i][2]
  BY <1>2, TextsIs
<1>4. Texts(turns) \in Seq(Int) /\ Len(Texts(turns)) = n /\ \A i \in 1 .. n : Texts(turns)[i] = turns[i][2]
  BY TextsIs
<1>. HIDE DEF n
<1>5. /\ all \in Seq(Int) /\ Len(all) = n + 1 /\ all[1] = SystemPrompt
      /\ \A i \in 1 .. n : all[i + 1] = Texts(turns)[i]
  BY <1>1, <1>4
<1>. HIDE DEF all
<1>6. \A i \in 1 .. n + 1 : Texts(first \o turns)[i] = all[i]
  <2>. SUFFICES ASSUME NEW i \in 1 .. n + 1
                PROVE  Texts(first \o turns)[i] = all[i]
    OBVIOUS
  <2>1. CASE i = 1
    BY <2>1, <1>1, <1>2, <1>3, <1>5
  <2>2. CASE i # 1
    <3>1. i - 1 \in 1 .. n /\ (i - 1) + 1 = i
      BY <2>2, <1>1
    <3>2. (first \o turns)[i] = turns[i - 1] /\ all[i] = Texts(turns)[i - 1]
      BY <3>1, <1>2, <1>5
    <3>. QED
      BY <3>1, <3>2, <1>3, <1>4
  <2>. QED
    BY <2>1, <2>2
<1>7. Texts(first \o turns) = all
  BY <1>3, <1>5, <1>6, SeqEqual
<1>. QED
  BY <1>2, <1>7 DEF first, all

LEMMA RequestIs ==
  ASSUME NEW r \in Requests
  PROVE  /\ Len(r.messages) \in Nat /\ DOMAIN r.messages = 1 .. Len(r.messages)
         /\ \A i \in 1 .. Len(r.messages) : r.messages[i] \in STRING
         /\ Order(r) \in Seq(Int) /\ Len(Order(r)) = Len(r.messages)
         /\ \A i \in 1 .. Len(r.messages) : Order(r)[i] = i
         /\ SystemMessages(r) \subseteq 1 .. Len(r.messages)
         /\ Messages(r) \in Turns /\ Texts(Messages(r)) = Order(r)
<1>1. r.messages \in Seq(STRING)
  BY DeclarationsAssumption
<1>2. Len(r.messages) \in Nat /\ DOMAIN r.messages = 1 .. Len(r.messages)
  BY <1>1, LenProperties
<1>3. \A i \in 1 .. Len(r.messages) : r.messages[i] \in STRING
  BY <1>1, ElementOfSeq
<1>. DEFINE n == Len(r.messages)
<1>4. Order(r) = [i \in 1 .. n |-> i] /\ Messages(r) = [i \in 1 .. n |-> <<r.messages[i], i>>]
  BY <1>2 DEF Order, Messages
<1>. HIDE DEF n
<1>5. Order(r) \in Seq(Int) /\ Len(Order(r)) = n /\ \A i \in 1 .. n : Order(r)[i] = i
  BY <1>2, <1>4 DEF n
<1>6. \A i \in 1 .. n : <<r.messages[i], i>> \in Roles \X Int
  BY <1>3, TurnIs DEF n, Roles
<1>7. Messages(r) \in Turns /\ Len(Messages(r)) = n /\ \A i \in 1 .. n : Messages(r)[i] = <<r.messages[i], i>>
  BY <1>2, <1>4, <1>6 DEF Turns, n
<1>8. /\ Texts(Messages(r)) \in Seq(Int) /\ Len(Texts(Messages(r))) = n
      /\ \A i \in 1 .. n : Texts(Messages(r))[i] = Messages(r)[i][2]
  BY <1>7, TextsIs
<1>9. \A i \in 1 .. n : Texts(Messages(r))[i] = Order(r)[i]
  BY <1>5, <1>7, <1>8
<1>10. Texts(Messages(r)) = Order(r)
  BY <1>5, <1>8, <1>9, SeqEqual
<1>11. SystemMessages(r) \subseteq 1 .. n
  BY <1>2 DEF SystemMessages, n
<1>. QED
  BY <1>2, <1>3, <1>5, <1>7, <1>10, <1>11 DEF n

\* The system prompt and the prompt are no messages.
LEMMA InstructionsAre ==
  ASSUME NEW r \in Requests
  PROVE  /\ Prompt \in Int /\ SystemPrompt \in Int
         /\ Prompt \notin Guidance(r) /\ SystemPrompt \notin SystemMessages(r)
         /\ r.system => SystemPrompt \in Guidance(r) /\ SystemPrompt \in Instructions(r)
         /\ SystemMessages(r) \subseteq Guidance(r)
         /\ \A i \in Instructions(r) : i \in SystemMessages(r) \/ (i = SystemPrompt /\ r.system)
         /\ Without(Order(r), Guidance(r)) = Without(Order(r), SystemMessages(r))
<1>1. Prompt \in Int /\ SystemPrompt \in Int
  BY DEF Prompt, SystemPrompt
<1>2. \A i \in 1 .. Len(r.messages) : i # Prompt /\ i # SystemPrompt
  BY DEF Prompt, SystemPrompt
<1>3. Prompt # SystemPrompt
  BY DEF Prompt, SystemPrompt
<1>4. Prompt \notin Guidance(r)
  BY <1>2, <1>3, RequestIs DEF Guidance
<1>5. \A i \in 1 .. Len(r.messages) : i \in Guidance(r) <=> i \in SystemMessages(r)
  BY <1>2 DEF Guidance
<1>6. \A i \in 1 .. Len(Order(r)) : Order(r)[i] \in Guidance(r) <=> Order(r)[i] \in SystemMessages(r)
  BY <1>5, RequestIs
<1>7. Without(Order(r), Guidance(r)) = Without(Order(r), SystemMessages(r))
  BY <1>6, RequestIs, WithoutAgrees
<1>8. SystemPrompt \notin SystemMessages(r) /\ SystemPrompt \notin r.blank
  <2>1. r.blank \subseteq 1 .. Len(r.messages)
    BY RequestIs, DeclarationsAssumption
  <2>. QED
    BY <1>2, <2>1, RequestIs
<1>. QED
  BY <1>1, <1>4, <1>7, <1>8 DEF Instructions, Guidance

\* What OnlyDisplacedAreLost asks of what a provider p is sent.
Told(p, r, sent) ==
  LET told == Texts(sent.turns)
  IN /\ Without(told, Guidance(r)) = Append(Without(Order(r), SystemMessages(r)), Prompt)
     /\ sent.beside \subseteq Instructions(r)
     /\ \A i \in Instructions(r) : i \notin ToSet(told) \cup sent.beside <=> i \in Displaced(p, r)

\* All messages as they are, and then the prompt.
LEMMA AllMessages ==
  ASSUME NEW r \in Requests
  PROVE  LET told == Append(Order(r), Prompt)
         IN /\ Without(told, Guidance(r)) = Append(Without(Order(r), SystemMessages(r)), Prompt)
            /\ SystemMessages(r) \subseteq ToSet(told) /\ SystemPrompt \notin ToSet(told)
<1>. DEFINE told == Append(Order(r), Prompt)
<1>1. Without(told, Guidance(r)) = Append(Without(Order(r), SystemMessages(r)), Prompt)
  BY RequestIs, InstructionsAre, WithoutAppend
<1>2. SystemMessages(r) \subseteq ToSet(told)
  <2>. SUFFICES ASSUME NEW i \in SystemMessages(r)
                PROVE  i \in ToSet(told)
    OBVIOUS
  <2>1. i \in 1 .. Len(Order(r)) /\ Order(r)[i] = i /\ Order(r) \in Seq(Int) /\ Prompt \in Int
    BY RequestIs, InstructionsAre
  <2>2. i \in DOMAIN told /\ told[i] = i
    BY <2>1
  <2>. QED
    BY <2>2 DEF ToSet
<1>3. SystemPrompt \notin ToSet(told)
  <2>1. Order(r) \in Seq(Int) /\ \A k \in 1 .. Len(Order(r)) : Order(r)[k] = k
    BY RequestIs
  <2>2. \A k \in DOMAIN told : told[k] # SystemPrompt
    BY <2>1 DEF Prompt, SystemPrompt
  <2>. QED
    BY <2>2 DEF ToSet
<1>. QED
  BY <1>1, <1>2, <1>3

\* The adapters whose list holds system messages: one displaces the system prompt.
LEMMA ChatTells ==
  ASSUME NEW r \in Requests, NEW p, p # "gemini", p # "anthropic"
  PROVE  Told(p, r, ChatPayload(r))
<1>. DEFINE last == <<<<"user", Prompt>>>>
            first == <<<<"system", SystemPrompt>>>>
            told == Texts(ChatPayload(r).turns)
<1>1. Messages(r) \in Turns /\ Texts(Messages(r)) = Order(r) /\ ChatPayload(r).beside = {}
  BY RequestIs DEF ChatPayload
<1>2. Displaced(p, r) = IF SystemMessages(r) = {} THEN {} ELSE {SystemPrompt}
  BY DEF Displaced
<1>3. CASE r.system /\ SystemMessages(r) = {}
  <2>1. ChatPayload(r).turns = first \o Messages(r) \o last
    BY <1>3 DEF ChatPayload
  <2>2. first \o Messages(r) \in Turns /\ Texts(first \o Messages(r)) = <<SystemPrompt>> \o Order(r)
    BY <1>1, TextsFirst
  <2>3. told = Append(<<SystemPrompt>> \o Order(r), Prompt)
    <3>. HIDE DEF first
    <3>. QED
      BY <2>1, <2>2, TextsLast
  <2>4. Order(r) \in Seq(Int) /\ SystemPrompt \in Guidance(r) /\ SystemPrompt \in Int /\ Prompt \in Int
    BY <1>3, RequestIs, InstructionsAre
  <2>5. <<SystemPrompt>> \o Order(r) \in Seq(Int)
    BY <2>4
  <2>6. Without(told, Guidance(r)) = Append(Without(<<SystemPrompt>> \o Order(r), Guidance(r)), Prompt)
    BY <2>3, <2>4, <2>5, InstructionsAre, WithoutAppend
  <2>7. Without(<<SystemPrompt>> \o Order(r), Guidance(r)) = Without(Order(r), Guidance(r))
    BY <2>4, WithoutFirst
  <2>8. 1 \in DOMAIN told /\ told[1] = SystemPrompt
    BY <2>3, <2>4
  <2>9. SystemPrompt \in ToSet(told)
    BY <2>8 DEF ToSet
  <2>10. \A i \in Instructions(r) : i = SystemPrompt
    BY <1>3, InstructionsAre
  <2>. QED
    BY <1>1, <1>2, <1>3, <2>6, <2>7, <2>9, <2>10, InstructionsAre DEF Told
<1>4. CASE ~(r.system /\ SystemMessages(r) = {})
  <2>1. ChatPayload(r).turns = <<>> \o Messages(r) \o last
    BY <1>4 DEF ChatPayload
  <2>2. <<>> \o Messages(r) = Messages(r)
    BY <1>1, ConcatEmptySeq DEF Turns
  <2>3. told = Append(Order(r), Prompt)
    BY <1>1, <2>1, <2>2, TextsLast
  <2>4. SystemMessages(r) \subseteq ToSet(told) /\ SystemPrompt \notin ToSet(told)
    BY <2>3, AllMessages
  <2>5. Without(told, Guidance(r)) = Append(Without(Order(r), SystemMessages(r)), Prompt)
    BY <2>3, AllMessages
  <2>6. ASSUME NEW i \in Instructions(r)
        PROVE  i \notin ToSet(told) \cup ChatPayload(r).beside <=> i \in Displaced(p, r)
    <3>. HIDE DEF told
    <3>1. CASE i \in SystemMessages(r)
      BY <1>2, <2>4, <3>1, InstructionsAre
    <3>2. CASE i = SystemPrompt /\ r.system
      BY <1>1, <1>2, <1>4, <2>4, <3>2
    <3>. QED
      BY <3>1, <3>2, InstructionsAre
  <2>. QED
    BY <1>1, <2>5, <2>6 DEF Told
<1>. QED
  BY <1>3, <1>4

\* Gemini is told everything.
LEMMA GeminiTells ==
  ASSUME NEW r \in Requests
  PROVE  Told("gemini", r, GeminiPayload(r))
<1>. DEFINE last == <<<<"user", Prompt>>>>
            said == [i \in DOMAIN r.messages |-> <<IF r.messages[i] \in {"user", "system"} THEN "user" ELSE "model", i>>]
            told == Texts(GeminiPayload(r).turns)
            n == Len(r.messages)
<1>1. GeminiPayload(r).turns = said \o last /\ GeminiPayload(r).beside = IF r.system THEN {SystemPrompt} ELSE {}
  BY DEF GeminiPayload
<1>2. n \in Nat /\ said = [i \in 1 .. n |-> <<IF r.messages[i] \in {"user", "system"} THEN "user" ELSE "model", i>>]
  BY RequestIs
<1>. HIDE DEF said, n
<1>3. said \in Turns /\ Len(said) = n /\ \A i \in 1 .. n : said[i][2] = i
  <2>1. \A i \in 1 .. n : <<IF r.messages[i] \in {"user", "system"} THEN "user" ELSE "model", i>> \in Roles \X Int
    BY TurnIs DEF Roles
  <2>. QED
    BY <1>2, <2>1 DEF Turns
<1>4. Texts(said) \in Seq(Int) /\ Len(Texts(said)) = n /\ \A i \in 1 .. n : Texts(said)[i] = i
  BY <1>3, TextsIs
<1>5. Order(r) \in Seq(Int) /\ Len(Order(r)) = n /\ \A i \in 1 .. n : Order(r)[i] = i
  BY RequestIs DEF n
<1>6. Texts(said) = Order(r)
  BY <1>4, <1>5, SeqEqual
<1>7. told = Append(Order(r), Prompt)
  BY <1>1, <1>3, <1>6, TextsLast
<1>8. Without(told, Guidance(r)) = Append(Without(Order(r), SystemMessages(r)), Prompt)
  BY <1>7, AllMessages
<1>9. SystemMessages(r) \subseteq ToSet(told)
  BY <1>7, AllMessages
<1>10. GeminiPayload(r).beside \subseteq Instructions(r)
  BY <1>1, InstructionsAre
<1>. HIDE DEF told
<1>11. \A i \in Instructions(r) : i \in ToSet(told) \cup GeminiPayload(r).beside
  BY <1>1, <1>9, InstructionsAre
<1>12. Displaced("gemini", r) = {}
  BY DEF Displaced
<1>. QED
  BY <1>8, <1>10, <1>11, <1>12 DEF Told, told

\* Anthropic is told one instruction, the first that there is.
LEMMA AnthropicTells ==
  ASSUME NEW r \in Requests
  PROVE  Told("anthropic", r, AnthropicPayload(r))
<1>. DEFINE said == Without(Order(r), SystemMessages(r))
            told == Texts(AnthropicPayload(r).turns)
            First == {i \in SystemMessages(r) \ r.blank : \A j \in SystemMessages(r) : i <= j}
<1>1. /\ AnthropicPayload(r).turns = Talk(r) \o <<<<"user", Prompt>>>>
      /\ AnthropicPayload(r).beside = IF r.system THEN {SystemPrompt} ELSE First
  BY DEF AnthropicPayload
<1>2. said \in Seq((1 .. Len(r.messages)) \ SystemMessages(r))
  <2>1. \A i \in 1 .. Len(Order(r)) : Order(r)[i] \in 1 .. Len(r.messages)
    BY RequestIs
  <2>. QED
    BY <2>1, RequestIs, WithoutKeeps
<1>3. said \in Seq(Int) /\ Len(said) \in Nat /\ DOMAIN said = 1 .. Len(said)
  <2>1. (1 .. Len(r.messages)) \ SystemMessages(r) \subseteq Int
    OBVIOUS
  <2>2. said \in Seq(Int)
    BY <1>2, <2>1, SeqMonotonic
  <2>. QED
    BY <2>2, LenProperties
<1>4. \A k \in 1 .. Len(said) : said[k] \in (1 .. Len(r.messages)) \ SystemMessages(r)
  BY <1>2, ElementOfSeq
<1>5. Talk(r) = [k \in 1 .. Len(said) |->
                   <<IF r.messages[said[k]] = "assistant" THEN "assistant" ELSE "user", said[k]>>]
  BY <1>3 DEF Talk
<1>. HIDE DEF said
<1>6. Talk(r) \in Turns /\ Len(Talk(r)) = Len(said) /\ \A k \in 1 .. Len(said) : Talk(r)[k][2] = said[k]
  <2>1. \A k \in 1 .. Len(said) :
          <<IF r.messages[said[k]] = "assistant" THEN "assistant" ELSE "user", said[k]>> \in Roles \X Int
    <3>1. \A k \in 1 .. Len(said) : said[k] \in Int
      BY <1>3
    <3>. QED
      BY <3>1, TurnIs DEF Roles
  <2>. QED
    BY <1>3, <1>5, <2>1 DEF Turns
<1>7. /\ Texts(Talk(r)) \in Seq(Int) /\ Len(Texts(Talk(r))) = Len(said)
      /\ \A k \in 1 .. Len(said) : Texts(Talk(r))[k] = said[k]
  BY <1>6, TextsIs
<1>8. Texts(Talk(r)) = said
  BY <1>3, <1>7, SeqEqual
<1>9. told = Append(said, Prompt)
  BY <1>1, <1>6, <1>8, TextsLast
<1>10. Without(told, Guidance(r)) = Append(Without(said, Guidance(r)), Prompt)
  BY <1>3, <1>9, InstructionsAre, WithoutAppend
<1>11. \A k \in 1 .. Len(said) : said[k] \notin Guidance(r)
  <2>1. \A i \in 1 .. Len(r.messages) : i # SystemPrompt
    BY DEF SystemPrompt
  <2>. QED
    BY <1>4, <2>1 DEF Guidance
<1>12. Without(said, Guidance(r)) = said
  BY <1>3, <1>11, WithoutNothing
<1>13. \A i \in ToSet(told) : i \notin Guidance(r)
  <2>1. DOMAIN told = 1 .. Len(said) + 1 /\ told[Len(said) + 1] = Prompt
        /\ \A k \in 1 .. Len(said) : told[k] = said[k]
    BY <1>3, <1>9
  <2>2. \A k \in 1 .. Len(said) + 1 : k \in 1 .. Len(said) \/ k = Len(said) + 1
    BY <1>3
  <2>3. \A k \in DOMAIN told : told[k] \notin Guidance(r)
    <3>. HIDE DEF told
    <3>. QED
      BY <1>11, <2>1, <2>2, InstructionsAre
  <2>. QED
    BY <2>3 DEF ToSet
<1>14. Displaced("anthropic", r) = {i \in SystemMessages(r) : r.system \/ \E j \in SystemMessages(r) : j < i}
  BY DEF Displaced
<1>15. AnthropicPayload(r).beside \subseteq Instructions(r)
  BY <1>1, InstructionsAre DEF Instructions, Guidance
<1>16. SystemMessages(r) \subseteq Int
  BY RequestIs
<1>. HIDE DEF told
<1>17. ASSUME NEW i \in Instructions(r)
       PROVE  i \notin ToSet(told) \cup AnthropicPayload(r).beside <=> i \in Displaced("anthropic", r)
  <2>1. i \notin ToSet(told)
    BY <1>13 DEF Instructions
  <2>2. i \notin r.blank
    BY DEF Instructions
  <2>3. CASE r.system
    BY <1>1, <1>14, <2>1, <2>3, InstructionsAre
  <2>4. CASE ~r.system
    <3>1. i \in SystemMessages(r)
      BY <2>4, InstructionsAre
    <3>2. i \in First <=> \A j \in SystemMessages(r) : i <= j
      BY <2>2, <3>1
    <3>3. (\A j \in SystemMessages(r) : i <= j) <=> ~ \E j \in SystemMessages(r) : j < i
      BY <1>16, <3>1
    <3>. HIDE DEF First
    <3>. QED
      BY <1>1, <1>14, <2>1, <2>4, <3>1, <3>2, <3>3
  <2>. QED
    BY <2>3, <2>4
<1>. QED
  BY <1>10, <1>12, <1>15, <1>17 DEF Told, told, said

\* Every adapter tells its provider what the request says, but for what it displaces.
LEMMA EveryAdapterTells ==
  ASSUME NEW r \in Requests, NEW p
  PROVE  Told(p, r, Payload(p, r))
<1>1. CASE p = "gemini"
  <2>1. Payload(p, r) = GeminiPayload(r)
    BY <1>1 DEF Payload
  <2>. QED
    BY <1>1, <2>1, GeminiTells
<1>2. CASE p = "anthropic"
  <2>1. Payload(p, r) = AnthropicPayload(r)
    BY <1>2 DEF Payload
  <2>. QED
    BY <1>2, <2>1, AnthropicTells
<1>3. CASE p # "gemini" /\ p # "anthropic"
  <2>1. Payload(p, r) = ChatPayload(r)
    BY <1>3 DEF Payload, OpenRouterPayload, OllamaPayload
  <2>. QED
    BY <1>3, <2>1, ChatTells
<1>. QED
  BY <1>1, <1>2, <1>3

\* ModelService.generate: whichever provider a request falls to, the conversation
\* and the prompt arrive in order, and of the instructions exactly those that the
\* provider's adapter does not leave out for another one.
THEOREM OnlyDisplacedEverLost == Spec => []OnlyDisplacedAreLost
<1>1. ASSUME IInv PROVE OnlyDisplacedAreLost
  <2>. SUFFICES ASSUME NEW s \in Callers, stage[s] = "call"
                PROVE  Told(chosen[s], request[s], Payload(chosen[s], request[s]))
    BY DEF OnlyDisplacedAreLost, Told
  <2>1. request[s] \in Requests
    BY <1>1 DEF IInv, TypeOK
  <2>. QED
    BY <2>1, EveryAdapterTells
<1>. QED
  BY Invariance, <1>1, PTL
=============================================================================
