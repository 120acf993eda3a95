--------------------------- MODULE PromotionLedger ---------------------------
(***************************************************************************)
(* What the evolution pipeline promises of promotions and experiments: each *)
(* decision takes effect in one step, on what it finds.  A proposal is      *)
(* approved once; a rejection closes a promotion in whatever state; only an *)
(* approved one is rolled back; and with its promotion the experiment       *)
(* changes to the verdict.                                                 *)
(*                                                                         *)
(* That is for promotions which no two requests were settling at once, and  *)
(* for experiments which no two were changing at once.                     *)
(***************************************************************************)
EXTENDS Naturals

CONSTANTS Experiments, Promotions, People, Nobody

VARIABLES
  status,     \* of each promotion
  signer,     \* who decided on it
  about,      \* its experiment
  undone,     \* how often it was rolled back
  outcome,    \* of each experiment
  raced,      \* promotions of which nothing is promised any more
  contested   \* experiments of which nothing is promised any more

ledger == <<status, signer, about, undone, outcome, raced, contested>>

Blank ==
  /\ status = [p \in Promotions |-> "ABSENT"] /\ signer = [p \in Promotions |-> Nobody]
  /\ about = [p \in Promotions |-> Nobody] /\ undone = [p \in Promotions |-> 0]
  /\ outcome = [x \in Experiments |-> "ABSENT"]
  /\ raced = {} /\ contested = {}

Entry(p) == <<status[p], signer[p], about[p], undone[p]>>

\* Of the entries that are promised only these may change.
Keep(promotions, experiments) ==
  /\ raced \subseteq raced' /\ contested \subseteq contested'
  /\ \A p \in Promotions \ (raced' \cup promotions) : Entry(p)' = Entry(p)
  /\ \A x \in Experiments \ (contested' \cup experiments) : outcome'[x] = outcome[x]

\* An experiment is planned, or its variants are made, whatever became of it.
Advance(x, before, after) ==
  /\ x \notin contested' => outcome[x] \in before /\ outcome'[x] = after
  /\ Keep({}, {x})

Create(x) == Advance(x, {"ABSENT"}, "PLANNED")
Generate(x) == Advance(x, {"PLANNED", "RUNNING", "PROMOTED", "REJECTED", "ROLLED_BACK"}, "RUNNING")

Propose(p, x) ==
  /\ p \notin raced' => Entry(p) = <<"ABSENT", Nobody, Nobody, 0>> /\ Entry(p)' = <<"PROPOSED", Nobody, x, 0>>
  /\ x \notin contested' => outcome[x] # "ABSENT"
  /\ Keep({p}, {})

\* A decision on p: the statuses it may find, those it leaves to p and to p's
\* experiment, who signs, and how often p has been rolled back after it.
Settle(p, before, after, verdict, who, times) ==
  /\ p \notin raced' => /\ status[p] \in before
                        /\ Entry(p)' = <<after, who, about[p], times>>
  /\ about[p] \notin contested' => outcome'[about[p]] = verdict
  /\ Keep({p}, {about[p]})

Approve(p, who) == Settle(p, {"PROPOSED"}, "APPROVED", "PROMOTED", who, undone[p])
Reject(p, who) == Settle(p, {"PROPOSED", "APPROVED", "ROLLED_BACK"}, "ROLLED_BACK", "REJECTED", who, undone[p])
RollBack(p) == Settle(p, {"APPROVED"}, "ROLLED_BACK", "ROLLED_BACK", signer[p], 1)

\* Requests meet: more is contested, and what is changes as it may.
Meet == Keep({}, {})

Decision ==
  \/ \E x \in Experiments : Create(x) \/ Generate(x) \/ \E p \in Promotions : Propose(p, x)
  \/ \E p \in Promotions : RollBack(p) \/ \E who \in People : Approve(p, who) \/ Reject(p, who)
  \/ Meet

Ledger == Blank /\ [][Decision]_ledger
=============================================================================
