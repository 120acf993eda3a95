------------------------ MODULE EvolutionPromotions ------------------------
(***************************************************************************)
(* The evolution pipeline's decisions: experiments and their variants,     *)
(* promotion proposals, and the three handlers that settle one (approve,   *)
(* reject, roll back).                                                     *)
(*                                                                         *)
(* Each request has a database session of its own.  A session reads a row  *)
(* once (READ COMMITTED, no row lock, no version column), decides on what  *)
(* it read, and at flush sends UPDATEs for the columns it changed; others  *)
(* see them when get_session commits.  All flushes lock rows in the same   *)
(* order (experiment, variant, promotion), so the writes of one session    *)
(* take effect together, in commit order.                                  *)
(***************************************************************************)
EXTENDS Naturals

CONSTANTS
  Experiments, Variants, Promotions,  \* ids the rows can get
  Sessions,                           \* requests being served
  People,                             \* who approves and rejects
  Nobody                              \* a NULL reference

ASSUME EvolutionAssumption == Nobody \notin Experiments \cup Variants \cup Promotions \cup People

VARIABLES
  experiment,    \* experiments.status
  variant,       \* variants.status
  promotion,     \* promotion_records.status
  approvedBy,    \* promotion_records.approved_by, the rejector's too
  experimentOf,  \* promotion_records.experiment_id
  variantOf,     \* promotion_records.variant_id
  rollbacks,     \* how many rollback_records a promotion has
  approved,      \* promotions an approval was ever committed for
  rejected,      \* promotions a rejection was ever committed for
  raced,         \* promotions two sessions were settling at the same time
  contested,     \* experiments two sessions were changing at the same time
  stage,         \* the next step of each session
  op,            \* what it does
  subject,       \* the promotion it settles
  scope,         \* the experiment it changes
  saw            \* the values it read

decision == <<promotion, approvedBy, experimentOf, variantOf, rollbacks, approved, rejected>>
session == <<stage, op, subject, scope, saw>>
vars == <<experiment, variant, decision, raced, contested, session>>

ExperimentStatus == {"ABSENT", "PLANNED", "RUNNING", "PROMOTED", "REJECTED", "ROLLED_BACK"}
VariantStatus == {"ABSENT", "CREATED", "PROMOTED", "REJECTED"}
PromotionStatus == {"ABSENT", "PROPOSED", "APPROVED", "ROLLED_BACK"}
Seen == [promotion : PromotionStatus, by : People \cup {Nobody},
         variant : VariantStatus, experiment : ExperimentStatus]
NothingSeen == [promotion |-> "ABSENT", by |-> Nobody,
                variant |-> "ABSENT", experiment |-> "ABSENT"]

Init ==
  /\ experiment = [x \in Experiments |-> "ABSENT"]
  /\ variant = [v \in Variants |-> "ABSENT"]
  /\ promotion = [p \in Promotions |-> "ABSENT"]
  /\ approvedBy = [p \in Promotions |-> Nobody]
  /\ experimentOf = [p \in Promotions |-> Nobody]
  /\ variantOf = [p \in Promotions |-> Nobody]
  /\ rollbacks = [p \in Promotions |-> 0]
  /\ approved = {} /\ rejected = {} /\ raced = {} /\ contested = {}
  /\ stage = [r \in Sessions |-> "idle"]
  /\ op = [r \in Sessions |-> "none"]
  /\ subject = [r \in Sessions |-> Nobody]
  /\ scope = [r \in Sessions |-> Nobody]
  /\ saw = [r \in Sessions |-> NothingSeen]

-----------------------------------------------------------------------------
(* Sessions *)

Open(r, o, p, x, s) ==
  /\ stage[r] = "idle"
  /\ stage' = [stage EXCEPT ![r] = CASE o = "generate" -> "commit"
                                     [] o = "rollback" -> "experiment"
                                     [] OTHER -> "variant"]
  /\ op' = [op EXCEPT ![r] = o]
  /\ subject' = [subject EXCEPT ![r] = p]
  /\ scope' = [scope EXCEPT ![r] = x]
  /\ saw' = [saw EXCEPT ![r] = s]
  /\ raced' = raced \cup {q \in {p} \ {Nobody} : \E t \in Sessions : subject[t] = q}
  /\ contested' = contested \cup {y \in {x} : \E t \in Sessions : scope[t] = y}
  /\ UNCHANGED <<experiment, variant, decision>>

Close(r) ==
  /\ stage' = [stage EXCEPT ![r] = "idle"]
  /\ op' = [op EXCEPT ![r] = "none"]
  /\ subject' = [subject EXCEPT ![r] = Nobody]
  /\ scope' = [scope EXCEPT ![r] = Nobody]
  /\ saw' = [saw EXCEPT ![r] = NothingSeen]
  /\ UNCHANGED <<raced, contested>>

\* SQLAlchemy sends a column only if it differs from what the session loaded.
Net(loaded, new, stored) == IF loaded = new THEN stored ELSE new

-----------------------------------------------------------------------------
(* Experiments, variants and proposals *)

CreateExperiment(x) ==
  /\ experiment[x] = "ABSENT"
  /\ experiment' = [experiment EXCEPT ![x] = "PLANNED"]
  /\ UNCHANGED <<variant, decision, raced, contested, session>>

\* get_experiment, then the new variants and the new status in one transaction.
LoadForGeneration(r, x) ==
  /\ experiment[x] # "ABSENT"
  /\ Open(r, "generate", Nobody, x, [NothingSeen EXCEPT !.experiment = experiment[x]])

GenerateVariants(r) ==
  /\ stage[r] = "commit" /\ op[r] = "generate"
  /\ \E new \in (SUBSET {v \in Variants : variant[v] = "ABSENT"}) \ {{}} :
       variant' = [v \in Variants |-> IF v \in new THEN "CREATED" ELSE variant[v]]
  /\ experiment' = [experiment EXCEPT ![scope[r]] = Net(saw[r].experiment, "RUNNING", @)]
  /\ Close(r)
  /\ UNCHANGED decision

\* Any variant id will do, of another experiment or of no row at all, and any
\* evaluation report.
ProposePromotion(p, x, v) ==
  /\ promotion[p] = "ABSENT" /\ experiment[x] # "ABSENT"
  /\ promotion' = [promotion EXCEPT ![p] = "PROPOSED"]
  /\ experimentOf' = [experimentOf EXCEPT ![p] = x]
  /\ variantOf' = [variantOf EXCEPT ![p] = v]
  /\ UNCHANGED <<experiment, variant, approvedBy, rollbacks, approved, rejected,
                 raced, contested, session>>

-----------------------------------------------------------------------------
(* Approve, reject, roll back *)

\* Mutants: rollback of a proposal, a second rollback, approval of anything.
MaySettleProposed(o, status) ==
  CASE o = "approve" -> status = "PROPOSED" [] o = "rollback" -> status # "ROLLED_BACK" [] OTHER -> TRUE
MaySettleTwice(o, status) ==
  CASE o = "approve" -> status = "PROPOSED" [] o = "rollback" -> status # "PROPOSED" [] OTHER -> TRUE
MaySettleAny(o, status) == o = "rollback" => status \notin {"ROLLED_BACK", "PROPOSED"}

\* The guard each engine puts on the status it loaded; reject has none.
MaySettle(o, status) ==
  CASE o = "approve"  -> status = "PROPOSED"
    [] o = "rollback" -> status \notin {"ROLLED_BACK", "PROPOSED"}
    [] o = "reject"   -> TRUE

LoadPromotion(r, o, p) ==
  /\ promotion[p] # "ABSENT"
  /\ MaySettle(o, promotion[p])
  /\ Open(r, o, p, experimentOf[p],
          [promotion |-> promotion[p], by |-> approvedBy[p],
           variant |-> "ABSENT", experiment |-> "ABSENT"])

LoadVariant(r) ==
  /\ stage[r] = "variant"
  /\ stage' = [stage EXCEPT ![r] = "experiment"]
  /\ saw' = [saw EXCEPT ![r].variant = variant[variantOf[subject[r]]]]
  /\ UNCHANGED <<experiment, variant, decision, raced, contested, op, subject, scope>>

LoadExperiment(r) ==
  /\ stage[r] = "experiment"
  /\ stage' = [stage EXCEPT ![r] = "commit"]
  /\ saw' = [saw EXCEPT ![r].experiment = experiment[scope[r]]]
  /\ UNCHANGED <<experiment, variant, decision, raced, contested, op, subject, scope>>

\* Mutants: a rejected proposal gets a status of its own; a rollback leaves the
\* experiment as a rejection would.
SettledRejected(o) == IF o = "approve" THEN "APPROVED" ELSE "REJECTED"
OutcomeOfRejection(o) == IF o = "approve" THEN "PROMOTED" ELSE "REJECTED"

\* What the three handlers leave in the promotion, the variant, the experiment.
Settled(o)  == IF o = "approve" THEN "APPROVED" ELSE "ROLLED_BACK"
Verdict(o)  == IF o = "approve" THEN "PROMOTED" ELSE "REJECTED"
Outcome(o)  == IF o = "rollback" THEN "ROLLED_BACK" ELSE Verdict(o)

\* Approve and reject: the flush, then get_session's commit.  A variant that
\* was not there is passed over.
Decide(r, who) ==
  LET p == subject[r]  o == op[r] IN
  /\ stage[r] = "commit" /\ o \in {"approve", "reject"}
  /\ promotion' = [promotion EXCEPT ![p] = Net(saw[r].promotion, Settled(o), @)]
  /\ approvedBy' = [approvedBy EXCEPT ![p] = Net(saw[r].by, who, @)]
  /\ variant' = [variant EXCEPT ![variantOf[p]] =
                   IF saw[r].variant = "ABSENT" THEN @ ELSE Net(saw[r].variant, Verdict(o), @)]
  /\ experiment' = [experiment EXCEPT ![scope[r]] = Net(saw[r].experiment, Outcome(o), @)]
  /\ approved' = IF o = "approve" THEN approved \cup {p} ELSE approved
  /\ rejected' = IF o = "reject" THEN rejected \cup {p} ELSE rejected
  /\ Close(r)
  /\ UNCHANGED <<experimentOf, variantOf, rollbacks>>

\* Mutant: the experiment is not told of the rollback.
RollbackPromotionOnly(r) ==
  LET p == subject[r] IN
  /\ stage[r] = "commit" /\ op[r] = "rollback"
  /\ promotion' = [promotion EXCEPT ![p] = Net(saw[r].promotion, "ROLLED_BACK", @)]
  /\ rollbacks' = [rollbacks EXCEPT ![p] = @ + 1]
  /\ Close(r)
  /\ UNCHANGED <<experiment, variant, approvedBy, experimentOf, variantOf, approved, rejected>>

\* Roll back: a new RollbackRecord; the variant keeps its status.
Rollback(r) ==
  LET p == subject[r] IN
  /\ stage[r] = "commit" /\ op[r] = "rollback"
  /\ promotion' = [promotion EXCEPT ![p] = Net(saw[r].promotion, Settled("rollback"), @)]
  /\ experiment' = [experiment EXCEPT ![scope[r]] = Net(saw[r].experiment, Outcome("rollback"), @)]
  /\ rollbacks' = [rollbacks EXCEPT ![p] = @ + 1]
  /\ Close(r)
  /\ UNCHANGED <<variant, approvedBy, experimentOf, variantOf, approved, rejected>>

\* A call raises or the process dies: get_session rolls everything back.
Abort(r) ==
  /\ stage[r] # "idle"
  /\ Close(r)
  /\ UNCHANGED <<experiment, variant, decision>>

Next ==
  \/ \E x \in Experiments : CreateExperiment(x)
  \/ \E r \in Sessions, x \in Experiments : LoadForGeneration(r, x)
  \/ \E p \in Promotions, x \in Experiments, v \in Variants : ProposePromotion(p, x, v)
  \/ \E r \in Sessions, p \in Promotions, o \in {"approve", "reject", "rollback"} :
       LoadPromotion(r, o, p)
  \/ \E r \in Sessions : \/ GenerateVariants(r) \/ LoadVariant(r) \/ LoadExperiment(r)
                         \/ Rollback(r) \/ Abort(r)
  \/ \E r \in Sessions, who \in People : Decide(r, who)

Spec == Init /\ [][Next]_vars

-----------------------------------------------------------------------------
(* Properties *)

\* Every variable has its type.
TypeOK ==
  /\ experiment \in [Experiments -> ExperimentStatus]
  /\ variant \in [Variants -> VariantStatus]
  /\ promotion \in [Promotions -> PromotionStatus]
  /\ approvedBy \in [Promotions -> People \cup {Nobody}]
  /\ experimentOf \in [Promotions -> Experiments \cup {Nobody}]
  /\ variantOf \in [Promotions -> Variants \cup {Nobody}]
  /\ rollbacks \in [Promotions -> Nat]
  /\ approved \subseteq Promotions /\ rejected \subseteq Promotions
  /\ raced \subseteq Promotions /\ contested \subseteq Experiments
  /\ stage \in [Sessions -> {"idle", "variant", "experiment", "commit"}]
  /\ op \in [Sessions -> {"none", "generate", "approve", "reject", "rollback"}]
  /\ subject \in [Sessions -> Promotions \cup {Nobody}]
  /\ scope \in [Sessions -> Experiments \cup {Nobody}]
  /\ saw \in [Sessions -> Seen]

\* "ALL promotions require human approval" (promotion.py): under every
\* interleaving a promotion that left PROPOSED carries the person who decided.
HumanDecided ==
  \A p \in Promotions : promotion[p] \in {"APPROVED", "ROLLED_BACK"} => approvedBy[p] # Nobody

\* The verdicts of the experiment and of the variant are never made up: each
\* goes back to a committed decision about a promotion of that very row.
VerdictHasDecision ==
  /\ \A x \in Experiments :
       LET of == {p \in Promotions : experimentOf[p] = x} IN
       /\ experiment[x] = "PROMOTED" => of \cap approved # {}
       /\ experiment[x] = "REJECTED" => of \cap rejected # {}
       /\ experiment[x] = "ROLLED_BACK" => \E p \in of : rollbacks[p] > 0
  /\ \A v \in Variants :
       LET of == {p \in Promotions : variantOf[p] = v} IN
       /\ variant[v] = "PROMOTED" => of \cap approved # {}
       /\ variant[v] = "REJECTED" => of \cap rejected # {}

\* An experiment that no two sessions were changing at once is PROMOTED only
\* while one of its promotions stands approved.
PromotedStands ==
  \A x \in Experiments \ contested : experiment[x] = "PROMOTED" =>
    \E p \in Promotions : experimentOf[p] = x /\ promotion[p] = "APPROVED"

\* A promotion nobody raced for is rolled back at most once, after it was
\* approved, and stays rolled back.
RolledBackOnce ==
  \A p \in Promotions \ raced :
    /\ rollbacks[p] <= 1
    /\ rollbacks[p] = 1 => promotion[p] = "ROLLED_BACK" /\ p \in approved

\* The pipeline is a PromotionLedger: although each decision is spread over
\* several reads and a commit, and other sessions commit between them, it takes
\* effect in one step, on what is stored then; but for promotions that two
\* sessions were settling, and experiments that two were changing, at once.
Promise == INSTANCE PromotionLedger WITH
  status <- promotion, signer <- approvedBy, about <- experimentOf, undone <- rollbacks, outcome <- experiment
LedgerKept == Promise!Ledger

\* approve_promotion's error ("... is in state ROLLED_BACK, cannot approve")
\* taken at its word: what was rejected or rolled back is never approved again.
SettledStaysSettled ==
  [][\A p \in Promotions : promotion[p] = "ROLLED_BACK" => promotion'[p] = "ROLLED_BACK"]_vars
=============================================================================
