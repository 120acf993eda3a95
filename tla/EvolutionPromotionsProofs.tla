---------------------- MODULE EvolutionPromotionsProofs ----------------------
(***************************************************************************)
(* What holds of EvolutionPromotions for any number of experiments,        *)
(* variants, promotions, sessions and people, from one inductive           *)
(* invariant, IInv.                                                        *)
(***************************************************************************)
EXTENDS EvolutionPromotions, TLAPS

Settling == {"approve", "reject", "rollback"}

\* What a session is about, at each of its stages.
Shape ==
  \A r \in Sessions :
    /\ stage[r] = "idle" <=> op[r] = "none"
    /\ op[r] = "none" => subject[r] = Nobody /\ scope[r] = Nobody
    /\ op[r] = "generate" => stage[r] = "commit" /\ subject[r] = Nobody /\ scope[r] \in Experiments
    /\ op[r] \in Settling =>
         /\ subject[r] \in Promotions
         /\ promotion[subject[r]] # "ABSENT"
         /\ scope[r] = experimentOf[subject[r]]
    /\ scope[r] # Nobody => scope[r] \in Experiments /\ experiment[scope[r]] # "ABSENT"
    /\ stage[r] = "variant" => op[r] \in Settling
    /\ stage[r] = "experiment" => op[r] \in Settling

\* A promotion row has its references; a missing one has no history.
Rows ==
  \A p \in Promotions :
    /\ promotion[p] = "ABSENT" =>
         /\ approvedBy[p] = Nobody /\ rollbacks[p] = 0
         /\ p \notin approved \cup rejected
         /\ experimentOf[p] = Nobody /\ variantOf[p] = Nobody
    /\ promotion[p] # "ABSENT" =>
         /\ experimentOf[p] \in Experiments /\ experiment[experimentOf[p]] # "ABSENT"
         /\ variantOf[p] \in Variants
    /\ promotion[p] = "APPROVED" => p \in approved

\* A decision is only ever signed over, never unsigned.
Signed ==
  \A r \in Sessions :
    /\ saw[r].by # Nobody => op[r] \in Settling /\ approvedBy[subject[r]] # Nobody
    /\ op[r] = "rollback" => approvedBy[subject[r]] # Nobody

\* Two sessions on one promotion, or on one experiment, have been counted.
Solo ==
  /\ \A r, q \in Sessions : subject[r] = subject[q] /\ subject[r] # Nobody =>
       r = q \/ subject[r] \in raced
  /\ \A r, q \in Sessions : scope[r] = scope[q] /\ scope[r] # Nobody =>
       r = q \/ scope[r] \in contested
  /\ \A p \in raced : experimentOf[p] \in contested

\* What a lone session read is what is stored, and its guard held of it.
Current ==
  \A r \in Sessions :
    /\ op[r] \in Settling /\ subject[r] \notin raced =>
         saw[r].promotion = promotion[subject[r]] /\ saw[r].by = approvedBy[subject[r]]
    /\ scope[r] # Nobody /\ scope[r] \notin contested /\ stage[r] = "commit" =>
         saw[r].experiment = experiment[scope[r]]
    /\ op[r] = "approve" => saw[r].promotion = "PROPOSED"
    /\ op[r] = "rollback" => saw[r].promotion = "APPROVED"

\* RolledBackOnce with the statuses a rollback has not happened in.
Settlement ==
  \A p \in Promotions \ raced :
    /\ promotion[p] # "ROLLED_BACK" => rollbacks[p] = 0
    /\ rollbacks[p] <= 1
    /\ rollbacks[p] = 1 => p \in approved

IInv == /\ TypeOK /\ Shape /\ Rows /\ Signed /\ Solo /\ Current
        /\ HumanDecided /\ VerdictHasDecision /\ Settlement /\ PromotedStands

-----------------------------------------------------------------------------
USE EvolutionAssumption

\* The empty database satisfies IInv.
LEMMA InitIInv == Init => IInv
BY DEF Init, IInv, TypeOK, Shape, Rows, Signed, Solo, Current, HumanDecided,
  VerdictHasDecision, Settlement, PromotedStands, Settling, Seen, NothingSeen, ExperimentStatus, VariantStatus, PromotionStatus

\* A new experiment has no promotion and no session yet.
LEMMA CreateExperimentStep ==
  ASSUME IInv, NEW x \in Experiments, CreateExperiment(x)
  PROVE  IInv'
<1> USE DEF IInv, TypeOK, CreateExperiment, decision, session
<1>1. TypeOK'
  BY DEF ExperimentStatus
<1>2. Current'
  BY DEF Current, Shape
<1>3. HumanDecided'
  BY DEF HumanDecided, Shape
<1>4. /\ Shape' /\ Rows' /\ Signed' /\ Solo'
      /\ VerdictHasDecision' /\ Settlement' /\ PromotedStands'
  BY DEF Shape, Rows, Signed, Solo, VerdictHasDecision, Settlement, PromotedStands
<1>. QED
  BY <1>1, <1>2, <1>3, <1>4

\* A new proposal has no history, and no session is about it.
LEMMA ProposeStep ==
  ASSUME IInv, NEW p \in Promotions, NEW x \in Experiments, NEW v \in Variants, ProposePromotion(p, x, v)
  PROVE  IInv'
<1> USE DEF IInv, TypeOK, ProposePromotion, decision, session
<1>1. TypeOK'
  BY DEF PromotionStatus
<1>2. Solo'
  BY DEF Solo, Rows
<1>3. Current'
  BY DEF Current, Shape, Settling
<1>4. HumanDecided'
  BY DEF HumanDecided, Shape
<1>5. VerdictHasDecision'
  BY DEF VerdictHasDecision, Rows
<1>6. Settlement'
  BY DEF Settlement, Shape
<1>7. Shape' /\ Rows' /\ Signed' /\ PromotedStands'
  BY DEF Shape, Rows, Signed, PromotedStands
<1>. QED
  BY <1>1, <1>2, <1>3, <1>4, <1>5, <1>6, <1>7

\* Opening a session counts the one it meets on the experiment.
LEMMA LoadForGenerationStep ==
  ASSUME IInv, NEW r \in Sessions, NEW x \in Experiments, LoadForGeneration(r, x)
  PROVE  IInv'
<1> USE DEF IInv, TypeOK, LoadForGeneration, Open, NothingSeen, decision, session
<1>1. TypeOK'
  BY DEF Seen, VariantStatus, PromotionStatus
<1>2. Shape'
  BY DEF Shape, Settling, PromotionStatus
<1>3. Rows'
  BY DEF Rows, Settling
<1>4. Current'
  BY DEF Current, Settling
<1>5. HumanDecided'
  BY DEF HumanDecided, Settling
<1>6. /\ Signed' /\ Solo' /\ VerdictHasDecision' /\ Settlement'
      /\ PromotedStands'
  BY DEF Signed, Solo, VerdictHasDecision, Settlement, PromotedStands
<1>. QED
  BY <1>1, <1>2, <1>3, <1>4, <1>5, <1>6

\* Opening a session counts the one it meets; the guard fixes what it read.
LEMMA LoadPromotionStep ==
  ASSUME IInv, NEW r \in Sessions, NEW p \in Promotions, NEW o \in {"approve", "reject", "rollback"}, LoadPromotion(r, o, p)
  PROVE  IInv'
<1> USE DEF IInv, TypeOK, LoadPromotion, Open, MaySettle, NothingSeen, decision, session
<1>a. /\ o = "approve" => promotion[p] = "PROPOSED"
      /\ o = "rollback" => promotion[p] = "APPROVED"
  BY DEF PromotionStatus
<1>1. TypeOK'
  BY DEF Shape, Rows, Seen, ExperimentStatus, VariantStatus
<1>2. Shape'
  BY DEF Shape, Rows, Settling, PromotionStatus
<1>3. Rows'
  BY DEF Rows, Shape, Settling
<1>4. Signed'
  BY <1>a DEF Signed, Settling, HumanDecided
<1>5. Solo'
  BY DEF Solo, Shape, Settling, Rows
<1>6. Current'
  BY <1>a DEF Current, Solo, Shape
<1>7. HumanDecided' /\ VerdictHasDecision' /\ Settlement' /\ PromotedStands'
  BY DEF HumanDecided, VerdictHasDecision, Settlement, PromotedStands
<1>. QED
  BY <1>1, <1>2, <1>3, <1>4, <1>5, <1>6, <1>7

\* A read changes no row.
LEMMA LoadVariantStep == ASSUME IInv, NEW r \in Sessions, LoadVariant(r) PROVE IInv'
<1> USE DEF IInv, TypeOK, LoadVariant, decision, session
<1>1. TypeOK'
  <2>1. variant[variantOf[subject[r]]] \in VariantStatus
    BY DEF Shape, Rows
  <2>2. saw' \in [Sessions -> Seen]
    BY <2>1 DEF Seen
  <2>. QED
    BY <2>2
<1>2. /\ Shape' /\ Rows' /\ Signed' /\ Solo'
      /\ Current' /\ HumanDecided' /\ VerdictHasDecision' /\ Settlement'
      /\ PromotedStands'
  BY DEF Shape, Rows, Signed, Solo, Current, HumanDecided, VerdictHasDecision, Settlement,
    PromotedStands
<1>. QED
  BY <1>1, <1>2

\* A read changes no row, and what it read is current.
LEMMA LoadExperimentStep ==
  ASSUME IInv, NEW r \in Sessions, LoadExperiment(r)
  PROVE  IInv'
<1> USE DEF IInv, TypeOK, LoadExperiment, decision, session
<1>1. TypeOK'
  <2>1. experiment[scope[r]] \in ExperimentStatus
    BY DEF Shape, Rows
  <2>2. saw' \in [Sessions -> Seen]
    BY <2>1, ZenonT(60) DEF Seen
  <2>. QED
    BY <2>2
<1>2. /\ Shape' /\ Rows' /\ Signed' /\ Solo'
      /\ Current' /\ HumanDecided' /\ VerdictHasDecision' /\ Settlement'
      /\ PromotedStands'
  BY DEF Shape, Rows, Signed, Solo, Current, HumanDecided, VerdictHasDecision, Settlement,
    PromotedStands
<1>. QED
  BY <1>1, <1>2

\* New variants carry no verdict, and RUNNING is none either.
LEMMA GenerateVariantsStep ==
  ASSUME IInv, NEW r \in Sessions, GenerateVariants(r)
  PROVE  IInv'
<1> USE DEF IInv, TypeOK, GenerateVariants, Close, NothingSeen, Net, decision, session
<1>1. TypeOK'
  BY DEF Shape, Seen, ExperimentStatus, VariantStatus, PromotionStatus
<1>2. Shape'
  BY DEF Shape, Settling, PromotionStatus
<1>3. Rows'
  BY DEF Rows, Settling
<1>4. Current'
  BY DEF Current, Solo, Settling
<1>5. HumanDecided'
  BY DEF HumanDecided, Signed, Settling
<1>6. /\ Signed' /\ Solo' /\ VerdictHasDecision' /\ Settlement'
      /\ PromotedStands'
  BY DEF Signed, Solo, VerdictHasDecision, Settlement, PromotedStands
<1>. QED
  BY <1>1, <1>2, <1>3, <1>4, <1>5, <1>6

\* Approval and rejection sign the promotion and leave matching verdicts.
LEMMA DecideStep ==
  ASSUME IInv, NEW r \in Sessions, NEW who \in People, Decide(r, who)
  PROVE  IInv'
<1> USE DEF IInv, TypeOK, Decide, Close, NothingSeen, Net, Settled, Verdict, Outcome,
  decision, session
<1>1. TypeOK'
  BY DEF Shape, Rows, Settling, Seen, ExperimentStatus, VariantStatus, PromotionStatus
<1>2. Shape'
  BY DEF Shape, Rows, Settling, PromotionStatus
<1>3. Rows'
  BY DEF Rows, Shape, Settling
<1>4. Signed'
  BY DEF Signed, Shape, Settling
<1>5. Solo'
  BY DEF Solo
<1>6. Current'
  BY DEF Current, Solo, Settling
<1>7. HumanDecided'
  BY DEF HumanDecided, Signed, Settling
<1>8. VerdictHasDecision'
  BY DEF VerdictHasDecision, Shape, Settling
<1>9. Settlement'
  BY DEF Settlement, Current, Solo, Settling
<1>10. PromotedStands'
  BY DEF PromotedStands, Current, Shape, Settling
<1>. QED
  BY <1>1, <1>2, <1>3, <1>4, <1>5, <1>6, <1>7, <1>8, <1>9, <1>10

\* A rollback without a race finds its promotion approved, and its first.
LEMMA RollbackStep == ASSUME IInv, NEW r \in Sessions, Rollback(r) PROVE IInv'
<1> USE DEF IInv, TypeOK, Rollback, Close, NothingSeen, Net, Settled, Outcome,
  decision, session
<1>1. TypeOK'
  BY DEF Shape, Rows, Settling, Seen, ExperimentStatus, VariantStatus, PromotionStatus
<1>2. Shape'
  BY DEF Shape, Rows, Settling, PromotionStatus
<1>3. Rows'
  BY DEF Rows, Shape, Settling
<1>4. Signed'
  BY DEF Signed, Shape, Settling
<1>5. Solo'
  BY DEF Solo
<1>6. Current'
  BY DEF Current, Solo, Settling
<1>7. HumanDecided'
  BY DEF HumanDecided, Signed, Settling
<1>8. VerdictHasDecision'
  BY DEF VerdictHasDecision, Shape, Settling
<1>9. Settlement'
  BY DEF Settlement, Current, Solo, Settling, Rows
<1>10. PromotedStands'
  BY DEF PromotedStands, Current, Shape, Settling, Rows
<1>. QED
  BY <1>1, <1>2, <1>3, <1>4, <1>5, <1>6, <1>7, <1>8, <1>9, <1>10

\* An abandoned session leaves the rows alone.
LEMMA AbortStep == ASSUME IInv, NEW r \in Sessions, Abort(r) PROVE IInv'
<1> USE DEF IInv, TypeOK, Abort, Close, NothingSeen, decision, session
<1>1. TypeOK'
  BY DEF Seen, ExperimentStatus, VariantStatus, PromotionStatus
<1>2. Shape'
  BY DEF Shape, Settling, PromotionStatus
<1>3. Rows'
  BY DEF Rows, Settling
<1>4. Current'
  BY DEF Current, Settling
<1>5. HumanDecided'
  BY DEF HumanDecided, Settling
<1>6. /\ Signed' /\ Solo' /\ VerdictHasDecision' /\ Settlement'
      /\ PromotedStands'
  BY DEF Signed, Solo, VerdictHasDecision, Settlement, PromotedStands
<1>. QED
  BY <1>1, <1>2, <1>3, <1>4, <1>5, <1>6

\* Nothing changes.
LEMMA StutterStep == ASSUME IInv, UNCHANGED vars PROVE IInv'
BY DEF vars, decision, session, IInv, TypeOK, Shape, Rows, Signed, Solo, Current,
  HumanDecided, VerdictHasDecision, Settlement, PromotedStands

\* Every step preserves IInv.
LEMMA NextStep == IInv /\ [Next]_vars => IInv'
BY CreateExperimentStep, ProposeStep, LoadForGenerationStep, LoadPromotionStep, LoadVariantStep,
  LoadExperimentStep, GenerateVariantsStep, DecideStep, RollbackStep, AbortStep,
    StutterStep DEF Next

\* IInv holds in every reachable state, whatever the constants.
THEOREM Invariance == Spec => []IInv
BY InitIInv, NextStep, PTL DEF Spec

\* The type invariant.
THEOREM TypeCorrect == Spec => []TypeOK
BY Invariance, PTL DEF IInv

\* No promotion leaves PROPOSED without a person's name on it.
THEOREM AlwaysHumanDecided == Spec => []HumanDecided
BY Invariance, PTL DEF IInv

\* Every verdict goes back to a committed decision.
THEOREM VerdictsHaveDecisions == Spec => []VerdictHasDecision
BY Invariance, PTL DEF IInv

\* An uncontested experiment is PROMOTED only while a promotion of it stands.
THEOREM PromotedAlwaysStands == Spec => []PromotedStands
BY Invariance, PTL DEF IInv

\* Without a race a promotion is rolled back once, for good.
THEOREM AlwaysRolledBackOnce == Spec => []RolledBackOnce
<1>1. IInv => RolledBackOnce
  BY DEF IInv, Settlement, RolledBackOnce
<1>. QED
  BY <1>1, Invariance, PTL

-----------------------------------------------------------------------------
(* EvolutionPromotions implements PromotionLedger *)

\* The ledger's Keep in the pipeline's own variables.
Kept(promotions, experiments) ==
  /\ raced \subseteq raced' /\ contested \subseteq contested'
  /\ \A p \in Promotions \ (raced' \cup promotions) :
       /\ promotion'[p] = promotion[p] /\ approvedBy'[p] = approvedBy[p]
       /\ experimentOf'[p] = experimentOf[p] /\ rollbacks'[p] = rollbacks[p]
  /\ \A x \in Experiments \ (contested' \cup experiments) : experiment'[x] = experiment[x]

LEMMA KeepMeans ==
  ASSUME NEW P, NEW X, Kept(P, X)
  PROVE  Promise!Keep(P, X)
BY DEF Kept, Promise!Keep, Promise!Entry

\* What loads, or gives up, decides nothing.
LEMMA MeetMeans ==
  ASSUME UNCHANGED <<experiment, decision>>, raced \subseteq raced', contested \subseteq contested'
  PROVE  Promise!Meet
<1>1. Kept({}, {})
  BY DEF Kept, decision
<1>. QED
  BY <1>1, KeepMeans DEF Promise!Meet

LEMMA InitRefines == Init => Promise!Blank
BY DEF Init, Promise!Blank

LEMMA CreateExperimentRefines ==
  ASSUME IInv, NEW x \in Experiments, CreateExperiment(x)
  PROVE  Promise!Create(x)
<1> USE DEF CreateExperiment, decision
<1>1. Kept({}, {x})
  BY DEF Kept, IInv, TypeOK
<1>2. experiment[x] = "ABSENT" /\ experiment'[x] = "PLANNED"
  BY DEF IInv, TypeOK
<1>. QED
  BY <1>1, <1>2, KeepMeans DEF Promise!Create, Promise!Advance

LEMMA ProposeRefines ==
  ASSUME IInv, NEW p \in Promotions, NEW x \in Experiments, NEW v \in Variants, ProposePromotion(p, x, v)
  PROVE  Promise!Propose(p, x)
<1> USE DEF ProposePromotion
<1>1. Kept({p}, {})
  BY DEF Kept, IInv, TypeOK
<1>2. Promise!Entry(p) = <<"ABSENT", Nobody, Nobody, 0>>
  BY DEF Promise!Entry, IInv, Rows
<1>3. Promise!Entry(p)' = <<"PROPOSED", Nobody, x, 0>>
  BY <1>2 DEF Promise!Entry, IInv, TypeOK
<1>. QED
  BY <1>1, <1>2, <1>3, KeepMeans DEF Promise!Propose

\* What was there when the status was read is there still.
LEMMA GenerateRefines ==
  ASSUME IInv, NEW r \in Sessions, NEW x \in Experiments, scope[r] = x, GenerateVariants(r)
  PROVE  Promise!Generate(x)
<1> USE DEF GenerateVariants, Close, decision
<1>1. experiment[x] # "ABSENT" /\ experiment[x] \in ExperimentStatus
  BY DEF IInv, TypeOK, Shape
<1>2. Kept({}, {x})
  BY DEF Kept, IInv, TypeOK
<1>3. x \notin contested => experiment'[x] = "RUNNING"
  BY DEF Net, IInv, TypeOK, Current
<1>. QED
  BY <1>1, <1>2, <1>3, KeepMeans DEF Promise!Generate, Promise!Advance, ExperimentStatus

\* A lone approval or rejection signs what it read, and the experiment follows.
LEMMA DecideRefines ==
  ASSUME IInv, NEW r \in Sessions, NEW who \in People, NEW p \in Promotions, subject[r] = p, Decide(r, who)
  PROVE  Promise!Approve(p, who) \/ Promise!Reject(p, who)
<1> USE DEF Decide, Close
<1>1. /\ promotion[p] \in PromotionStatus \ {"ABSENT"}
      /\ scope[r] = experimentOf[p] /\ scope[r] \in Experiments
  BY DEF IInv, TypeOK, Shape, Rows, Settling
<1>2. Kept({p}, {experimentOf[p]})
  BY <1>1 DEF Kept, IInv, TypeOK
<1>3. Promise!Keep({p}, {experimentOf[p]})
  BY <1>2, KeepMeans
<1>4. p \notin raced' => saw[r].promotion = promotion[p] /\ promotion'[p] = Settled(op[r]) /\ approvedBy'[p] = who
  BY DEF Net, IInv, TypeOK, Current, Settling
<1>5. experimentOf'[p] = experimentOf[p] /\ rollbacks'[p] = rollbacks[p]
  OBVIOUS
<1>6. experimentOf[p] \notin contested' => experiment'[experimentOf[p]] = Outcome(op[r])
  BY <1>1 DEF Net, IInv, TypeOK, Current
<1>7. CASE op[r] = "approve"
  <2>1. saw[r].promotion = "PROPOSED"
    BY <1>7 DEF IInv, Current
  <2>2. Settled(op[r]) = "APPROVED" /\ Outcome(op[r]) = "PROMOTED"
    BY <1>7 DEF Settled, Outcome, Verdict
  <2>3. Promise!Approve(p, who)
    BY <1>3, <1>4, <1>5, <1>6, <2>1, <2>2 DEF Promise!Approve, Promise!Settle, Promise!Entry
  <2>. QED
    BY <2>3
<1>8. CASE op[r] = "reject"
  <2>1. Settled(op[r]) = "ROLLED_BACK" /\ Outcome(op[r]) = "REJECTED"
    BY <1>8 DEF Settled, Outcome, Verdict
  <2>2. Promise!Reject(p, who)
    BY <1>1, <1>3, <1>4, <1>5, <1>6, <2>1 DEF Promise!Reject, Promise!Settle, Promise!Entry, PromotionStatus
  <2>. QED
    BY <2>2
<1>. QED
  BY <1>7, <1>8

\* A lone rollback finds the promotion approved and never rolled back before.
LEMMA RollbackRefines ==
  ASSUME IInv, NEW r \in Sessions, NEW p \in Promotions, subject[r] = p, Rollback(r)
  PROVE  Promise!RollBack(p)
<1> USE DEF Rollback, Close
<1>1. scope[r] = experimentOf[p] /\ scope[r] \in Experiments
  BY DEF IInv, TypeOK, Shape, Rows, Settling
<1>2. Kept({p}, {experimentOf[p]})
  BY <1>1 DEF Kept, IInv, TypeOK
<1>3. Promise!Keep({p}, {experimentOf[p]})
  BY <1>2, KeepMeans
<1>4. p \notin raced' =>
        /\ promotion[p] = "APPROVED" /\ promotion'[p] = "ROLLED_BACK" /\ rollbacks'[p] = 1
  BY DEF Net, Settled, IInv, TypeOK, Current, Settlement, Settling
<1>5. experimentOf'[p] = experimentOf[p] /\ approvedBy'[p] = approvedBy[p]
  OBVIOUS
<1>6. experimentOf[p] \notin contested' => experiment'[experimentOf[p]] = "ROLLED_BACK"
  BY <1>1 DEF Net, Outcome, IInv, TypeOK, Current
<1>. QED
  BY <1>3, <1>4, <1>5, <1>6 DEF Promise!RollBack, Promise!Settle, Promise!Entry

\* Every step of the pipeline is a decision of the ledger's or changes nothing there.
LEMMA StepRefines == IInv /\ [Next]_vars => [Promise!Decision]_(Promise!ledger)
<1> SUFFICES ASSUME IInv, [Next]_vars PROVE [Promise!Decision]_(Promise!ledger)
  OBVIOUS
<1>1. CASE UNCHANGED vars
  BY <1>1 DEF vars, decision, Promise!ledger
<1>2. ASSUME NEW x \in Experiments, CreateExperiment(x)
      PROVE  Promise!Decision
  BY <1>2, CreateExperimentRefines DEF Promise!Decision
<1>3. ASSUME NEW p \in Promotions, NEW x \in Experiments, NEW v \in Variants, ProposePromotion(p, x, v)
      PROVE  Promise!Decision
  BY <1>3, ProposeRefines DEF Promise!Decision
<1>4. ASSUME NEW r \in Sessions,
             \/ \E x \in Experiments : LoadForGeneration(r, x)
             \/ \E p \in Promotions, o \in {"approve", "reject", "rollback"} : LoadPromotion(r, o, p)
             \/ LoadVariant(r) \/ LoadExperiment(r) \/ Abort(r)
      PROVE  Promise!Decision
  <2>1. UNCHANGED <<experiment, decision>> /\ raced \subseteq raced' /\ contested \subseteq contested'
    BY <1>4 DEF LoadForGeneration, LoadPromotion, LoadVariant, LoadExperiment, Abort, Open, Close
  <2>. QED
    BY <2>1, MeetMeans DEF Promise!Decision
<1>5. ASSUME NEW r \in Sessions, GenerateVariants(r)
      PROVE  Promise!Decision
  <2>1. PICK x \in Experiments : scope[r] = x
    BY <1>5 DEF GenerateVariants, IInv, Shape
  <2>. QED
    BY <1>5, <2>1, GenerateRefines DEF Promise!Decision
<1>6. ASSUME NEW r \in Sessions, NEW who \in People, Decide(r, who)
      PROVE  Promise!Decision
  <2>1. PICK p \in Promotions : subject[r] = p
    BY <1>6 DEF Decide, IInv, Shape, Settling
  <2>. QED
    BY <1>6, <2>1, DecideRefines DEF Promise!Decision
<1>7. ASSUME NEW r \in Sessions, Rollback(r)
      PROVE  Promise!Decision
  <2>1. PICK p \in Promotions : subject[r] = p
    BY <1>7 DEF Rollback, IInv, Shape, Settling
  <2>. QED
    BY <1>7, <2>1, RollbackRefines DEF Promise!Decision
<1>. QED
  BY <1>1, <1>2, <1>3, <1>4, <1>5, <1>6, <1>7 DEF Next

\* For any number of promotions and sessions the pipeline implements
\* PromotionLedger: but for races a decision is on what is stored, and takes
\* effect in one step.
THEOREM Refinement == Spec => LedgerKept
BY InitRefines, StepRefines, Invariance, PTL DEF Spec, LedgerKept, Promise!Ledger
=============================================================================
