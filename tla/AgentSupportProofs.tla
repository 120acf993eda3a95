-------------------------- MODULE AgentSupportProofs --------------------------
(***************************************************************************)
(* The safety of approvals, working memory, tools and the channel, for any *)
(* number of clients, keys, approvals and processes, from one inductive    *)
(* invariant, IInv.                                                        *)
(***************************************************************************)
EXTENDS AgentSupport, FiniteSetTheorems, TLAPS

\* The calls that wait for a process can be counted.
Countable == IsFiniteSet(Waiting)

\* Nobody answers a request that lapsed, and its record does not come back.
NeverAnswered == \A a \in lapsed : approvals[a] = "none" /\ ~Answering(a)

\* A record is that of a request.
OnlyAsked == \A a \in Approvals : approvals[a] # "none" => a \in asked

\* What a clear has found and nobody set since is among the keys it is to delete.
StillListed == \A c \in Clients : doomed[c] # {} => From(c, "clear") /\ doomed[c] \subseteq pc[c].keys

IInv == TypeOK /\ Countable /\ OnlyAsked /\ NeverAnswered /\ ClearedIsGone /\ StillListed

-----------------------------------------------------------------------------
USE SupportAssumption

\* A call's next step tells what it holds.
LEMMA CallShape ==
  ASSUME TypeOK, NEW c \in Clients
  PROVE  /\ From(c, "answer") => pc[c] \in Answers
         /\ From(c, "clear") \/ From(c, "read") => pc[c] \in Listings
<1>1. pc[c] \in Plain \cup Answers \cup Listings
  BY DEF TypeOK
<1>2. pc[c] \in Plain => pc[c].op \in {"idle", "terminal", "publish"}
  BY DEF Plain, Idle, Result
<1>3. /\ pc[c] \in Answers => pc[c].op = "answer"
      /\ pc[c] \in Listings => pc[c].op \in {"clear", "read"}
  BY DEF Answers, Listings
<1>. QED
  BY <1>1, <1>2, <1>3 DEF From

\* Nothing is asked, kept, cleared or run at first.
LEMMA InitIInv == Init => IInv
<1> SUFFICES ASSUME Init PROVE IInv
  OBVIOUS
<1>1. \A c \in Clients : pc[c] = Idle
  BY DEF Init
<1>2. Waiting = {}
  BY <1>1 DEF Waiting, From, Idle
<1>3. IsFiniteSet(Waiting) /\ Cardinality(Waiting) = 0
  BY <1>2, FS_EmptySet
<1>b. Budgets # {} /\ Budgets \subseteq Nat
  BY DEF SupportAssumption
<1>p. PICK budget \in Budgets : TRUE
  BY <1>b, Zenon
<1>4. 0 <= budget
  BY <1>b, <1>p
<1>5. pc \in [Clients -> Plain \cup Answers \cup Listings]
  BY DEF Init, Plain
<1>6. TypeOK
  BY <1>3, <1>4, <1>5 DEF Init, TypeOK
<1>7. \A a \in Approvals : ~Answering(a)
  BY <1>1 DEF Answering, From, Idle
<1>. QED
  BY <1>3, <1>6, <1>7 DEF Init, IInv, Countable, OnlyAsked, NeverAnswered, ClearedIsGone, StillListed

-----------------------------------------------------------------------------
(* What a step of one client leaves as it is *)

\* Waiting for a process: the same clients, one more, or one less.
LEMMA WaitingStays ==
  ASSUME TypeOK, NEW c \in Clients, NEW call, pc' = [pc EXCEPT ![c] = call],
         From(c, "terminal") <=> call.op = "terminal"
  PROVE  Waiting' = Waiting
BY DEF TypeOK, Waiting, From

LEMMA WaitingGrows ==
  ASSUME TypeOK, Countable, NEW c \in Clients, NEW call, pc' = [pc EXCEPT ![c] = call],
         call.op = "terminal", ~From(c, "terminal")
  PROVE  IsFiniteSet(Waiting') /\ Cardinality(Waiting') = Cardinality(Waiting) + 1
<1>1. Waiting' = Waiting \cup {c} /\ c \notin Waiting
  BY DEF TypeOK, Waiting, From
<1>. QED
  BY <1>1, FS_AddElement DEF Countable

LEMMA WaitingShrinks ==
  ASSUME TypeOK, Countable, NEW c \in Clients, NEW call, pc' = [pc EXCEPT ![c] = call],
         call.op # "terminal", From(c, "terminal")
  PROVE  IsFiniteSet(Waiting') /\ Cardinality(Waiting') = Cardinality(Waiting) - 1
<1>1. Waiting' = Waiting \ {c} /\ c \in Waiting
  BY DEF TypeOK, Waiting, From
<1>. QED
  BY <1>1, FS_RemoveElement DEF Countable

\* Nobody starts to answer.
LEMMA AnswersStay ==
  ASSUME TypeOK, NeverAnswered, NEW c \in Clients, NEW call, pc' = [pc EXCEPT ![c] = call],
         call.op # "answer", UNCHANGED <<approvals, lapsed>>
  PROVE  NeverAnswered'
BY DEF TypeOK, NeverAnswered, Answering, From

\* A client that clears nothing has found nothing.
LEMMA ListedStays ==
  ASSUME TypeOK, StillListed, NEW c \in Clients, NEW call, pc' = [pc EXCEPT ![c] = call],
         ~From(c, "clear"), doomed' = doomed
  PROVE  StillListed'
BY DEF TypeOK, StillListed, From

\* A call that neither asks nor answers nor clears nor waits for a process.
LEMMA CallStep ==
  ASSUME IInv, NEW c \in Clients, NEW call \in Plain \cup Listings, pc' = [pc EXCEPT ![c] = call],
         ~From(c, "terminal"), ~From(c, "clear"), call.op # "terminal",
         UNCHANGED <<approvals, asked, lapsed, working, doomed, gone, processes, sent>>
  PROVE  IInv'
<1>1. Waiting' = Waiting
  BY WaitingStays DEF IInv
<1>2. call.op # "answer"
  BY DEF Plain, Listings, Idle, Result
<1>3. pc' \in [Clients -> Plain \cup Answers \cup Listings]
  BY DEF IInv, TypeOK
<1>4. TypeOK'
  BY <1>1, <1>3 DEF IInv, TypeOK, Plain, Answers, Listings
<1>5. NeverAnswered'
  BY <1>2, AnswersStay DEF IInv
<1>6. StillListed'
  BY ListedStays DEF IInv
<1>. QED
  BY <1>1, <1>4, <1>5, <1>6 DEF IInv, Countable, OnlyAsked, ClearedIsGone

-----------------------------------------------------------------------------
(* Approvals *)

\* A record for an id that was never asked about, and so never lapsed.
LEMMA RequestStep ==
  ASSUME IInv, NEW c \in Clients, NEW a \in Approvals, RequestApproval(c, a)
  PROVE  IInv'
<1> USE DEF IInv, RequestApproval, memory
<1>1. Waiting' = Waiting
  BY DEF Waiting, From
<1>2. pc' = pc /\ Plain' = Plain /\ Listings' = Listings /\ Answers \subseteq Answers'
  BY DEF Plain, Listings, Answers
<1>3. pc' \in [Clients -> Plain' \cup Answers' \cup Listings']
  BY <1>2 DEF TypeOK
<1>4. TypeOK'
  BY <1>1, <1>3 DEF TypeOK, ApprovalStatus
<1>5. NeverAnswered'
  BY DEF TypeOK, NeverAnswered, Answering, From
<1>. QED
  BY <1>1, <1>4, <1>5 DEF TypeOK, Countable, OnlyAsked, ClearedIsGone, StillListed, From

\* An answer is about to be written to a request that has not lapsed.
LEMMA UpdateStep ==
  ASSUME IInv, NEW c \in Clients, NEW a \in Approvals, NEW status \in {"APPROVED", "REJECTED"},
         UpdateStatus(c, a, status)
  PROVE  IInv'
<1> DEFINE call == [op |-> "answer", approval |-> a, status |-> status]
<1>1. From(c, "idle") /\ pc' = [pc EXCEPT ![c] = call]
      /\ UNCHANGED <<approvals, asked, lapsed, working, doomed, gone, processes, sent>>
  BY DEF UpdateStatus, Between, Goto, approving, memory
<1>2. approvals[a] # "none"
  BY DEF UpdateStatus, GetStatus
<1>t. call.op = "answer" /\ call.approval = a /\ ~From(c, "terminal") /\ ~From(c, "clear")
  BY <1>1 DEF From
<1> HIDE DEF call
<1>3. Waiting' = Waiting
  BY <1>1, <1>t, WaitingStays DEF IInv
<1>4. a \in asked
  BY <1>2 DEF IInv, OnlyAsked
<1>5. call \in Answers
  BY <1>4 DEF Answers, call
<1>6. pc' \in [Clients -> Plain \cup Answers \cup Listings]
  BY <1>1, <1>5 DEF IInv, TypeOK
<1>7. TypeOK'
  BY <1>1, <1>3, <1>6 DEF IInv, TypeOK, Plain, Answers, Listings
<1>8. a \notin lapsed
  BY <1>2 DEF IInv, NeverAnswered
<1>9. NeverAnswered'
  BY <1>1, <1>t, <1>8 DEF IInv, TypeOK, NeverAnswered, Answering, From
<1>10. StillListed'
  BY <1>1, <1>t, ListedStays DEF IInv
<1>. QED
  BY <1>1, <1>3, <1>7, <1>9, <1>10 DEF IInv, Countable, OnlyAsked, ClearedIsGone

\* The answer is written; the request has not lapsed as long as it was on its way.
LEMMA SetStatusStep ==
  ASSUME IInv, NEW c \in Clients, SetStatus(c)
  PROVE  IInv'
<1>1. From(c, "answer") /\ pc' = [pc EXCEPT ![c] = Idle]
      /\ approvals' = [approvals EXCEPT ![pc[c].approval] = pc[c].status]
      /\ UNCHANGED <<asked, lapsed, working, doomed, gone, processes, sent>>
  BY DEF SetStatus, Between, Goto, memory
<1>2. pc[c] \in Answers
  BY <1>1, CallShape DEF IInv
<1>3. pc[c].approval \in asked /\ pc[c].status \in ApprovalStatus
  BY <1>2 DEF Answers, ApprovalStatus
<1>t. Idle.op = "idle" /\ Idle \in Plain /\ ~From(c, "terminal") /\ ~From(c, "clear")
  BY <1>1 DEF Idle, From, Plain
<1>4. Waiting' = Waiting
  BY <1>1, <1>t, WaitingStays DEF IInv
<1>5. pc' \in [Clients -> Plain \cup Answers \cup Listings]
  BY <1>1, <1>t DEF IInv, TypeOK
<1>6. TypeOK'
  BY <1>1, <1>3, <1>4, <1>5 DEF IInv, TypeOK, Plain, Answers, Listings
<1>7. Answering(pc[c].approval)
  BY <1>1 DEF Answering
<1>8. pc[c].approval \notin lapsed
  BY <1>1 DEF IInv, NeverAnswered, Answering
<1>9. \A a \in lapsed : approvals'[a] = "none"
  BY <1>1, <1>3, <1>8 DEF IInv, TypeOK, NeverAnswered
<1>10. NeverAnswered'
  BY <1>1, <1>t, <1>9 DEF IInv, TypeOK, NeverAnswered, Answering, From
<1>11. OnlyAsked'
  BY <1>1, <1>3 DEF IInv, TypeOK, OnlyAsked
<1>12. StillListed'
  BY <1>1, <1>t, ListedStays DEF IInv
<1>. QED
  BY <1>1, <1>4, <1>6, <1>10, <1>11, <1>12 DEF IInv, Countable, ClearedIsGone

\* A record expires; if nobody was answering, nobody can any more.
LEMMA LapseStep ==
  ASSUME IInv, NEW a \in Approvals, Lapse(a)
  PROVE  IInv'
<1> USE DEF IInv, Lapse, memory
<1>1. Waiting' = Waiting
  BY DEF Waiting, From
<1>2. a \in asked
  BY DEF OnlyAsked
<1>3. lapsed' \subseteq asked
  BY <1>2 DEF TypeOK
<1>4. TypeOK'
  BY <1>1, <1>3 DEF TypeOK, Plain, Answers, Listings
<1>5. NeverAnswered'
  BY DEF TypeOK, NeverAnswered, Answering, From
<1>6. OnlyAsked'
  BY DEF TypeOK, OnlyAsked
<1>. QED
  BY <1>1, <1>4, <1>5, <1>6 DEF Countable, ClearedIsGone, StillListed, From

-----------------------------------------------------------------------------
(* Working memory *)

\* A key that is set is nobody's to have cleared; one that goes is missed by none.
LEMMA KeyStep ==
  ASSUME IInv, NEW k \in Keys, (\E c \in Clients : Set(c, k) \/ Delete(c, k)) \/ KeyLapses(k)
  PROVE  IInv'
<1>1. /\ UNCHANGED <<approvals, asked, lapsed, processes, sent, pc>>
      /\ \/ /\ working' = working \cup {k} /\ gone' = gone \ {k}
            /\ doomed' = [d \in Clients |-> doomed[d] \ {k}]
         \/ working' = working \ {k} /\ UNCHANGED <<doomed, gone>>
  BY DEF Set, Delete, KeyLapses, approving
<1>2. Waiting' = Waiting
  BY <1>1 DEF Waiting, From
<1>3. doomed' \in [Clients -> SUBSET Keys] /\ \A d \in Clients : doomed'[d] \subseteq doomed[d]
  BY <1>1 DEF IInv, TypeOK
<1>4. TypeOK'
  BY <1>1, <1>2, <1>3 DEF IInv, TypeOK, Plain, Answers, Listings
<1>5. NeverAnswered' /\ OnlyAsked'
  BY <1>1 DEF IInv, NeverAnswered, OnlyAsked, Answering, From
<1>6. StillListed'
  BY <1>1, <1>3 DEF IInv, StillListed, From
<1>7. ClearedIsGone'
  BY <1>1 DEF IInv, ClearedIsGone
<1>. QED
  BY <1>2, <1>4, <1>5, <1>6, <1>7 DEF IInv, Countable

\* The keys are listed.
LEMMA ClearStep ==
  ASSUME IInv, NEW c \in Clients, ClearExecution(c)
  PROVE  IInv'
<1> DEFINE call == [op |-> "clear", keys |-> working]
<1>1. From(c, "idle") /\ pc' = [pc EXCEPT ![c] = call] /\ doomed' = [doomed EXCEPT ![c] = working]
      /\ UNCHANGED <<approvals, asked, lapsed, working, gone, processes, sent>>
  BY DEF ClearExecution, Between, Goto, approving
<1>2. call \in Listings /\ call.op = "clear" /\ call.keys = working /\ ~From(c, "terminal")
  BY <1>1 DEF IInv, TypeOK, Listings, From
<1> HIDE DEF call
<1>3. Waiting' = Waiting
  BY <1>1, <1>2, WaitingStays DEF IInv
<1>4. pc' \in [Clients -> Plain \cup Answers \cup Listings]
  BY <1>1, <1>2 DEF IInv, TypeOK
<1>5. TypeOK'
  BY <1>1, <1>3, <1>4 DEF IInv, TypeOK, Plain, Answers, Listings
<1>6. NeverAnswered'
  BY <1>1, <1>2, AnswersStay DEF IInv
<1>7. StillListed'
  BY <1>1, <1>2 DEF IInv, TypeOK, StillListed, From
<1>. QED
  BY <1>1, <1>3, <1>5, <1>6, <1>7 DEF IInv, Countable, OnlyAsked, ClearedIsGone

\* They are deleted, whoever wrote to them meanwhile.
LEMMA DeleteListedStep ==
  ASSUME IInv, NEW c \in Clients, DeleteListed(c)
  PROVE  IInv'
<1>1. From(c, "clear") /\ pc' = [pc EXCEPT ![c] = Idle]
      /\ working' = working \ pc[c].keys /\ gone' = gone \cup doomed[c]
      /\ doomed' = [doomed EXCEPT ![c] = {}]
      /\ UNCHANGED <<approvals, asked, lapsed, processes, sent>>
  BY DEF DeleteListed, Between, Goto, approving
<1>2. Idle.op = "idle" /\ Idle \in Plain /\ ~From(c, "terminal")
  BY <1>1 DEF Idle, From, Plain
<1>3. Waiting' = Waiting
  BY <1>1, <1>2, WaitingStays DEF IInv
<1>4. pc' \in [Clients -> Plain \cup Answers \cup Listings]
  BY <1>1, <1>2 DEF IInv, TypeOK
<1>5. TypeOK'
  BY <1>1, <1>3, <1>4 DEF IInv, TypeOK, Plain, Answers, Listings
<1>6. NeverAnswered'
  BY <1>1, <1>2, AnswersStay DEF IInv
<1>7. StillListed'
  BY <1>1, <1>2 DEF IInv, TypeOK, StillListed, From
<1>8. doomed[c] \subseteq pc[c].keys
  BY DEF IInv, StillListed
<1>9. ClearedIsGone'
  BY <1>1, <1>8 DEF IInv, ClearedIsGone
<1>. QED
  BY <1>1, <1>3, <1>5, <1>6, <1>7, <1>9 DEF IInv, Countable, OnlyAsked

\* A call that Redis fails deletes nothing, and promised nothing.
LEMMA RaisesStep ==
  ASSUME IInv, NEW c \in Clients, Raises(c)
  PROVE  IInv'
<1>1. (From(c, "answer") \/ From(c, "clear") \/ From(c, "read")) /\ pc' = [pc EXCEPT ![c] = Idle]
      /\ doomed' = [doomed EXCEPT ![c] = {}]
      /\ UNCHANGED <<approvals, asked, lapsed, working, gone, processes, sent>>
  BY DEF Raises, Between, Goto, approving
<1>2. Idle.op = "idle" /\ Idle \in Plain /\ ~From(c, "terminal")
  BY <1>1 DEF Idle, From, Plain
<1>3. Waiting' = Waiting
  BY <1>1, <1>2, WaitingStays DEF IInv
<1>4. pc' \in [Clients -> Plain \cup Answers \cup Listings]
  BY <1>1, <1>2 DEF IInv, TypeOK
<1>5. TypeOK'
  BY <1>1, <1>3, <1>4 DEF IInv, TypeOK, Plain, Answers, Listings
<1>6. NeverAnswered'
  BY <1>1, <1>2, AnswersStay DEF IInv
<1>7. StillListed'
  BY <1>1, <1>2 DEF IInv, TypeOK, StillListed, From
<1>. QED
  BY <1>1, <1>3, <1>5, <1>6, <1>7 DEF IInv, Countable, OnlyAsked, ClearedIsGone

\* Reading changes nothing.
LEMMA ReadStep ==
  ASSUME IInv, NEW c \in Clients, GetAll(c) \/ GetNext(c)
  PROVE  IInv'
<1>1. From(c, "idle") \/ From(c, "read")
  BY DEF GetAll, GetNext, Between
<1>2. PICK call \in Plain \cup Listings : pc' = [pc EXCEPT ![c] = call] /\ call.op \in {"idle", "read"}
  <2>1. CASE GetAll(c)
    <3> DEFINE call == [op |-> "read", keys |-> working]
    <3>1. call \in Listings /\ call.op = "read"
      BY DEF IInv, TypeOK, Listings
    <3>2. pc' = [pc EXCEPT ![c] = call]
      BY <2>1 DEF GetAll, Between, Goto
    <3> HIDE DEF call
    <3>. QED
      BY <3>1, <3>2
  <2>2. CASE GetNext(c) /\ pc[c].keys = {} /\ Goto(c, Idle)
    <3>1. Idle \in Plain /\ Idle.op = "idle"
      BY DEF Idle, Plain
    <3>. QED
      BY <2>2, <3>1 DEF Goto
  <2>3. ASSUME NEW k, GetNext(c), Goto(c, [pc[c] EXCEPT !.keys = @ \ {k}])
        PROVE  \E call \in Plain \cup Listings : pc' = [pc EXCEPT ![c] = call] /\ call.op \in {"idle", "read"}
    <3>1. From(c, "read") /\ pc[c] \in Listings
      BY <2>3, CallShape DEF GetNext, IInv
    <3>2. [pc[c] EXCEPT !.keys = @ \ {k}] \in Listings /\ [pc[c] EXCEPT !.keys = @ \ {k}].op = "read"
      BY <3>1 DEF Listings, From
    <3>. QED
      BY <2>3, <3>2 DEF Goto
  <2>. QED
    BY <2>1, <2>2, <2>3 DEF GetNext
<1>. QED
  BY <1>1, <1>2, CallStep DEF GetAll, GetNext, approving, memory, From

-----------------------------------------------------------------------------
(* Tools and the channel *)

\* Files and publications, and a shell that cannot be started.
LEMMA OutcomeStep ==
  ASSUME IInv, NEW c \in Clients, NEW call \in Plain, Goto(c, call), call.op # "terminal",
         From(c, "idle") \/ From(c, "publish"), UNCHANGED processes, Untouched
  PROVE  IInv'
BY CallStep DEF Goto, From, Untouched, approving, memory

\* A shell more, and a call that waits for it.
LEMMA TerminalStep ==
  ASSUME IInv, NEW c \in Clients, ExecuteTerminal(c)
  PROVE  IInv'
<1> DEFINE call == [op |-> "terminal"]
<1>1. CASE UNCHANGED processes /\ Goto(c, Result(FALSE))
  BY <1>1, OutcomeStep DEF ExecuteTerminal, Plain, Result
<1>2. CASE processes < MaxProcesses /\ processes' = processes + 1 /\ Goto(c, call)
  <2>1. From(c, "idle") /\ pc' = [pc EXCEPT ![c] = call]
        /\ UNCHANGED <<approvals, asked, lapsed, working, doomed, gone, sent>>
    BY <1>2 DEF ExecuteTerminal, Untouched, Goto, approving, memory
  <2>2. call \in Plain /\ call.op = "terminal" /\ ~From(c, "terminal") /\ ~From(c, "clear")
    BY <2>1 DEF Plain, From
  <2> HIDE DEF call
  <2>3. IsFiniteSet(Waiting') /\ Cardinality(Waiting') = Cardinality(Waiting) + 1
    BY <2>1, <2>2, WaitingGrows DEF IInv
  <2>4. Cardinality(Waiting) \in Nat
    BY FS_CardinalityType DEF IInv, Countable
  <2>5. pc' \in [Clients -> Plain \cup Answers \cup Listings]
    BY <2>1, <2>2 DEF IInv, TypeOK
  <2>6. processes' \in 0 .. MaxProcesses /\ Cardinality(Waiting') <= processes'
    BY <1>2, <2>3, <2>4 DEF IInv, TypeOK, SupportAssumption
  <2>7. TypeOK'
    BY <2>1, <2>5, <2>6 DEF IInv, TypeOK, Plain, Answers, Listings
  <2>8. NeverAnswered' /\ StillListed'
    BY <2>1, <2>2, AnswersStay, ListedStays DEF IInv
  <2>. QED
    BY <2>1, <2>3, <2>7, <2>8 DEF IInv, Countable, OnlyAsked, ClearedIsGone
<1>. QED
  BY <1>1, <1>2 DEF ExecuteTerminal

\* A call stops waiting, with its shell or without.
LEMMA WaitEndsStep ==
  ASSUME IInv, NEW c \in Clients, TimedOut(c) \/ \E success \in BOOLEAN : Communicated(c, success)
  PROVE  IInv'
<1>1. PICK call \in {Result(TRUE), Result(FALSE)} :
        From(c, "terminal") /\ pc' = [pc EXCEPT ![c] = call] /\ processes' \in {processes, processes - 1}
        /\ UNCHANGED <<approvals, asked, lapsed, working, doomed, gone, sent>>
  BY DEF TimedOut, Communicated, Between, Goto, Untouched, approving, memory
<1>2. call \in Plain /\ call.op = "publish" /\ ~From(c, "clear")
  BY <1>1 DEF Plain, From, Result
<1>3. IsFiniteSet(Waiting') /\ Cardinality(Waiting') = Cardinality(Waiting) - 1 /\ c \in Waiting
  BY <1>1, <1>2, WaitingShrinks DEF IInv, Waiting
<1>4. Cardinality(Waiting) \in Nat /\ Cardinality(Waiting') \in Nat
  BY <1>3, FS_CardinalityType DEF IInv, Countable
<1>5. pc' \in [Clients -> Plain \cup Answers \cup Listings]
  BY <1>1, <1>2 DEF IInv, TypeOK
<1>6. processes' \in 0 .. MaxProcesses /\ Cardinality(Waiting') <= processes'
  BY <1>1, <1>3, <1>4 DEF IInv, TypeOK, SupportAssumption
<1>7. TypeOK'
  BY <1>1, <1>5, <1>6 DEF IInv, TypeOK, Plain, Answers, Listings
<1>8. NeverAnswered' /\ StillListed'
  BY <1>1, <1>2, AnswersStay, ListedStays DEF IInv
<1>. QED
  BY <1>1, <1>3, <1>7, <1>8 DEF IInv, Countable, OnlyAsked, ClearedIsGone

\* A shell that no call waits for ends, or a message is sent within a budget.
LEMMA OtherStep ==
  ASSUME IInv, OrphanEnds \/ \E c \in Clients : \E budget \in Budgets : Send(c, budget)
  PROVE  IInv'
<1>1. UNCHANGED <<approvals, asked, lapsed, working, doomed, gone, pc>>
  BY DEF OrphanEnds, Send, Untouched, approving, memory
<1>2. Waiting' = Waiting
  BY <1>1 DEF Waiting, From
<1>3. Cardinality(Waiting) \in Nat
  BY FS_CardinalityType DEF IInv, Countable
<1>4. processes' \in 0 .. MaxProcesses /\ Cardinality(Waiting') <= processes'
  BY <1>2, <1>3 DEF OrphanEnds, Send, IInv, TypeOK, SupportAssumption
<1>5. sent' \in Nat /\ \E budget \in Budgets : sent' <= budget
  BY DEF OrphanEnds, Send, Untouched, IInv, TypeOK, SupportAssumption
<1>6. TypeOK'
  BY <1>1, <1>4, <1>5 DEF IInv, TypeOK, Plain, Answers, Listings
<1>. QED
  BY <1>1, <1>2, <1>6 DEF IInv, Countable, OnlyAsked, NeverAnswered, Answering, ClearedIsGone, StillListed, From

-----------------------------------------------------------------------------
\* No step breaks IInv.
LEMMA NextStep == IInv /\ [Next]_vars => IInv'
<1> SUFFICES ASSUME IInv, [Next]_vars PROVE IInv'
  OBVIOUS
<1>1. CASE UNCHANGED vars
  <2>1. UNCHANGED <<approvals, asked, lapsed, working, doomed, gone, processes, sent, pc>> /\ Waiting' = Waiting
    BY <1>1 DEF vars, approving, memory, Waiting, From
  <2>. QED
    BY <2>1 DEF IInv, TypeOK, Plain, Answers, Listings, Countable, OnlyAsked, NeverAnswered, Answering,
      ClearedIsGone, StillListed, From
<1>2. ASSUME NEW c \in Clients, NEW operation, NEW success \in BOOLEAN, ExecuteFilesystem(c, operation, success)
      PROVE  IInv'
  <2>1. Result(success) \in Plain /\ Result(success).op = "publish"
    BY DEF Plain, Result
  <2>. QED
    BY <1>2, <2>1, OutcomeStep DEF ExecuteFilesystem, Between
<1>3. ASSUME NEW c \in Clients, Publish(c) PROVE IInv'
  <2>1. Idle \in Plain /\ Idle.op = "idle"
    BY DEF Plain, Idle
  <2>. QED
    BY <1>3, <2>1, OutcomeStep DEF Publish, Between
<1>4. ASSUME NEW c \in Clients, GoOn(c) PROVE IInv'
  BY <1>3, <1>4, SetStatusStep, DeleteListedStep, ReadStep, WaitEndsStep DEF GoOn
<1>5. ASSUME NEW c \in Clients, NEW a \in Approvals, RequestApproval(c, a) \/ Approve(c, a) \/ Reject(c, a)
      PROVE  IInv'
  BY <1>5, RequestStep, UpdateStep DEF Approve, Reject
<1>. QED
  BY <1>1, <1>2, <1>4, <1>5, LapseStep, KeyStep, ClearStep, ReadStep, TerminalStep, WaitEndsStep, OtherStep,
    RaisesStep DEF Next

\* The inductive invariant holds in every reachable state.
THEOREM Invariance == Spec => []IInv
BY InitIInv, NextStep, PTL DEF Spec

\* Every variable has its type; the channel keeps within the largest budget,
\* and the shell that a call waits for is alive, for any constants.
THEOREM TypeCorrect == Spec => []TypeOK
<1>1. IInv => TypeOK
  BY DEF IInv
<1>. QED
  BY <1>1, Invariance, PTL

\* However many people answer however late, an approval that lapsed with nobody
\* answering stays expired.
THEOREM LapsesAreFinal == Spec => []LapseIsFinal
<1>1. IInv => LapseIsFinal
  BY DEF IInv, NeverAnswered, LapseIsFinal, GetStatus
<1>. QED
  BY <1>1, Invariance, PTL

\* However many clears, writes and expiries interleave, what a clear found is
\* gone when it is over unless it was set again.
THEOREM ClearedStaysGone == Spec => []ClearedIsGone
<1>1. IInv => ClearedIsGone
  BY DEF IInv
<1>. QED
  BY <1>1, Invariance, PTL
=============================================================================
