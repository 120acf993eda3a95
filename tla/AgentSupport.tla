---------------------------- MODULE AgentSupport ----------------------------
(***************************************************************************)
(* What the backend offers to running agents: approvals and working memory, *)
(* which live in Redis under keys that expire, tools, and a channel of      *)
(* messages in the workflow's shared state.  A coroutine that uses them     *)
(* gives way at every await; a step here is one command of Redis, one wait  *)
(* for a process, one publication.                                         *)
(*                                                                         *)
(* In the repository only the HTTP interface calls the tools, and no code   *)
(* calls the rest: what agents do with them, a client here does in any      *)
(* order.  No tool asks for an approval itself.                             *)
(***************************************************************************)
EXTENDS Naturals, FiniteSets

CONSTANTS
  Clients,      \* coroutines
  Approvals,    \* the ids that uuid4 will draw
  Keys,         \* of the working memory of one execution
  Budgets,      \* message budgets of the channels that share one state
  MaxProcesses  \* bound: processes alive at one time

ASSUME SupportAssumption ==
  /\ Budgets \subseteq Nat /\ IsFiniteSet(Budgets) /\ Budgets # {}
  /\ MaxProcesses \in Nat

VARIABLES
  approvals,    \* each approval's status, "none" where Redis has no record
  asked,        \* approvals ever requested
  working,      \* keys of the working memory that Redis holds
  processes,    \* shells that run
  sent,         \* messages in the shared state
  pc,           \* what each client's call does next
  lapsed,       \* history: approvals that expired while nobody was answering
  doomed,       \* history: per client, keys its clear found, not set since
  gone          \* history: keys some finished clear found, not set since

memory == <<working, doomed, gone>>
approving == <<approvals, asked, lapsed>>
vars == <<approving, memory, processes, sent, pc>>

ApprovalStatus == {"PENDING", "APPROVED", "REJECTED"}

Idle == [op |-> "idle"]

Init ==
  /\ approvals = [a \in Approvals |-> "none"] /\ asked = {} /\ lapsed = {}
  /\ working = {} /\ doomed = [c \in Clients |-> {}] /\ gone = {}
  /\ processes = 0 /\ sent = 0
  /\ pc = [c \in Clients |-> Idle]

Goto(c, next) == pc' = [pc EXCEPT ![c] = next]
From(c, op) == pc[c].op = op
Between(c, op, next) == From(c, op) /\ Goto(c, next)

-----------------------------------------------------------------------------
(* Approvals *)

\* The record is PENDING, with an hour to live.
RequestApproval(c, a) ==
  /\ From(c, "idle") /\ a \notin asked
  /\ approvals' = [approvals EXCEPT ![a] = "PENDING"]
  /\ asked' = asked \cup {a}
  /\ UNCHANGED <<lapsed, memory, processes, sent, pc>>

\* What is not there counts as expired, whether it was answered or not.
GetStatus(a) == IF approvals[a] = "none" THEN "EXPIRED" ELSE approvals[a]

\* Mutant: the record is not read first.
UpdateUnread(c, a, status) ==
  /\ Between(c, "idle", [op |-> "answer", approval |-> a, status |-> status])
  /\ UNCHANGED <<approving, memory, processes, sent>>

\* Any status is overwritten; of a record that is gone the caller hears nothing.
UpdateStatus(c, a, status) ==
  /\ GetStatus(a) # "EXPIRED"
  /\ Between(c, "idle", [op |-> "answer", approval |-> a, status |-> status])
  /\ UNCHANGED <<approving, memory, processes, sent>>

Approve(c, a) == UpdateStatus(c, a, "APPROVED")
Reject(c, a) == UpdateStatus(c, a, "REJECTED")

\* The record as it was read is set again, with the new status and a new hour to live.
SetStatus(c) ==
  /\ Between(c, "answer", Idle)
  /\ approvals' = [approvals EXCEPT ![pc[c].approval] = pc[c].status]
  /\ UNCHANGED <<asked, lapsed, memory, processes, sent>>

Answering(a) == \E c \in Clients : From(c, "answer") /\ pc[c].approval = a

\* Mutant: a request that is not answered has no expiry.
LapseOnceAnswered(a) ==
  /\ approvals[a] \in {"APPROVED", "REJECTED"}
  /\ approvals' = [approvals EXCEPT ![a] = "none"]
  /\ lapsed' = IF Answering(a) THEN lapsed ELSE lapsed \cup {a}
  /\ UNCHANGED <<asked, memory, processes, sent, pc>>

\* _APPROVAL_TTL after the last write.
Lapse(a) ==
  /\ approvals[a] # "none"
  /\ approvals' = [approvals EXCEPT ![a] = "none"]
  /\ lapsed' = IF Answering(a) THEN lapsed ELSE lapsed \cup {a}
  /\ UNCHANGED <<asked, memory, processes, sent, pc>>

-----------------------------------------------------------------------------
(* Working memory.  Values do not matter here; reading one key has no effect. *)

Set(c, k) ==
  /\ From(c, "idle")
  /\ working' = working \cup {k}
  /\ doomed' = [d \in Clients |-> doomed[d] \ {k}] /\ gone' = gone \ {k}
  /\ UNCHANGED <<approving, processes, sent, pc>>

Delete(c, k) ==
  /\ From(c, "idle") /\ working' = working \ {k}
  /\ UNCHANGED <<approving, doomed, gone, processes, sent, pc>>

\* KEYS, the first of clear_execution's two commands.
ClearExecution(c) ==
  /\ Between(c, "idle", [op |-> "clear", keys |-> working])
  /\ doomed' = [doomed EXCEPT ![c] = working]
  /\ UNCHANGED <<approving, working, gone, processes, sent>>

\* Mutant: one of the keys listed is deleted.
DeleteFirst(c) ==
  /\ Between(c, "clear", Idle)
  /\ \E k \in Keys : working' = working \ {k}
  /\ gone' = gone \cup doomed[c] /\ doomed' = [doomed EXCEPT ![c] = {}]
  /\ UNCHANGED <<approving, processes, sent>>

\* DEL of the keys listed; none is sent if there were none.
DeleteListed(c) ==
  /\ Between(c, "clear", Idle)
  /\ working' = working \ pc[c].keys
  /\ gone' = gone \cup doomed[c] /\ doomed' = [doomed EXCEPT ![c] = {}]
  /\ UNCHANGED <<approving, processes, sent>>

\* KEYS, then a GET of each in turn; a key that went meanwhile is left out.
GetAll(c) ==
  /\ Between(c, "idle", [op |-> "read", keys |-> working])
  /\ UNCHANGED <<approving, memory, processes, sent>>

GetNext(c) ==
  /\ From(c, "read")
  /\ \/ pc[c].keys = {} /\ Goto(c, Idle)
     \/ \E k \in pc[c].keys : Goto(c, [pc[c] EXCEPT !.keys = @ \ {k}])
  /\ UNCHANGED <<approving, memory, processes, sent>>

\* _WORKING_MEMORY_TTL after the key was set.
KeyLapses(k) ==
  /\ k \in working /\ working' = working \ {k}
  /\ UNCHANGED <<approving, doomed, gone, processes, sent, pc>>

-----------------------------------------------------------------------------
(* Tools *)

Result(success) == [op |-> "publish", success |-> success]
Untouched == UNCHANGED <<approving, memory, sent>>

\* An unknown operation is a failure, exists is a success, and the rest is as
\* the file system has it.  There is no await.
Filesystem(operation, success) ==
  CASE operation = "unknown" -> ~success [] operation = "exists" -> success [] OTHER -> success \in BOOLEAN

\* A tool that is not registered fails at once and nothing is published.
ExecuteFilesystem(c, operation, success) ==
  /\ Filesystem(operation, success) /\ Between(c, "idle", Result(success))
  /\ UNCHANGED processes /\ Untouched

ExecuteTerminal(c) ==
  /\ From(c, "idle")
  /\ \/ processes < MaxProcesses /\ processes' = processes + 1 /\ Goto(c, [op |-> "terminal"])
     \/ UNCHANGED processes /\ Goto(c, Result(FALSE))  \* the shell cannot be started
  /\ Untouched

\* communicate returns; success is an exit status of zero.
Communicated(c, success) ==
  /\ Between(c, "terminal", Result(success)) /\ processes' = processes - 1 /\ Untouched

\* wait_for gives up.  The process is not killed.
TimedOut(c) == Between(c, "terminal", Result(FALSE)) /\ UNCHANGED processes /\ Untouched

Waiting == {c \in Clients : From(c, "terminal")}

\* A process that no call waits for any more comes to its end.
OrphanEnds ==
  /\ processes > Cardinality(Waiting) /\ processes' = processes - 1
  /\ UNCHANGED pc /\ Untouched

\* The publication is over, whether the event got out or not.
Publish(c) == Between(c, "publish", Idle) /\ UNCHANGED processes /\ Untouched

-----------------------------------------------------------------------------
(* The channel.  There is no await in it, and nothing takes a message out. *)

\* Mutant: the budget's last message is counted after it was sent.
SendOneMore(c, budget) ==
  /\ From(c, "idle") /\ sent <= budget /\ sent' = sent + 1
  /\ UNCHANGED <<approving, memory, processes, pc>>

\* Otherwise MessageBudgetExceededError; a payload over 32 KB is refused as well.
Send(c, budget) ==
  /\ From(c, "idle") /\ sent < budget /\ sent' = sent + 1
  /\ UNCHANGED <<approving, memory, processes, pc>>

-----------------------------------------------------------------------------
\* A command of Redis raises, and the call with it.
Raises(c) ==
  /\ \E op \in {"answer", "clear", "read"} : Between(c, op, Idle)
  /\ doomed' = [doomed EXCEPT ![c] = {}]
  /\ UNCHANGED <<approving, working, gone, processes, sent>>

GoOn(c) == SetStatus(c) \/ DeleteListed(c) \/ GetNext(c) \/ TimedOut(c) \/ Publish(c)

Next ==
  \/ \E c \in Clients :
       \/ \E a \in Approvals : RequestApproval(c, a) \/ Approve(c, a) \/ Reject(c, a)
       \/ \E k \in Keys : Set(c, k) \/ Delete(c, k)
       \/ ClearExecution(c) \/ GetAll(c)
       \/ \E operation \in {"read_file", "write_file", "list_dir", "exists", "unknown"}, success \in BOOLEAN :
            ExecuteFilesystem(c, operation, success)
       \/ ExecuteTerminal(c) \/ \E success \in BOOLEAN : Communicated(c, success)
       \/ \E budget \in Budgets : Send(c, budget)
       \/ GoOn(c) \/ Raises(c)
  \/ \E a \in Approvals : Lapse(a)
  \/ \E k \in Keys : KeyLapses(k)
  \/ OrphanEnds

Spec == Init /\ [][Next]_vars

\* Redis expires keys, commands return or raise, and the event loop's timers
\* fire.  A command in a shell may run for ever.
FairSpec ==
  /\ Spec
  /\ \A c \in Clients : WF_vars(GoOn(c))
  /\ \A a \in Approvals : WF_vars(Lapse(a))

-----------------------------------------------------------------------------
\* What a call may be about to do.
Plain == {Idle, [op |-> "terminal"], Result(TRUE), Result(FALSE)}
Answers == [op : {"answer"}, approval : asked, status : {"APPROVED", "REJECTED"}]
Listings == [op : {"clear", "read"}, keys : SUBSET Keys]

\* Types; the messages never outnumber the largest budget of a channel on the
\* state, and the process that a call waits for is one of those alive.
TypeOK ==
  /\ approvals \in [Approvals -> ApprovalStatus \cup {"none"}]
  /\ asked \subseteq Approvals /\ lapsed \subseteq asked
  /\ working \subseteq Keys /\ gone \subseteq Keys /\ doomed \in [Clients -> SUBSET Keys]
  /\ sent \in Nat /\ \E budget \in Budgets : sent <= budget
  /\ processes \in 0 .. MaxProcesses /\ Cardinality(Waiting) <= processes
  /\ pc \in [Clients -> Plain \cup Answers \cup Listings]

\* An approval that nobody answered in its hour stays expired: an answer that
\* comes afterwards, to a request its agent has given up, does not bring it back.
LapseIsFinal == \A a \in lapsed : GetStatus(a) = "EXPIRED"

\* When clear_execution has returned, a key that was there when it began is
\* gone unless it was set again, whatever other clears, reads, writes and
\* expiries ran in between.
ClearedIsGone == working \cap gone = {}

\* No agent waits for ever: a request is answered or expires, and a call of
\* any kind comes to its end although a command in a shell may never do so.
NobodyWaitsForever ==
  /\ \A a \in Approvals : GetStatus(a) = "PENDING" ~> GetStatus(a) # "PENDING"
  /\ \A c \in Clients : ~ From(c, "idle") ~> From(c, "idle")
=============================================================================
