------------------------------ MODULE Scheduler ------------------------------
(***************************************************************************)
(* The workflow scheduler: schedule and cancel, called by any coroutine,   *)
(* and the polling loop with its start and stop, over two Redis keys per   *)
(* job - a member of the sorted set (scored with run_at) and the job data. *)
(* Neither operation is atomic: each awaits between its two writes.        *)
(*                                                                         *)
(* A job is known by its id, and every call of schedule for an id is a new *)
(* version of the job, so that the model can tell a job from the one that  *)
(* replaced it.                                                            *)
(***************************************************************************)
EXTENDS Naturals

CONSTANTS
  Jobs,         \* job ids
  Clients,      \* coroutines that call schedule and cancel
  NoJob,        \* the job of a client or poller that has none
  MaxVersions,  \* bound: calls of schedule
  MaxFailures   \* bound: Redis calls of the polling loop that raise

ASSUME SchedulerAssumption ==
  NoJob \notin Jobs /\ MaxVersions \in Nat /\ MaxFailures \in Nat

VARIABLES
  entry,      \* each job's place in the sorted set: none, later, due
  data,       \* the version in the job's data key, 0 for no key
  versions,   \* versions made so far
  recurring,  \* those with a recurrence
  stage,      \* the next write of each client
  job,        \* the id it is about
  running,    \* Scheduler._running, with its polling task
  poller,     \* the next step of the polling task
  found,      \* ids a tick has yet to read the data of
  batch,      \* <<id, version>> pairs it has yet to dispatch
  current,    \* the one-shot job it is removing
  failures,   \* Redis calls of the loop that have raised
  times,      \* how often each version was dispatched (counted up to 2)
  disturbed,  \* ids two activities changed at once, or one left half changed
  lapsed      \* ids whose data outlived its thirty days

keys == <<entry, data>>
clients == <<versions, recurring, stage, job>>
loop == <<running, poller, found, batch, current, failures, times>>
vars == <<keys, clients, loop, disturbed, lapsed>>

Versions == 1 .. MaxVersions

Init ==
  /\ entry = [j \in Jobs |-> "none"]
  /\ data = [j \in Jobs |-> 0]
  /\ versions = 0 /\ recurring = {}
  /\ stage = [c \in Clients |-> "idle"]
  /\ job = [c \in Clients |-> NoJob]
  /\ running = FALSE /\ poller = "sleep"
  /\ found = {} /\ batch = {} /\ current = NoJob
  /\ failures = 0
  /\ times = [v \in Versions |-> 0]
  /\ disturbed = {} /\ lapsed = {}

ClientOn(j) == \E c \in Clients : job[c] = j
LoopOn(j) == j \in found \/ j = current \/ \E v \in Versions : <<j, v>> \in batch

-----------------------------------------------------------------------------
(* schedule and cancel *)

Call(c, j, next) ==
  /\ stage[c] = "idle"
  /\ stage' = [stage EXCEPT ![c] = next]
  /\ job' = [job EXCEPT ![c] = j]
  /\ disturbed' = IF ClientOn(j) \/ LoopOn(j) THEN disturbed \cup {j} ELSE disturbed

Return(c) ==
  /\ stage' = [stage EXCEPT ![c] = "idle"]
  /\ job' = [job EXCEPT ![c] = NoJob]
  /\ UNCHANGED <<versions, recurring>>

\* The data first (with thirty days to live) ...
Schedule(c, j, isRecurring) ==
  /\ versions < MaxVersions
  /\ Call(c, j, "zadd")
  /\ versions' = versions + 1
  /\ recurring' = IF isRecurring THEN recurring \cup {versions'} ELSE recurring
  /\ data' = [data EXCEPT ![j] = versions']
  /\ UNCHANGED <<entry, loop, lapsed>>

\* ... then the score, which may be in the past already.
AddEntry(c) ==
  /\ stage[c] = "zadd"
  /\ \E due \in {"later", "due"} : entry' = [entry EXCEPT ![job[c]] = due]
  /\ Return(c)
  /\ UNCHANGED <<data, loop, disturbed, lapsed>>

\* Out of the sorted set first ...
Cancel(c, j) ==
  /\ Call(c, j, "delete")
  /\ entry' = [entry EXCEPT ![j] = "none"]
  /\ UNCHANGED <<data, versions, recurring, loop, lapsed>>

\* Mutant: cancel leaves the data key.
DeleteNothing(c) ==
  /\ stage[c] = "delete"
  /\ Return(c)
  /\ UNCHANGED <<keys, loop, disturbed, lapsed>>

\* ... then the data.
DeleteData(c) ==
  /\ stage[c] = "delete"
  /\ data' = [data EXCEPT ![job[c]] = 0]
  /\ Return(c)
  /\ UNCHANGED <<entry, loop, disturbed, lapsed>>

ClientFails(c) ==
  /\ stage[c] # "idle"
  /\ disturbed' = disturbed \cup {job[c]}
  /\ Return(c)
  /\ UNCHANGED <<keys, loop, lapsed>>

-----------------------------------------------------------------------------
(* The polling loop *)

Start ==
  /\ ~running
  /\ running' = TRUE
  /\ UNCHANGED <<keys, clients, poller, found, batch, current, failures, times, disturbed, lapsed>>

\* What a tick holds is in the task's frame: it is gone when the tick is.
Forget ==
  /\ poller' = "sleep"
  /\ found' = {} /\ batch' = {} /\ current' = NoJob

\* stop cancels the task at whatever it awaits, and awaits its end.
Stop ==
  /\ running
  /\ running' = FALSE
  /\ Forget
  /\ disturbed' = IF current = NoJob THEN disturbed ELSE disturbed \cup {current}
  /\ UNCHANGED <<keys, clients, failures, times, lapsed>>

\* The process dies, and every client's call with it.
Crash ==
  /\ running' = FALSE
  /\ Forget
  /\ stage' = [c \in Clients |-> "idle"]
  /\ job' = [c \in Clients |-> NoJob]
  /\ disturbed' = disturbed \cup ({current} \ {NoJob}) \cup {j \in Jobs : ClientOn(j)}
  /\ UNCHANGED <<keys, versions, recurring, failures, times, lapsed>>

\* Mutant: the range query without its upper bound.
PollEverything ==
  /\ running /\ poller = "sleep"
  /\ \E j \in Jobs : entry[j] # "none"
  /\ poller' = "read"
  /\ found' = {j \in Jobs : entry[j] # "none"}
  /\ disturbed' = disturbed \cup {j \in found' : ClientOn(j)}
  /\ UNCHANGED <<keys, clients, running, batch, current, failures, times, lapsed>>

\* list_due_jobs: the ids whose score has passed.
Poll ==
  /\ running /\ poller = "sleep"
  /\ \E j \in Jobs : entry[j] = "due"
  /\ poller' = "read"
  /\ found' = {j \in Jobs : entry[j] = "due"}
  /\ disturbed' = disturbed \cup {j \in found' : ClientOn(j)}
  /\ UNCHANGED <<keys, clients, running, batch, current, failures, times, lapsed>>

\* ... and one get per id; an id without data is passed over, this tick and
\* every other.
ReadJob(j) ==
  /\ poller = "read" /\ j \in found
  /\ found' = found \ {j}
  /\ batch' = IF data[j] = 0 THEN batch ELSE batch \cup {<<j, data[j]>>}
  /\ poller' = IF found' # {} THEN "read" ELSE IF batch' = {} THEN "sleep" ELSE "dispatch"
  /\ UNCHANGED <<keys, clients, running, current, failures, times, disturbed, lapsed>>

Resume == poller' = IF batch' = {} THEN "sleep" ELSE "dispatch"

\* Mutant: one-shot jobs are kept as recurring ones are.
DispatchOnly(j, v) ==
  /\ poller = "dispatch" /\ <<j, v>> \in batch
  /\ times' = [times EXCEPT ![v] = IF @ < 2 THEN @ + 1 ELSE @]
  /\ batch' = batch \ {<<j, v>>}
  /\ Resume
  /\ UNCHANGED <<keys, clients, running, found, current, failures, disturbed, lapsed>>

\* _dispatch has yet to start anything: it logs, and removes one-shot jobs.
Dispatch(j, v) ==
  /\ poller = "dispatch" /\ <<j, v>> \in batch
  /\ times' = [times EXCEPT ![v] = IF @ < 2 THEN @ + 1 ELSE @]
  /\ batch' = batch \ {<<j, v>>}
  /\ IF v \in recurring
     THEN Resume /\ UNCHANGED current
     ELSE poller' = "zrem" /\ current' = j
  /\ UNCHANGED <<keys, clients, running, found, failures, disturbed, lapsed>>

\* cancel(job_id) from the loop: both writes are by id, whatever the version.
RemoveEntry ==
  /\ poller = "zrem"
  /\ entry' = [entry EXCEPT ![current] = "none"]
  /\ poller' = "delete"
  /\ UNCHANGED <<data, clients, running, found, batch, current, failures, times, disturbed, lapsed>>

RemoveData ==
  /\ poller = "delete"
  /\ data' = [data EXCEPT ![current] = 0]
  /\ current' = NoJob /\ UNCHANGED batch /\ Resume
  /\ UNCHANGED <<entry, clients, running, found, failures, times, disturbed, lapsed>>

\* Mutant: a loop that lets the exception out: the task ends, _running stays.
LoopDies ==
  /\ failures < MaxFailures
  /\ failures' = failures + 1
  /\ poller \in {"read", "zrem", "delete"}
  /\ poller' = "dead"
  /\ found' = {} /\ batch' = {} /\ current' = NoJob
  /\ disturbed' = IF current = NoJob THEN disturbed ELSE disturbed \cup {current}
  /\ UNCHANGED <<keys, clients, running, times, lapsed>>

\* A Redis call of the tick raises: while listing, the tick is over; while
\* removing, _dispatch logs it and the next job has its turn.
TickFails ==
  /\ failures < MaxFailures
  /\ failures' = failures + 1
  /\ \/ poller = "read" /\ Forget /\ UNCHANGED disturbed
     \/ /\ poller \in {"zrem", "delete"}
        /\ disturbed' = disturbed \cup {current}
        /\ current' = NoJob /\ UNCHANGED <<found, batch>> /\ Resume
  /\ UNCHANGED <<keys, clients, running, times, lapsed>>

-----------------------------------------------------------------------------
(* Time *)

BecomesDue(j) ==
  /\ entry[j] = "later"
  /\ entry' = [entry EXCEPT ![j] = "due"]
  /\ UNCHANGED <<data, clients, loop, disturbed, lapsed>>

DataExpires(j) ==
  /\ data[j] # 0
  /\ data' = [data EXCEPT ![j] = 0]
  /\ lapsed' = lapsed \cup {j}
  /\ UNCHANGED <<entry, clients, loop, disturbed>>

Tick == Poll \/ (\E j \in Jobs : ReadJob(j)) \/ (\E j \in Jobs, v \in Versions : Dispatch(j, v))
          \/ RemoveEntry \/ RemoveData

Next ==
  \/ \E c \in Clients, j \in Jobs : Cancel(c, j) \/ \E b \in BOOLEAN : Schedule(c, j, b)
  \/ \E c \in Clients : AddEntry(c) \/ DeleteData(c) \/ ClientFails(c)
  \/ Start \/ Stop \/ Crash \/ Tick \/ TickFails
  \/ \E j \in Jobs : BecomesDue(j) \/ DataExpires(j)

Spec == Init /\ [][Next]_vars

\* The loop's coroutine is resumed as long as it can go on: asyncio.sleep
\* returns and a Redis call answers or raises.  Nobody has to call anything.
FairSpec == Spec /\ WF_vars(Tick)

-----------------------------------------------------------------------------
(* Properties *)

Left == Jobs \ (disturbed \cup lapsed)

\* Every variable has its type.
TypeOK ==
  /\ entry \in [Jobs -> {"none", "later", "due"}]
  /\ data \in [Jobs -> {0} \cup Versions]
  /\ versions \in 0 .. MaxVersions /\ recurring \subseteq 1 .. versions
  /\ stage \in [Clients -> {"idle", "zadd", "delete"}]
  /\ job \in [Clients -> Jobs \cup {NoJob}]
  /\ running \in BOOLEAN /\ poller \in {"sleep", "read", "dispatch", "zrem", "delete"}
  /\ found \subseteq Jobs /\ batch \subseteq Jobs \X Versions /\ current \in Jobs \cup {NoJob}
  /\ failures \in 0 .. MaxFailures /\ times \in [Versions -> 0 .. 2]
  /\ disturbed \subseteq Jobs /\ lapsed \subseteq Jobs

\* Where activities never met or stopped halfway and the data is still there,
\* the two keys agree whenever nobody is between two writes.
KeysAgree ==
  \A j \in Left : ~ClientOn(j) /\ j # current => (entry[j] = "none" <=> data[j] = 0)

\* What the loop is about to dispatch is the job as it stands now, and it is
\* due: nothing cancelled, replaced or early.
DispatchesWhatIsDue ==
  \A j \in Left, v \in Versions : <<j, v>> \in batch => entry[j] = "due" /\ data[j] = v

\* A one-shot job is dispatched once: the removal after its dispatch is done
\* before any later tick can find it.
OneShotOnce ==
  \A j \in Left : data[j] # 0 /\ data[j] \notin recurring /\ j # current => times[data[j]] = 0

\* The scheduler is a JobStore, one call after another, however the two writes of
\* its calls and the loop's steps interleave: a job stands from the write of its
\* data to the first step that takes it out, and is due only when nobody is at it.
Removing(j) == j = current \/ \E c \in Clients : job[c] = j /\ stage[c] = "delete"
Promise == INSTANCE JobStore WITH
  standing <- [j \in Jobs |-> IF Removing(j) THEN 0 ELSE data[j]],
  due <- {j \in Jobs : entry[j] = "due" /\ ~ClientOn(j) /\ j # current},
  made <- versions, recurrent <- recurring, dispatches <- times, spoiled <- disturbed \cup lapsed
JobsKept == Promise!Store

\* A due job is dispatched, or cancelled, replaced, lapsed or put off, if the
\* loop is started and from some time on left running.
DueIsDispatched ==
  \A j \in Jobs, v \in Versions :
    <>[]running => ((entry[j] = "due" /\ data[j] = v)
                      ~> (times[v] > 0 \/ entry[j] # "due" \/ data[j] # v))

\* "One-shot and cron scheduling supported" (scheduler.py): a recurring job that
\* was dispatched is not due for ever, it waits for its next run time.
CronMovesOn ==
  \A j \in Jobs, v \in Versions :
    <>[]running => ((v \in recurring /\ times[v] > 0 /\ data[j] = v)
                      ~> (entry[j] # "due" \/ data[j] # v))
=============================================================================
