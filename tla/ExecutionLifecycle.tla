------------------------- MODULE ExecutionLifecycle -------------------------
(***************************************************************************)
(* Workflow executions: the four HTTP handlers (execute, pause, resume,    *)
(* cancel), LifecycleManager, StateManager and the LangGraph adapter, with *)
(* the three places an execution leaves a trace: a Redis hash and a Redis  *)
(* command key, the adapter's process memory, and a committed row.         *)
(*                                                                         *)
(* Every handler is a coroutine of one process; between two awaits another *)
(* handler may run, a call may raise, and the process may die.  A step     *)
(* below is the code between two such points.                              *)
(***************************************************************************)

CONSTANTS
  Executions,  \* the ids start_workflow may draw (a fresh uuid each time)
  Ghosts,      \* ids a caller may name although no execution has them
  Requests,    \* HTTP requests being served
  NoId,        \* the target of a request that is not being served
  Outcomes     \* what the injected runtime does with a definition

ASSUME LifecycleAssumption ==
  /\ Executions \cap Ghosts = {}
  /\ NoId \notin Executions \cup Ghosts
  /\ Outcomes \subseteq {"returns", "raises"}

VARIABLES
  hash,        \* damascus:state:execution:<id>
  command,     \* damascus:execution:<id>:command
  graphs,      \* LangGraphAdapter._graphs
  tasks,       \* executions whose fire-and-forget task still runs
  issued,      \* ids drawn so far
  rows,        \* committed workflow_executions rows
  known,       \* ids an event or a response has told somebody
  expired,     \* ids whose hash outlived its seven days
  torn,        \* ids an operation stopped working on between two writes
  overlapped,  \* ids two control operations worked on at the same time
  stage,       \* the next step of each request
  target,      \* the id it is about
  goal         \* the status it will write

redis  == <<hash, command>>
memory == <<graphs, tasks>>
history == <<expired, torn, overlapped>>
request == <<stage, target, goal>>
vars == <<redis, memory, issued, rows, known, history, request>>

Ids == Executions \cup Ghosts
Status == {"NONE", "RUNNING", "PAUSED", "CANCELLED"}
StartStages == {"save", "expire", "announce", "record", "commit"}
ControlStages == {"command", "status", "notify"}

\* A hash with every field, one with the status alone, or no hash.
Hash == [fields : {"none", "status", "full"}, status : Status, ttl : BOOLEAN]
NoHash == [fields |-> "none", status |-> "NONE", ttl |-> FALSE]

CommandForAsStatus(s) == s   \* mutant: the status itself is sent as the command

CommandFor(s) == CASE s = "PAUSED" -> "PAUSE"
                   [] s = "CANCELLED" -> "CANCEL"
                   [] OTHER -> "NONE"

Init ==
  /\ hash = [i \in Ids |-> NoHash]
  /\ command = [i \in Ids |-> "NONE"]
  /\ graphs = {} /\ tasks = {}
  /\ issued = {} /\ rows = {} /\ known = {}
  /\ expired = {} /\ torn = {} /\ overlapped = {}
  /\ stage = [r \in Requests |-> "idle"]
  /\ target = [r \in Requests |-> NoId]
  /\ goal = [r \in Requests |-> "NONE"]

-----------------------------------------------------------------------------
(* Request bookkeeping *)

Serve(r, s, i, g) ==
  /\ stage[r] = "idle"
  /\ stage' = [stage EXCEPT ![r] = s]
  /\ target' = [target EXCEPT ![r] = i]
  /\ goal' = [goal EXCEPT ![r] = g]

Await(r, from, to) ==
  /\ stage[r] = from
  /\ stage' = [stage EXCEPT ![r] = to]
  /\ UNCHANGED <<target, goal>>

Finish(r, from) ==
  /\ stage[r] = from
  /\ stage' = [stage EXCEPT ![r] = "idle"]
  /\ target' = [target EXCEPT ![r] = NoId]
  /\ goal' = [goal EXCEPT ![r] = "NONE"]

\* The next write of r on its id has a first half that is already in Redis.
Halfway(r) == stage[r] \in {"expire", "status"}

-----------------------------------------------------------------------------
(* POST /workflows/{id}/execute *)

\* The adapter builds and compiles the graph, registers it and launches the
\* task, and does not give the event loop away in between.
Launch(e) == graphs' = graphs \cup {e} /\ tasks' = tasks \cup {e}

\* Mutant: start_workflow forgets to save the state.
StartUnsaved(r, e) ==
  /\ e \notin issued
  /\ issued' = issued \cup {e}
  /\ Serve(r, "announce", e, "RUNNING") /\ Launch(e)
  /\ UNCHANGED <<redis, rows, known, history>>

\* start_workflow draws an id; when the runtime raises, nothing is kept.
Start(r, e) ==
  /\ e \notin issued
  /\ issued' = issued \cup {e}
  /\ \/ /\ "returns" \in Outcomes
        /\ Serve(r, "save", e, "RUNNING")
        /\ Launch(e)
     \/ /\ "raises" \in Outcomes
        /\ stage[r] = "idle"
        /\ UNCHANGED <<memory, request>>
  /\ UNCHANGED <<redis, rows, known, history>>

\* save_state: hset of the whole mapping, then expire in a second call.
SaveState(r) ==
  /\ Await(r, "save", "expire")
  /\ hash' = [hash EXCEPT ![target[r]] =
                [fields |-> "full", status |-> "RUNNING", ttl |-> @.ttl]]
  /\ UNCHANGED <<command, memory, issued, rows, known, history>>

\* Mutant: save_state without its expire call.
ExpireNever(r) ==
  /\ Await(r, "expire", "announce")
  /\ UNCHANGED <<redis, memory, issued, rows, known, history>>

ExpireLater(r) ==
  /\ Await(r, "expire", "announce")
  /\ hash' = [hash EXCEPT ![target[r]] =
                [fields |-> @.fields, status |-> @.status, ttl |-> @.fields # "none"]]
  /\ UNCHANGED <<command, memory, issued, rows, known, history>>

\* EventBus.publish swallows every failure: the event arrives or is lost.
Announce(r) ==
  /\ Await(r, "announce", "record")
  /\ known' \in {known, known \cup {target[r]}}
  /\ UNCHANGED <<redis, memory, issued, rows, history>>

\* INSERT and flush inside the request's transaction: nobody else sees it yet.
RecordExecutionStart(r) ==
  /\ Await(r, "record", "commit")
  /\ UNCHANGED <<redis, memory, issued, rows, known, history>>

\* get_session commits after the handler; then the response leaves, or is lost.
Commit(r) ==
  /\ Finish(r, "commit")
  /\ rows' = rows \cup {target[r]}
  /\ known' \in {known, known \cup {target[r]}}
  /\ UNCHANGED <<redis, memory, issued, history>>

-----------------------------------------------------------------------------
(* POST /executions/{id}/pause, /resume, /cancel *)

\* The ids a caller can name: what it was told, what a row holds, or a guess.
Nameable == known \cup rows \cup Ghosts

\* Another control operation still has a write to make on the id.
Overlap(i) == IF \E q \in Requests : target[q] = i /\ stage[q] \in {"command", "status"}
              THEN overlapped \cup {i} ELSE overlapped

Control(r, i, g) ==
  /\ i \in Nameable
  /\ Serve(r, "command", i, g)
  /\ overlapped' = Overlap(i)
  /\ UNCHANGED <<redis, memory, issued, rows, known, expired, torn>>

\* Mutant: pause without the check of the status.
PauseAnything(r, i) == hash[i].fields = "full" /\ Control(r, i, "PAUSED")

\* get_state answers None for no hash and raises on a hash with the status
\* alone; only pause looks at the status, and cancel looks at nothing.
Pause(r, i)  == hash[i].fields = "full" /\ hash[i].status = "RUNNING" /\ Control(r, i, "PAUSED")
Resume(r, i) == hash[i].fields = "full" /\ Control(r, i, "RUNNING")
Cancel(r, i) == Control(r, i, "CANCELLED")

\* Mutant: resume leaves the PAUSE command in place.
SetCommandOnly(r) ==
  /\ Await(r, "command", "status")
  /\ command' = [command EXCEPT ![target[r]] =
                   IF goal[r] = "RUNNING" THEN @ ELSE CommandFor(goal[r])]
  /\ graphs' = IF goal[r] = "CANCELLED" THEN graphs \ {target[r]} ELSE graphs
  /\ UNCHANGED <<hash, tasks, issued, rows, known, history>>

\* The adapter's half: set or delete the command; cancel also drops the graph.
SetCommand(r) ==
  /\ Await(r, "command", "status")
  /\ command' = [command EXCEPT ![target[r]] = CommandFor(goal[r])]
  /\ graphs' = IF goal[r] = "CANCELLED" THEN graphs \ {target[r]} ELSE graphs
  /\ UNCHANGED <<hash, tasks, issued, rows, known, history>>

\* hset of the status: on a missing key it creates a hash with no expiry.
UpdateStatus(r) ==
  /\ Await(r, "status", "notify")
  /\ hash' = [hash EXCEPT ![target[r]] =
                [fields |-> IF @.fields = "none" THEN "status" ELSE @.fields,
                 status |-> goal[r], ttl |-> @.ttl]]
  /\ UNCHANGED <<command, memory, issued, rows, known, history>>

Notify(r) ==
  /\ Finish(r, "notify")
  /\ known' \in {known, known \cup {target[r]}}
  /\ UNCHANGED <<redis, memory, issued, rows, history>>

-----------------------------------------------------------------------------
(* What happens to the handlers *)

\* An awaited call raises (publish never does); what was written stays written.
Fail(r) ==
  /\ stage[r] \notin {"idle", "announce", "notify"}
  /\ Finish(r, stage[r])
  /\ torn' = IF Halfway(r) THEN torn \cup {target[r]} ELSE torn
  /\ UNCHANGED <<redis, memory, issued, rows, known, expired, overlapped>>

\* The process dies: memory and requests go, Redis and the database stay.
Crash ==
  /\ graphs' = {} /\ tasks' = {}
  /\ torn' = torn \cup {target[r] : r \in {q \in Requests : Halfway(q)}}
  /\ stage' = [r \in Requests |-> "idle"]
  /\ target' = [r \in Requests |-> NoId]
  /\ goal' = [r \in Requests |-> "NONE"]
  /\ UNCHANGED <<redis, issued, rows, known, expired, overlapped>>

\* The task returns or raises: no code writes the outcome anywhere.
TaskEnds(e) ==
  /\ e \in tasks
  /\ tasks' = tasks \ {e}
  /\ UNCHANGED <<redis, graphs, issued, rows, known, history, request>>

HashExpires(i) ==
  /\ hash[i].ttl
  /\ hash' = [hash EXCEPT ![i] = NoHash]
  /\ expired' = expired \cup {i}
  /\ UNCHANGED <<command, memory, issued, rows, known, torn, overlapped, request>>

\* Both command keys are set with an hour to live.
CommandExpires(i) ==
  /\ command[i] # "NONE"
  /\ command' = [command EXCEPT ![i] = "NONE"]
  /\ UNCHANGED <<hash, memory, issued, rows, known, history, request>>

Step(r) ==
  \/ SaveState(r) \/ ExpireLater(r) \/ Announce(r)
  \/ RecordExecutionStart(r) \/ Commit(r)
  \/ SetCommand(r) \/ UpdateStatus(r) \/ Notify(r)

Next ==
  \/ \E r \in Requests : Step(r) \/ Fail(r)
  \/ \E r \in Requests, e \in Executions : Start(r, e)
  \/ \E r \in Requests, i \in Ids : Pause(r, i) \/ Resume(r, i) \/ Cancel(r, i)
  \/ \E e \in Executions : TaskEnds(e)
  \/ \E i \in Ids : HashExpires(i) \/ CommandExpires(i)
  \/ Crash

Spec == Init /\ [][Next]_vars

-----------------------------------------------------------------------------
(* Properties *)

\* Every variable has its type (the shapes StateManager and the adapter write).
TypeOK ==
  /\ hash \in [Ids -> Hash]
  /\ command \in [Ids -> {"NONE", "PAUSE", "CANCEL"}]
  /\ graphs \subseteq issued /\ tasks \subseteq issued /\ issued \subseteq Executions
  /\ rows \subseteq Executions /\ known \subseteq Ids
  /\ expired \subseteq Ids /\ torn \subseteq Ids /\ overlapped \subseteq Ids
  /\ stage \in [Requests -> {"idle"} \cup StartStages \cup ControlStages]
  /\ target \in [Requests -> Ids \cup {NoId}]
  /\ goal \in [Requests -> Status]

\* An execution that a row, an event or a response names can be found by
\* get_state until its seven days are over: start_workflow saves the state
\* before it publishes and before the handler records, and no later write,
\* failure or crash takes it away.
NamedIsFound ==
  \A e \in Executions \cap (rows \cup known) : hash[e].fields = "full" \/ e \in expired

\* While no operation works on an id and none was torn or overlapped there,
\* the status pause, resume and cancel left in the hash and the command they
\* left for the runtime say the same (the command may have lapsed).
StatusMatchesCommand ==
  \A i \in Ids \ (torn \cup overlapped \cup expired) :
    (\A r \in Requests : target[r] = i => stage[r] \notin {"command", "status"})
      => command[i] \in {"NONE", CommandFor(hash[i].status)}

\* Only a save_state cut between hset and expire, or a status written on an
\* id whose hash was never there or is gone, leaves a key that never expires.
ImmortalIsExplained ==
  \A i \in Ids : hash[i].fields # "none" /\ ~hash[i].ttl =>
    \/ i \in Ghosts \cup expired \cup torn
    \/ \E r \in Requests : stage[r] = "expire" /\ target[r] = i

\* pause_workflow's guard ("not RUNNING" is refused) holds for its write too:
\* PAUSED replaces anything but RUNNING only on an id another operation was
\* also changing, or on a hash that expired in between.
PausedFromRunning ==
  [][\A i \in Ids : hash[i].status # "PAUSED" /\ hash'[i].status = "PAUSED" =>
       \/ hash[i].status = "RUNNING"
       \/ i \in overlapped \cup expired]_vars

\* "Resume a paused workflow" (manager.py, and the header's Paused -> Running):
\* RUNNING replaces PAUSED, or it is the first status of an execution.
ResumedFromPaused ==
  [][\A i \in Ids : hash[i].status # "RUNNING" /\ hash'[i].status = "RUNNING" =>
       hash[i].status \in {"NONE", "PAUSED"}]_vars
=============================================================================
