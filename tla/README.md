# Damascus: formal models and proofs

This directory models the stateful core of the Damascus backend
(`src/backend/damascus`) in TLA+, checks it with TLC and proves its safety
properties with TLAPS. Paths below are relative to `src/backend/damascus`
unless they start with `src/`.

    tlc -workers 2 -config MCExecutionLifecycle.cfg MCExecutionLifecycle.tla
    tlapm ExecutionLifecycleProofs.tla

## 1. The system

Damascus is a FastAPI application served by one worker process: every handler
is a coroutine of one event loop, so code between two `await`s is atomic and
everything else may interleave. State lives in PostgreSQL (one SQLAlchemy
session per request, committed after the handler by `get_session`), in Redis
(single commands, no transactions, keys with a time to live), in Qdrant, in NATS
and in the process's own memory, which a restart loses.

| component | state | operations | what makes it hard | what makes it correct |
|---|---|---|---|---|
| execution lifecycle: `workspace/api.py`, `core/lifecycle`, `core/state`, `core/runtime/langgraph` | Redis hash and command key per execution, graphs and tasks in memory, `workflow_executions` rows | execute, pause, resume, cancel | four stores, no transaction over them; crashes, failing calls, keys that expire; two requests on one id | whoever is told of an execution can find it; status and command agree; keys do not stay for ever |
| event bus: `core/events` | local handlers | publish, subscribe, unsubscribe | delivery is best effort | a lost event never fails its publisher |
| evolution: `evolution/` | rows of opportunities, experiments, variants, promotions, rollbacks | detect, create, generate, evaluate, propose, approve, reject, roll back | sessions read without locks and decide on what they read | a person decides every promotion; a verdict has its decision; a rollback happens once |
| scheduler: `core/scheduler` | sorted set and data keys in Redis, polling task | schedule, cancel, start, stop, poll | two writes per operation, a loop that acts on a list it read before | both keys or neither; due and current jobs are dispatched, one-shot ones once |
| catalogue: `workspace/service.py`, `agents/service.py`, `benchmarks/service.py`, `research/service.py` | rows of workspaces, workflows, agents, teams, members, benchmarks, runs, tasks, findings | create, rename, soft delete, add and remove members, start, complete, fail, list by pages | a check before an insert or a write; constraints that the models have and the migration has not; lists that change while they are read | names are unique per owner; nothing is created in a deleted workspace and a deleted one stays deleted; no row that stays is missed by a reader |
| memory: `memory/` | rows in PostgreSQL, vectors in Qdrant, working keys in Redis | store, search, get, archive; set, delete, clear | vector and row are not stored together; a read writes | a hit leads to a record; an archived record stays so; reads are counted; every request ends |
| approvals, audit: `security/` | Redis records, log | request, approve, reject, status | a record is read and rewritten, and expires | nobody waits for ever; an expired request stays expired |
| model routing: `models/` | provider list, recent decisions, totals | select, complete, stream | providers come and go while they are asked in turn | no better provider is passed over; the summary tells the latest decisions |
| evidence: `evolution/analyzer.py`, `evolution/evaluation.py`, `benchmarks/scoring.py` | performance records, benchmark results | analyze, score, compare, evaluate | several thresholds that act at once, missing metrics, zero baselines, overall scores that callers give | the worst comes first; a promotion keeps what the baseline scores on; doing worse in score and metrics is never judged better |
| agents' channel: `agents/communication.py` | message list | send, receive | a budget at its limit | no message beyond the budget |
| tools: `tools/` | processes | file and terminal calls | a timeout leaves the process running | every call ends |
| start-up, configuration, CLI, migrations | connections | open, close | - | - |

Interactions. The execute handler calls `LifecycleManager.start_workflow`, which
calls the runtime, `StateManager` and the event bus, and then the workspace
service inside the request's transaction. Pause, resume and cancel use no
database at all. The memory service writes to PostgreSQL, Qdrant and the event
bus in one request, and only PostgreSQL takes part in its transaction. Evolution
and the catalogue talk to the database only (some requests publish, and nothing
in the repository subscribes). The model service calls the router and then the
provider it chose. The scheduler's `_dispatch` is a stub that logs: it does not
call the lifecycle yet, and `main.py` does not call `scheduler.start()`, so the
loop is modelled as a component that somebody may start, stop and start again.
Approvals, working memory, the team channel and the calls that start and end
benchmark runs and research tasks are offered by services that nothing in the
repository calls; their clients in the models call them in any order.

`PROJECT.json` lists each hazard at its line, with the properties that cover it.

## 2. Modules

| module | models | built on |
|---|---|---|
| `ExecutionLifecycle` | the four execution handlers with everything they call | - |
| `PromotionLedger` | what the evolution pipeline promises of promotions and experiments: abstract | - |
| `EvolutionPromotions` | experiments, variants, promotions, rollbacks over sessions | `PromotionLedger` (`INSTANCE ... WITH`) |
| `JobStore` | what the scheduler promises of its jobs: abstract | - |
| `Scheduler` | schedule, cancel, start, stop, polling loop | `JobStore` (`INSTANCE ... WITH`) |
| `RecordLifecycle` | what the memory service promises of a record: the abstract specification | - |
| `MemoryStore` | the memory service over PostgreSQL, Qdrant and the event bus | `RecordLifecycle` (`INSTANCE ... WITH`) |
| `ModelRouting` | selection of a provider, the decisions and totals, what each adapter sends | - |
| `Catalogue` | the rows of the REST API beside executions, memories and experiments; its lists | - |
| `Evidence` | the analyzer, the composite score, the comparison and the recommendation | - |
| `AgentSupport` | approvals, working memory, tools, the channel | - |
| `MC...` | the TLC instance of each | the module |
| `...Proofs` | inductive invariant and theorems of each of the eight components | the module |

Definitions named as mutants are plausible bugs: each takes the place of one
definition to show that a property notices it. They are part of no
specification.

### 2.1 ExecutionLifecycle

One request is a process with a `stage` (its next step), a `target` (the id) and
a `goal` (the status it will write). A step is the code from one `await` to the
next:

| action | code |
|---|---|
| `Start` | `start_workflow` up to the runtime's return: a fresh id, graph and task registered. The runtime may raise, then nothing but the id is used up |
| `SaveState`, `ExpireLater` | `save_state`: `hset` of the mapping, then `expire` |
| `Announce` | `event_bus.publish`: delivered or lost, never raised |
| `RecordExecutionStart`, `Commit` | insert and flush; then `get_session` commits and the response leaves or is lost |
| `Pause`, `Resume`, `Cancel` | the first step of each: `get_state` and its checks. Pause asks for RUNNING, resume for a state, cancel for nothing |
| `SetCommand` | the adapter's half: the command set (PAUSE, CANCEL) or deleted; cancel drops the graph |
| `UpdateStatus`, `Notify` | `hset` of the status, which creates a two-field hash if none is there; the event |
| `Fail`, `Crash` | a call raises; the process dies (memory and requests go, Redis and rows stay) |
| `TaskEnds`, `HashExpires`, `CommandExpires` | the graph's task ends; seven days, one hour |

A hash is abstracted to which fields it has (none, only the status, all), its
status and whether it has a time to live. `get_state` raises on a hash with the
status alone, which is why `Pause` and `Resume` need `fields = "full"`.
`known` holds the ids an event or a response has told somebody, and a caller
names an id it was told, one it finds in a row, or a guess (`Ghosts`).

Three history variables name the circumstances under which the code does lose
step: `torn` (an operation stopped between two writes on the id), `overlapped`
(two control operations had writes to make on the id at once), `expired` (its
hash outlived seven days). A property that excuses them says what holds in
every other execution, and is not weakened elsewhere.

What the runtime does with a definition is a parameter (`Outcomes`): it
returns or it raises. The adapter calls `asyncio.coroutine`
(`core/runtime/langgraph/adapter.py:107`), which Python 3.11 removed, and a
graph without nodes does not compile; on the Python version the project declares
the adapter therefore raises for every definition. `LifecycleManager` takes any
`IRuntime`, and the model covers one that returns as well.

### 2.2 EvolutionPromotions

A session is one request with its own transaction. It loads the promotion and
evaluates its guard (`LoadPromotion`, `MaySettle`), loads the variant
(approve, reject) and the experiment (`LoadVariant`, `LoadExperiment`), and commits
(`Decide`, `Rollback`) or aborts. What it loaded is in `saw`: a session reads a row once, and
SQLAlchemy's unit of work sends a column only when its new value differs from
the one it loaded (`Net`). READ COMMITTED lets another session's commit fall
between the read and the write, and nothing here locks or versions rows. Flushes
order their UPDATEs by table and key in the same way in all three handlers and hold
row locks until the commit, so two sessions' writes do not mix: commits are
atomic in the model. FastAPI runs the commit before the response is sent.

`CreateExperiment`, `ProposePromotion` insert rows nobody has seen before, so
their reads cannot go stale and one action is enough. `generate_variants` reads the
experiment and later writes its status: two steps (`LoadForGeneration`,
`GenerateVariants`). Reject records ROLLED_BACK and signs `approved_by`, as the
code does. A proposal's `variant_id` is no foreign key, so it may name a row
that does not exist; approve and reject then pass over it.

`approved`, `rejected` and `rollbacks` record which decisions were committed;
`raced` and `contested` name the promotions that two sessions were settling
at once and the experiments that two sessions were changing at once.

`PromotionLedger` has one step per decision: a promotion goes from PROPOSED to APPROVED
once, to ROLLED_BACK by a rejection from any status or by one rollback from APPROVED,
and its experiment changes with it. `EvolutionPromotions` implements it with its own columns
(`status <- promotion`, `signer <- approvedBy` and so on); a decision's step is the commit, and the
loads before it change nothing there. Raced promotions and contested experiments are
excused, each for itself: a race on one promotion excuses no other one. (Both promotions of
a contested experiment still have to be settled as promised.)

### 2.3 Scheduler

`entry` is a job's place in the sorted set (its score only matters as later or
due), `data` its data key. Each `schedule` call makes a new version, so that a
job can be told from the one that replaced it under the same id. Clients do
`Schedule`, `AddEntry` and `Cancel`, `DeleteData`; the polling task does `Poll`,
`ReadJob` for each id, `Dispatch` for each job, and `RemoveEntry`, `RemoveData`
after a one-shot job. `TickFails` is a Redis call that raises (caught by
`_dispatch` or by `_poll_loop`), `ClientFails` the same in a client, `Stop` the
cancellation of the task at whatever it awaits, `Crash` the death of the
process. `disturbed` names the jobs that two activities changed at once
or that one of them left half changed; `lapsed` those whose data outlived
thirty days.

`JobStore` has the same calls in one step each: `Put`, `Drop`, the dispatch of what stands and is
due, which takes a one-shot job out. `Scheduler` implements it: a job stands from the write of
its data until the first step of whatever removes it, it counts as due once nobody is
at it, and what is `disturbed` or `lapsed` is spoiled. A dispatch of a spoiled id never is of a
version that stands under another one.

### 2.4 MemoryStore and RecordLifecycle

A session is one request with its transaction. `Store` inserts a row that only
this transaction sees, `Embed` puts the point into Qdrant (or finds no embedding),
`PublishStored` announces the record, and `Commit` ends: vector and event come
before the row, as in `memory/service.py`. `Search` takes the hits of one moment and
loads them one at a time (`LoadHit`, `PassHit`); every load is followed by `Touch`,
the UPDATE of `access_count` that `episodic_memory.get` flushes and whose row lock lasts
to the end of the transaction. `Delete` reads (and counts) like a get, then removes
the vector (`Unindex`) and archives at the commit. `Abort` is a call that raises, a
client that leaves or a crash: rolled back in PostgreSQL, while a call to Qdrant may have
been carried out all the same. Rows are not loaded in any particular order, so
two searches may wait for each other: `Victim` is PostgreSQL's deadlock detector.

`raced` names the records that two sessions were reading at once (the increment is
made in Python, `memory/episodic.py:68`), `abandoned` those whose store failed after it
began, `severed` those whose delete failed with the vector gone.

`RecordLifecycle` is what a user of the service may rely on: a record is created once,
searchable or not, and archived for good. `MemoryStore` implements it with
`status <- row` and `searchable <- ` the committed, active records with an
`embedding_id`.

### 2.5 ModelRouting

A caller's request goes from `Begin` to `AskPinned`, if the model's name begins with a
loaded provider's, or to `Ask`, which asks one provider per step whether it is
available; providers come and go in between (`ComesBack`, `GoesAway`). The last
answer brings the choice: `Best` is the first of a stable sort by descending score.
`Answer` is the provider's reply and counts it, `Fail` a call that raises (nobody else
is tried) or `NoEligibleModelError`. `steady` remembers the providers that were up
ever since the request began: only of those can a choice among moving providers
promise anything.

Scores are exact in thousandths where the code adds floats. Ollama, OpenAI,
Anthropic, Gemini and OpenRouter each have their payload operator: which messages
become turns, which instructions go beside them. A message's text is its number, and
`blank` holds the numbers of those whose contents are empty: Anthropic's adapter stops at
the first system message and sends nothing if that one is empty, and an empty system
message displaces the system prompt of OpenAI, OpenRouter and Ollama like any other. What
Anthropic's adapter filters is a recursive function (`Without`), since the prover cannot open
the standard `SelectSeq`.
The adapters of the repository override neither `get_capabilities` nor
`estimate_cost`, so that today all their scores tie and the order of the list decides; the
instance also has providers that declare more, as the tests' do.

### 2.6 Catalogue

One transaction per request again: `Begin` with the reads and the guards, a flush
(`FlushInsert`, `FlushMember`, `FlushUpdate`) that waits for row locks and meets the
constraints, then `Commit` or `Abort`. Every row has the same columns, those that say
nothing of its table empty. An UPDATE sends the columns that differ from
the row as it was loaded (`Changed`), and what a session has flushed lies over what is
committed until it ends (`SeenBy`, `Over`). `migrated` tells the two databases apart that the
repository can make: `Base.metadata.create_all` with the models' constraints, or
migration 001, which creates eight tables, without the unique constraints of
`workspace/models.py:124` and `:181` and without the column `agent_profiles.role`. A
request that violates a constraint ends in `Abort` (500), also where the service
meant 409.

A client reads a list page by page (`ReadFirst`, `Count`, `ReadPage`): count and page
are two statements, and transactions commit between them. It notes whether the list
shrank while it read, and whether it grew between the last count and its page.

`StartRun`, `CompleteRun`, `FailRun`, `StartTask`, `CompleteTask`, `FailTask` and
`RemoveTeamMember` are called by no route: a caller's session may make them in any order.

### 2.7 Evidence

Pure algorithms, driven by one pass over inputs of every kind: records are added, the
analysis ranks opportunities (`AnalyzeAgentPerformance`), a list of scores is aggregated
(`AggregateScores`, `CompositeScore`), a baseline's and a candidate's run are completed
(`Measure`), and `Evaluate` recommends. Numbers are integers (hundredths, hundredths of a
percent).

A run is its metrics and its overall score, and nothing ties the one to the other:
`complete_run` stores both as the caller gives them, `evaluate` and `evaluate_variant` take
the two scores as parameters of their own, and no code feeds them from `aggregate_scores`.
So `Run` has every combination of the two. `Judge` is `EvaluationEngine.evaluate`, with a
threshold the caller may ask for; `EvaluateVariant` asks for none. A threshold of 0 becomes
the default, and a negative one is taken as it is (nothing is then inconclusive for being small).
A metric may be below 0: its relative change has the sign turned, so that it "regresses" by
rising. `CompositeScore` is of any list of scores with weights of their own; without a score
or without a weight it is 0. Weights below 0 are left out (a bound of the model: the
class allows them, and no code makes one).

The records of an agent are the set of their places among those that are read; averages are
compared through sums and counts (`SumOf`, `HowMany`), and the stable sort is given by the place that
each candidate takes (`Ranked`).
The two scores that `evaluate` subtracts are floats: `noise` lets their difference be off
by half a unit of its last place in either direction. A regression is a fall of more than
5 % exactly; a severe one is a fall of more than 10 % once it is rounded to two places, so
of more than 10.005 %. The values of the instance avoid pairs exactly 5 or 10.005 percent
apart, where the code's floats decide, and have one between 10 and 10.005.

### 2.8 AgentSupport

Each client is a coroutine whose call gives way at its awaits (`pc`). An approval is a
Redis record that expires: `UpdateStatus` reads it, `SetStatus` writes it back with a
new hour to live, whatever has happened in between. `ClearExecution` and `DeleteListed` are
`KEYS` and `DEL`; `GetAll` and `GetNext` read key by key. `ExecuteTerminal` starts a
shell: `TimedOut` gives up on it and leaves it running (`OrphanEnds`).
`lapsed`, `doomed` and `gone` are history: approvals that expired with nobody answering,
keys that a clear has found, and keys that a finished clear had found.


## 3. Runs

| run | instance | what it shows |
|---|---|---|
| `lifecycle` | 1 execution, 1 guessed id, 2 requests; 790 thousand states | `TypeOK`, `NamedIsFound`, `StatusMatchesCommand`, `ImmortalIsExplained`, `PausedFromRunning` |
| `evolution` | 1 experiment, 2 variants, 2 promotions, 2 sessions, 1 person; 2.6 million states | `TypeOK`, `HumanDecided`, `VerdictHasDecision`, `PromotedStands`, `RolledBackOnce`; that the pipeline implements `PromotionLedger` (`LedgerKept`) |
| `scheduler` | 2 jobs, 2 clients, 2 versions, 1 failure; 870 thousand states | `TypeOK`, `KeysAgree`, `DispatchesWhatIsDue`; that the scheduler implements `JobStore` (`JobsKept`); `DueIsDispatched` under `FairSpec` |
| `memory` | 2 records, 2 sessions, 5 requests; 174 thousand states | `TypeOK`, `IndexAgrees`, `NothingLeftBehind`, `CountsReads`; that the store implements `RecordLifecycle` (`RecordsKept`); `EveryRequestEnds` under `FairSpec` |
| `routing` | 3 providers, 5 kinds of request (no, one and two system messages, empty ones, with and without a system prompt), 2 callers, 3 requests, a list of 2 decisions; 1.5 million states | `TypeOK`, `ChoosesBest`, `SummaryAgrees`, `OnlyDisplacedAreLost` |
| `catalogue` | 3 ids, 2 names, 2 sessions, 4 requests, pages of one row, with and without the constraints; 1.1 million states | `TypeOK`, `NamesDistinct`, `NothingOrphaned`, `EndsAreTimed`, `NothingSkipped`, `DeletedForGood` |
| `evidence` | 2 agents, 7 records, a window of 6, lists of 3 scores, 2 metrics of 4 values, 2 overall scores, 3 thresholds; 764 thousand states | `TypeOK`, `WorstFirst`, `NothingLostByPromotion`, `WorseIsNeverBetter` |
| `support` | 2 clients, 1 approval, 2 keys, 2 budgets, 2 processes; 120 thousand states | `TypeOK`, `LapseIsFinal`, `ClearedIsGone`, and `NobodyWaitsForever` under `FairSpec` |
| `resumed_from_paused`, `settled_stays_settled`, `cron_moves_on`, `name_is_clean` | the smallest that shows it | violated: see section 6 |

Bounds. `lifecycle`: no action reads or writes the state of two ids, and a
property speaks of one id at a time, so one execution and one guessed id show
what any number would; two requests give every pairwise interleaving. The proofs
remove the bound. `evolution`: two promotions of one experiment and two variants
give the interesting sharing (same experiment, same or different variant), two
sessions every race; `rollbacks` grows only by races and each promotion's status
bounds it, since a rollback needs APPROVED when it loads and nothing returns to
APPROVED but an approval that raced. `scheduler`: `MaxVersions` bounds the calls
of `schedule` (two: a job and its replacement, or two jobs), `MaxFailures` the
Redis calls of the loop that raise, and `times` counts dispatches up to two, which
is all that "once" needs. `memory`: `MaxServed` bounds the requests; five are two
stores and three that meet on the records, which is what a ring of two
waiting searches, or a delete between a read's load and its commit, needs.
`routing`: three requests overflow a list of two decisions with two under way at once.
`catalogue`: three ids are a workspace and two rows that meet in it, or a list of three pages; four
requests make them and change one. `evidence`: seven records are one more than the
window and one more than two agents need to be judged; three scores with weights 0, 1 and 3
have lists without any weight; the values -2000, 7199, 7999 and 8400 (hundredths of a percent) give falls of
4.8, 10.001 (a regression that rounding keeps from being severe) and 14.3 percent, and metrics below 0;
the overall scores 8000 and 8200 differ by exactly the default threshold, where `noise`
decides; the thresholds are a negative one, 0 and 400. `support`: two clients race on one
approval and on one list of keys; `MaxProcesses` bounds the shells alive. Sessions,
clients, jobs, ids and callers are interchangeable where a configuration declares
symmetry; runs with a liveness property declare none. `evolution` has a refinement
and symmetry: `LedgerKept` is a safety property, and its formula treats all promotions alike and names
neither sessions nor variants.

Deadlock is checked except in `memory`, `catalogue` and `evidence`, whose bounded number
of requests, or single pass, comes to its end.

Fairness. `scheduler`, `cron_moves_on`: weak fairness of `Tick`, the next step of
the polling task. The event loop resumes a coroutine whose `sleep` or Redis call is
over, so a step of the task that stays possible is taken. Nothing is assumed of
clients, `Start`, `Stop` or time. `DueIsDispatched` speaks of behaviours in which
the loop runs from some point on (`<>[]running`), and only finitely many of the
loop's calls raise (`MaxFailures`): if Redis failed at every poll nothing could be
dispatched. `memory`: weak fairness of a session's steps (every client library call
returns or raises), strong fairness of `Touch` (PostgreSQL grants a row lock in the order
of arrival, so a session that finds the lock free again and again gets it), weak
fairness of `Victim` (the deadlock detector runs). `support`: weak fairness of a call's own
steps (Redis answers or raises, timers fire) and of `Lapse` (Redis expires keys). A
person never has to answer, and a shell command may run for ever.

Actions that never fire would hide mistakes: between them the passing runs
fire every action and every disjunct of the next-state relations.

## 4. Properties

Lifecycle. `NamedIsFound`: an execution that an event, a response or a row names
has its full hash until it expires, across failures and crashes; it depends on
the order save, publish, record, commit. `StatusMatchesCommand`: the status for
callers and the command for the runtime agree once an operation is over.
`ImmortalIsExplained`: which keys may lack a time to live. `PausedFromRunning`:
pause's guard still holds at its write, two awaits later.

Evolution. `HumanDecided`: whoever settles, in whatever interleaving, there is a
name on it. `VerdictHasDecision`: PROMOTED, REJECTED and ROLLED_BACK of an
experiment or a variant each go back to a committed decision about it.
`PromotedStands`: an uncontested experiment is PROMOTED only while a promotion of it
is APPROVED. `RolledBackOnce`: one rollback, for good, unless two sessions raced.
`LedgerKept`: outside races each decision, though read and written apart, is on what is stored
when it commits, is signed by whoever made it, and reaches the experiment in the same step; in
particular nothing but a race brings a settled promotion back.

Scheduler. `KeysAgree`: both keys or neither. `DispatchesWhatIsDue`: a job about
to be dispatched is due and is the current version. `JobsKept`: the two writes of
each call, with the loop between them, amount to one step; a one-shot job is dispatched
once, in the step that takes it out. `DueIsDispatched`: a due job is dispatched.

Memory. `IndexAgrees`: a search can find exactly the stored, embedded records, but for
the moment between the halves of a delete and after one that failed there.
`NothingLeftBehind`: a vector or an announcement without a record belongs to a store under
way or one that failed. `CountsReads`: no read is counted twice, and one is missed only
where two met. `RecordsKept`: a request that loaded a record before it was archived
does not revive it. `EveryRequestEnds`: also with row locks taken in opposite orders.

Routing. `ChoosesBest`: providers come and go while they are asked in turn, and still
no eligible one that stayed up is passed over for a worse one, and none refused.
`SummaryAgrees`: with requests running at once the list of decisions is the latest in order.
`OnlyDisplacedAreLost`: whichever adapter a request falls to, conversation and prompt arrive
in order, and an instruction is lost exactly if that adapter lets another displace it
(`Displaced`): none with Gemini; the system prompt next to a system message with OpenAI, OpenRouter and
Ollama; every system message but the first, or all next to a system prompt, with Anthropic. That
says what is lost, not that losing it is right: see section 6.

Catalogue. `NamesDistinct`: what the constraints give, and what `create_workspace`'s own
check gives without them. `NothingOrphaned`, `DeletedForGood`: workflows and soft
deletes. `EndsAreTimed`: a run that was started and ended has its duration through any
order of calls. `NothingSkipped`: what a reader of a list is sure to see.

Evidence. `WorstFirst`: an agent that only fails is reported ahead of any other kind of
trouble. `NothingLostByPromotion`: whatever overall scores the caller gives, a promoted candidate
measures every metric that the baseline has above 0 and keeps it at 95 %, as `compare_runs`
shows it, and unless the threshold asked for is negative `compare_runs` calls it an improvement.
`WorseIsNeverBetter`: a candidate given no better score, with no higher value for what the
baseline scores on (a metric left out counts 0; the same value where the baseline is below 0), is never
judged better, and more critical metrics never help.

What `WorseIsNeverBetter` does not say is as telling. It holds the overall score fixed or lowers
it. A caller who computes that score with `aggregate_scores` raises it by leaving out
a low score, and for a metric that the baseline lacks or scores 0 on nothing else
speaks against that: with the baseline `{a: 0.80}`, scored 0.80, and weights 1 and 3 the candidate
`{a: 0.84, b: 0.71}` is scored 0.7425 and rejected, and `{a: 0.84}` is scored 0.84 and
promoted. Nor does a stricter threshold always make the judgement stricter: raising it turns a
rejection for a lower score into an inconclusive one.

Support. `LapseIsFinal`: an answer does not bring an expired request back.
`ClearedIsGone`: a key that a finished `clear_execution` found is gone unless it was
set again. `NobodyWaitsForever`: every request for approval is settled or expires,
and every call ends.

What the properties excuse. Several hazards do bite in this code, and no property that holds
can exclude them: two controls that overlap or one that is torn (`StatusMatchesCommand`,
`PausedFromRunning`), a key left without a time to live (`ImmortalIsExplained`), sessions that race
for a promotion or an experiment (`RolledBackOnce`, `PromotedStands`), jobs changed while
another call or the tick has them (`KeysAgree`, `DispatchesWhatIsDue`), a store or a delete that
fails half way (`NothingLeftBehind`, `IndexAgrees`), two reads that meet (`CountsReads`), a key set
behind a listing (`ClearedIsGone`), an answer under way when the request expires (`LapseIsFinal`), a
workspace deleted before the commit (`NothingOrphaned`). The models contain each of these cases
and its outcome. The property names the circumstance in a history variable and shows
that nothing else leads there: it bounds the damage, it does not deny it. The `note` of
the hazard in `PROJECT.json` says so case by case.

## 5. Proofs

Each proofs module defines one inductive invariant `IInv`, proves that `Init`
implies it, that each action preserves it (one lemma per action) and that every step
therefore does, and derives the properties. The only assumptions are those the
component modules state: `LifecycleAssumption` (guessed ids and `NoId` are not
executions, the runtime's outcomes are the two), `EvolutionAssumption` (`Nobody` is
no row and no person), `SchedulerAssumption` (`NoJob` is no job, the bounds are
naturals), `MemoryStoreAssumption` (`NoRow` is no record), `ProvidersAssumption`
and `DeclarationsAssumption` (at least one provider, each once, each declares what
`models/interface.py` lets it declare, and a request's messages are a list of roles),
`CatalogueAssumption` (`NoId` is no id, the ids are finitely many, a page holds a row),
`EvidenceAssumption` (a record's measurements are a Boolean and integers, a list's scores are
between 0 and 100 and their weights not negative, metrics, overall scores and thresholds are
integers, negative ones included) and
`SupportAssumption` (at least one budget, all
finite). Nothing bounds the numbers of sessions, ids, providers, clients, records or messages.

The library's induction theorems take an operator as a parameter, which no installed prover
instantiates. Where a proof needs induction, over the length of a list or the number of
terms of a sum, it is made with sets: `LeastNatural` finds the least element of a set of
naturals from their well-founded order, and `Upwards` says that a set which holds 0 and, with
k, k + 1, holds them all. A fact about a recursive function is then the fact that a set
of naturals is everything up to the length (`SumIsRunning`, `RestExists`).

- `ExecutionLifecycleProofs`. `NamedIsFound` alone is not inductive: a step that
  announces must know that the hash is there. `Progress` says what each stage of
  start has left behind, `Private` that until its event is out an id belongs to the one
  request that drew it, `Drawn` that undrawn ids have no trace. For the control
  operations `Solo` (two that still write on an id have been counted),
  `PauseHolds` (what pause read still holds) and `InStep` (the command agrees with
  the status written or being written).
- `EvolutionPromotionsProofs`. `Shape` ties a session's stage, operation and
  target, `Rows` the references of a promotion row, `Signed` says that a signature
  a session saw is never taken back, `Solo` that sessions that met were counted,
  `Current` that a lone session's reads are what is stored, `Settlement`
  strengthens `RolledBackOnce`. From `Current` and `Solo` a rollback without a race finds its
  promotion APPROVED when it commits, and a decision signs over the name it read: with
  `Settlement` that makes each commit one decision of `PromotionLedger`'s, and the loads and aborts
  stutters or new races (`StepRefines`, `Refinement`). What a decision may not touch is one formula
  (`Kept`), shown once to be the ledger's `Keep`.
- `SchedulerProofs`. The invariant says what a client or the loop between its two
  writes has done to the two keys, that whoever met was counted in `disturbed`, and
  that versions in the keys and in the batch were made and are no other id's
  (`Ownership`), and that a one-shot job still stored has not been dispatched (`OneShotOnce`).
  For the refinement each action has a lemma that names the step of `JobStore` it is; most of the work
  is that it leaves every other id alone (`Same`, `Kept`, `KeepMeans`). The second writes
  (`AddEntry`, `DeleteData`, `RemoveEntry`, `RemoveData`) change nothing that stands, by
  what `ClientProgress` and `LoopProgress` say of the first; a late `AddEntry` makes its job due.
- `MemoryStoreProofs`. `Shape` says what a session holds at each stage, `Fresh` that a
  record being stored is nobody else's and its vector is there exactly if it will say
  so, `Loaded` that any other session's record was committed, `Drawn` that undrawn ids left no
  trace, `Cut` that a delete about to commit has taken the vector away for good, `Solo` and
  `Counting` that without a meeting the count a session will write is one more than the stored
  one. The refinement needs them all: `Fresh` makes a commit of a store a `Create`, `Cut`
  and `Loaded` make that of a delete an `Archive` or, of an archived record, a stutter
  (`StepRefines`, `Refinement`).
- `ModelRoutingProofs`. `Scans` says that the candidates found so far are eligible, in
  the order of the list, and hold every eligible provider asked that stayed up
  (`NextIsFound` shows that one more answer keeps this), `Staying` that what stayed up is
  up. That a best candidate exists at all (`BestIsBest`) needs a greatest score and a first
  among equals: `LeastNatural` takes both from the well-founded order of the naturals.
  `Listing` knows a caller's own decision by its age (`Window`: a list that is cut
  slides by one), `Answered` that those counted and those under way are together
  no more than those chosen. `OnlyDisplacedEverLost` compares what the adapters send: what `Without`
  keeps is in the old order, each message once and none but the instructions left out
  (`WithoutIs`, `WithoutKeeps`), so the conversation is the same sequence of texts for all
  (`ChatTells`, `GeminiTells`, `AnthropicTells`).
- `CatalogueProofs`. The argument is about rows as each transaction sees them. A commit makes the
  committed rows what one session saw, and leaves to every other session what it saw but
  for those rows (`SeenBy`); two sessions never hold one row (`LocksInv`), so a property of
  what is seen survives the commit. `UniqueInv` and `ParentsInv` are `NamesDistinct` and
  `NothingOrphaned` for what is seen; `AskedInv` says for what moment a request's `saw`
  speaks, without which the names that `create_workspace` checks without the constraints are
  beyond reach; `EndedInv` keeps the started and timed columns of a pending update together.
  For the pages, `ClientInv` says that a row of `before` that was not seen yet has at least
  the pages already read in front of it: rows enter a list only in front, so a row that stays
  never moves to a page that was read.
- `EvidenceProofs`. The invariant says what the stages have put down (`InputInv`, `ReportInv`,
  `AdviceInv`); the work is in the operators. The sums are bounded by their counts
  (`SumAtMost`, `SumAtLeastCount`), so only two failures of three reach the priority 1.0
  (`PriorityBounds`). The places of the sort are a bijection (`PlacesAreTaken`, `Sorted`): everything
  that is detected is reported, once, in order. A weighted sum is at most
  100 times the weights, and the average so at most 1.0 (`MarksAreSummed`, `ScoreBounds`). Only a metric that the baseline has
  can fall (`FallenIsOfBaseline`), and a lower value falls by as much at least (`FallsFurther`): so what
  was critical or severe stays so, and the recommendation is monotone (`WorseIsNoBetter`); a
  promoted candidate has every metric the baseline scores on (`PromotionLosesNothing`). Neither uses how
  an overall score came about.
- `AgentSupportProofs`. `NeverAnswered` says that nobody is about to answer a request that
  lapsed, `StillListed` that what a clear found and nobody set since is on its
  list, `Countable` that the calls waiting for a process are finitely many, so that
  they can be counted against the processes.

Proved for every value of the constants: every type invariant, every other invariant and every action
property of the eight passing runs, and the three refinements: `MemoryStore` implements
`RecordLifecycle`, `Scheduler` implements `JobStore`, `EvolutionPromotions` implements `PromotionLedger`.

Only model-checked: `DueIsDispatched`, `EveryRequestEnds` and `NobodyWaitsForever`, since
liveness under fairness, and `ENABLED`, are out of the prover's reach; that each of the four
disagreements of section 6 happens; and that every action can be taken.

## 6. Where the code and its words part

- `ResumedFromPaused`. `resume_workflow` ("Resume a paused workflow",
  `core/lifecycle/manager.py:86`) checks that the execution exists and not that
  it is paused: cancel, then resume, leaves RUNNING and no command for an execution
  whose graph is gone.
- `SettledStaysSettled`. `approve_promotion` refuses a promotion that is not
  PROPOSED (`evolution/promotion.py:102-107`), but decides on the row its session
  loaded: an approval that loaded before a rejection committed makes the rejected
  promotion APPROVED.
- `CronMovesOn`. The scheduler's docstring says that cron is supported
  (`core/scheduler/scheduler.py:82`); a recurring job's score is never moved, so
  it is dispatched at every poll.
- `NameIsClean`. `select_provider` returns a "modified_request where model name is
  cleaned" (`models/router.py:213`), but strips the prefix only on the way to the provider that the
  name asks for. If that one is away, `openai/gpt-4o` goes as it is to Gemini or Ollama.

Seen while modelling, in the models, and without a run of their own:

- `models/providers/anthropic.py:56`: "Map "system" messages to user messages (system is
  top-level in Anthropic)". The next two lines skip them instead, and lines 78-86 send the
  first of them as the top-level field: no other system message is sent, none at all next to
  a system prompt, and none if the first is empty. `AnthropicPayload` is what the code does, and
  `Displaced` in `OnlyDisplacedAreLost` what it loses.
- `tools/native/terminal.py:11`: "Timeout enforced to prevent runaway processes". At the
  timeout `asyncio.wait_for` gives up on `communicate` and the tool returns an error; nothing
  kills the shell or waits for it. `TimedOut` leaves `processes` as it is.
- `evolution/evaluation.py:105` calls `improvement_threshold` an override of the default. A
  threshold of 0.0 does not override it (line 107 joins the two by `or`): `ThresholdOf`.
- `evolution/evaluation.py:81`: "Any metric dropping >5% is a regression". A metric below 0
  is one when it rises and not when it drops, since line 120 divides by a negative baseline: `FellBy`.
- `evolution/evaluation.py:10` lists "Statistical significance (min benchmark runs)" among the
  criteria; `evaluate` knows of no number of runs.

## 7. Not modelled, and what is left

Whole components: start-up, configuration, error classes, telemetry (state that is set
once); the command line and terminal interface (a client of the HTTP interface);
deployment files. What a workflow node computes, HTTP wire formats and logging are data.

Within the modelled components:

- lifecycle: `StateManager.delete_state`, `record_execution_complete` and the adapter's
  checkpoint operations, which nothing calls. The outcome of the graph's task is
  dropped (`core/runtime/langgraph/adapter.py:154`): no code writes COMPLETED or FAILED.
- event bus: local handlers (nothing subscribes) and the NATS connection. `get_nats`
  replaces a client that it finds disconnected and forgets the old one, and two callers may both
  connect; publication is core NATS, although the docstring speaks of JetStream.
- evolution: the lineage query and the generator of change sets. Each analysis stores its
  findings anew, `addressed` filters a list and is checked nowhere, and two experiments may be made for one opportunity.
- scheduler: an entry whose data has lapsed is passed over at each poll and never
  removed, which costs a read.
- memory: links, the list without a query, the values of working memory (a string that
  is JSON comes back as what it denotes; `get_all` leaves out an empty string).
- catalogue: projects, the registries in memory, reads. Lists of
  agents, teams and benchmarks have no ORDER BY: nothing can be promised of their pages. `GET
  /agents/teams` is declared after `/agents/{agent_id}` and never reached. The
  agent summary's `CAST(boolean AS FLOAT)` is refused by PostgreSQL.
- routing: HTTP calls, streams' chunks, the listing of models. A named provider is not
  asked for capabilities or budget, and no call is tried again: the model says so too.
- benchmarks: the scorers of a single output, which compare strings, the confidence of a score, and weights below 0.
- tools and approvals: the files' contents; no tool asks for an approval itself.

Worth adding next: local handlers of the event bus with subscribe and unsubscribe between a
dispatch's awaits; `delete_state` and the completion of an execution, when something calls them.
