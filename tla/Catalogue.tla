------------------------------ MODULE Catalogue ------------------------------
(***************************************************************************)
(* What the REST API keeps in PostgreSQL beside executions, memories and    *)
(* experiments: workspaces and their workflows, agents and teams, benchmark *)
(* definitions and runs, research tasks and findings.  Each request has one *)
(* transaction, READ COMMITTED: it reads, it flushes its writes, which wait *)
(* for locks and meet the constraints, and it commits.  A client reads a    *)
(* list page by page all the while.                                        *)
(*                                                                         *)
(* The events that some requests publish have no subscriber in the          *)
(* repository and are left out.                                            *)
(***************************************************************************)
EXTENDS Naturals, FiniteSets

CONSTANTS
  Sessions,   \* requests under way at one time
  Ids,        \* the ids that uuid4 will draw
  NoId,
  Names,      \* names of workspaces and workflows
  PerPage,    \* rows of a page
  MaxServed   \* bound: requests

ASSUME CatalogueAssumption ==
  IsFiniteSet(Ids) /\ NoId \notin Ids /\ PerPage \in Nat \ {0} /\ MaxServed \in Nat

VARIABLES
  migrated,   \* the database was made by migration 001, not from the models
  rows,       \* the committed row of each id
  born,       \* the order in which rows got their created_at
  stage,      \* what each session does next
  plan,       \* the write it is to flush: a row to insert, columns to update
  mine,       \* what it has flushed and not committed, by id
  client,     \* the client that reads a list
  served,     \* requests begun
  saw,        \* the live workspaces when the session's request began
  context,    \* what saw was when a row was inserted
  renamed,    \* workspaces that had another name
  raced       \* rows that two sessions were updating at once

request == <<stage, plan, mine>>
history == <<served, saw, context, renamed, raced>>
vars == <<migrated, rows, born, request, client, history>>

-----------------------------------------------------------------------------
(* Rows: their columns, but for those that nothing here depends on, each of  *)
(* them in every row.  parents holds the foreign keys; the workspace_id of   *)
(* an agent, a team, a benchmark or a task is none.                         *)

Row(table, status, parents, name) ==
  [table |-> table, status |-> status, parents |-> parents, name |-> name,
   started |-> FALSE, timed |-> FALSE, ended |-> FALSE]
NoRow == Row("none", "none", {}, "")

Workspace(name) == Row("workspace", "ACTIVE", {}, name)
Workflow(w, name) == Row("workflow", "DRAFT", {w}, name)
Agent == Row("agent", "ACTIVE", {}, "")
Team == Row("team", "ACTIVE", {}, "")
TeamMember(team, agent) == Row("member", "ACTIVE", {team, agent}, "")
BenchmarkDefinition == Row("benchmark", "ACTIVE", {}, "")
BenchmarkRun(b) == Row("run", "PENDING", {b}, "")
ResearchTask == Row("task", "PENDING", {}, "")
ResearchFinding(t) == Row("finding", "ACTIVE", {t}, "")

\* Migration 001 knows no other of these tables, and no agent's role.
Tables == IF migrated THEN {"workspace", "workflow"}
          ELSE {"workspace", "workflow", "agent", "team", "member", "benchmark", "run", "task", "finding"}

\* The tables that a row's foreign keys refer to.
References(table) == CASE table = "workflow" -> {"workspace"} [] table = "member" -> {"team", "agent"}
                       [] table = "run" -> {"benchmark"} [] table = "finding" -> {"task"} [] OTHER -> {}

Is(i, table) == rows[i].table = table
Live(i) == Is(i, "workspace") /\ rows[i].status # "DELETED"
LiveOnes == {i \in Ids : Live(i)}

\* The models' UniqueConstraints, deleted rows included.  The owner is the same
\* for every request.
Alike(r, q) == /\ r.table \in {"workspace", "workflow"} /\ r.table = q.table
               /\ r.parents = q.parents /\ r.name = q.name

-----------------------------------------------------------------------------
(* A request: its reads, then the write they lead to *)

Nothing == [i \in {} |-> NoRow]
Put(f, i, w) == [j \in DOMAIN f \cup {i} |-> IF j = i THEN w ELSE f[j]]

\* A row with the columns that an UPDATE sends, or the whole row that is written.
Over(cols, row) == [c \in DOMAIN row |-> IF c \in DOMAIN cols THEN cols[c] ELSE row[c]]
Plan(i, write, members) == [id |-> i, write |-> write, members |-> members]
NoPlan == Plan(NoId, NoRow, {})
NoClient == [stage |-> "idle", list |-> [table |-> "none", of |-> {}], page |-> 0, total |-> 0,
             seen |-> {}, before |-> {}, shrunk |-> FALSE, grew |-> FALSE]

Init ==
  /\ migrated \in BOOLEAN
  /\ rows = [i \in Ids |-> NoRow] /\ born = [i \in Ids |-> 0]
  /\ stage = [s \in Sessions |-> "idle"] /\ plan = [s \in Sessions |-> NoPlan]
  /\ mine = [s \in Sessions |-> Nothing]
  /\ client = NoClient
  /\ served = 0 /\ saw = [s \in Sessions |-> {}] /\ context = [i \in Ids |-> {}]
  /\ renamed = {} /\ raced = {}

On(s, i) == plan[s].id = i \/ i \in DOMAIN mine[s]

Begin(s, p) ==
  /\ stage[s] = "idle" /\ served < MaxServed
  /\ served' = served + 1
  /\ stage' = [stage EXCEPT ![s] = "flush"]
  /\ plan' = [plan EXCEPT ![s] = p]
  /\ saw' = [saw EXCEPT ![s] = LiveOnes]
  /\ raced' = IF p.id # NoId /\ \E t \in Sessions \ {s} : On(t, p.id) THEN raced \cup {p.id} ELSE raced
  /\ UNCHANGED <<migrated, rows, born, mine, client, context, renamed>>

Insert(s, row) == Begin(s, Plan(NoId, row, {}))

\* Mutant: every column is sent, as an object that is merged would.
WholeRow(i, cols) == Over(cols, rows[i])

\* An UPDATE sends the columns that differ from the row as it was loaded.
Changed(i, cols) == [c \in {d \in DOMAIN cols : cols[d] # rows[i][d]} |-> cols[c]]

Update(s, i, cols) == Begin(s, Plan(i, Changed(i, cols), {}))

-----------------------------------------------------------------------------
(* Workspaces and workflows *)

NameFree(name) == \A i \in LiveOnes : rows[i].name # name

\* Mutant: the name is taken for granted.
CreateUnchecked(s, name) == Insert(s, Workspace(name))

\* WorkspaceAlreadyExistsError (409) if a workspace that is not deleted has the name.
CreateWorkspace(s, name) == NameFree(name) /\ Insert(s, Workspace(name))

\* The name is changed without a look at the others'.
Renamed(name) == [name |-> name]
UpdateWorkspace(s, i, name) == Live(i) /\ Update(s, i, Renamed(name))

Deleted == [status |-> "DELETED"]
DeleteWorkspace(s, i) == Live(i) /\ Update(s, i, Deleted)

\* Mutant: the foreign key is left to find a workspace that is not there.
CreateInAny(s, w, name) == Is(w, "workspace") /\ Insert(s, Workflow(w, name))

\* WorkspaceNotFoundError (404) if the workspace is deleted or never was.
CreateWorkflow(s, w, name) == Live(w) /\ Insert(s, Workflow(w, name))

-----------------------------------------------------------------------------
(* Agents and teams.  No request changes the status of either. *)

CreateAgent(s) == Insert(s, Agent)

\* The members are inserted in a second flush; the agents are not looked up.
CreateTeam(s, agents) == Begin(s, Plan(NoId, Team, agents))

\* TeamNotFoundError or AgentNotFoundError (404) otherwise.
AddTeamMember(s, team, agent) ==
  /\ Is(team, "team") /\ Is(agent, "agent")
  /\ Insert(s, TeamMember(team, agent))

\* A DELETE of the row.
RemoveTeamMember(s, i) == Is(i, "member") /\ Begin(s, Plan(i, NoRow, {}))

-----------------------------------------------------------------------------
(* Benchmarks.  No request starts or ends a run: these are calls that the    *)
(* service offers, each in a session of its caller.                         *)

CreateDefinition(s) == Insert(s, BenchmarkDefinition)

\* BenchmarkNotFoundError (404) otherwise.
CreateRun(s, b) == Is(b, "benchmark") /\ Insert(s, BenchmarkRun(b))

StartRun(s, i) == Is(i, "run") /\ Update(s, i, [status |-> "RUNNING", started |-> TRUE])

\* The duration is known if the run had been started when it was loaded.
Ended(i, status) == [status |-> status, timed |-> rows[i].timed \/ rows[i].started]

\* Mutant: the duration is taken of a running run only.
CompleteIfRunning(s, i) ==
  /\ Is(i, "run")
  /\ Update(s, i, [status |-> "COMPLETED", timed |-> rows[i].timed \/ rows[i].status = "PENDING"])

\* Whatever its status was, as for the others.
CompleteRun(s, i) == Is(i, "run") /\ Update(s, i, Ended(i, "COMPLETED"))
FailRun(s, i) == Is(i, "run") /\ Update(s, i, Ended(i, "FAILED"))

-----------------------------------------------------------------------------
(* Research *)

CreateTask(s) == Insert(s, ResearchTask)
StartTask(s, i) == Is(i, "task") /\ Update(s, i, [status |-> "RUNNING"])
CompleteTask(s, i) == Is(i, "task") /\ Update(s, i, [status |-> "COMPLETED", ended |-> TRUE])
FailTask(s, i) == Is(i, "task") /\ Update(s, i, [status |-> "FAILED", ended |-> TRUE])

\* Only the foreign key asks for the task.
AddFinding(s, t) == Insert(s, ResearchFinding(t))

-----------------------------------------------------------------------------
(* The write, and the end of the transaction *)

\* A row as the transaction sees it: what it has flushed, else what is committed.
SeenBy(s, i) == IF i \in DOMAIN mine[s] THEN Over(mine[s][i], rows[i]) ELSE rows[i]

\* An INSERT or UPDATE meets the constraints.  It waits for a transaction that
\* has flushed a row with the same key, and fails (500) for a committed one: it
\* does not go on in either case.
Allowed(s, i, row) ==
  /\ row.table \in Tables
  /\ {SeenBy(s, p).table : p \in row.parents} = References(row.table)
  /\ ~migrated => \A j \in Ids \ {i} :
       ~Alike(row, rows[j]) /\ \A t \in Sessions : ~Alike(row, SeenBy(t, j))

\* The lock of an updated row is kept until the transaction ends.
Unlocked(s, i) == \A t \in Sessions \ {s} : i \notin DOMAIN mine[t]

Draw(i) == rows[i] = NoRow /\ born[i] = 0 /\ born' = [born EXCEPT ![i] = 1 + Cardinality({j \in Ids : born[j] # 0})]

FlushInsert(s, i) ==
  /\ stage[s] = "flush" /\ plan[s].id = NoId
  /\ Draw(i)
  /\ Allowed(s, i, plan[s].write)
  /\ mine' = [mine EXCEPT ![s] = Put(Nothing, i, plan[s].write)]
  /\ context' = [context EXCEPT ![i] = saw[s]]
  /\ stage' = [stage EXCEPT ![s] = IF plan[s].members = {} THEN "commit" ELSE "members"]
  /\ plan' = [plan EXCEPT ![s].id = i]
  /\ UNCHANGED <<migrated, rows, client, served, saw, renamed, raced>>

\* create_team's second flush, a member at a time.
FlushMember(s, i, agent) ==
  /\ stage[s] = "members" /\ agent \in plan[s].members
  /\ Draw(i)
  /\ Allowed(s, i, TeamMember(plan[s].id, agent))
  /\ mine' = [mine EXCEPT ![s] = Put(@, i, TeamMember(plan[s].id, agent))]
  /\ plan' = [plan EXCEPT ![s].members = @ \ {agent}]
  /\ stage' = [stage EXCEPT ![s] = IF plan'[s].members = {} THEN "commit" ELSE "members"]
  /\ UNCHANGED <<migrated, rows, client, history>>

FlushUpdate(s) ==
  LET i == plan[s].id
      cols == plan[s].write
  IN /\ stage[s] = "flush" /\ i # NoId
     /\ Unlocked(s, i)
     /\ cols # NoRow => Allowed(s, i, Over(cols, rows[i]))
     /\ mine' = [mine EXCEPT ![s] = Put(Nothing, i, cols)]
     /\ stage' = [stage EXCEPT ![s] = "commit"]
     /\ UNCHANGED <<migrated, rows, born, plan, client, history>>

\* Mutant: the session is given to the next request with what it flushed.
EndKeepsWrites(s) ==
  /\ stage' = [stage EXCEPT ![s] = "idle"] /\ plan' = [plan EXCEPT ![s] = NoPlan]
  /\ saw' = [saw EXCEPT ![s] = {}] /\ UNCHANGED mine

End(s) ==
  /\ stage' = [stage EXCEPT ![s] = "idle"] /\ plan' = [plan EXCEPT ![s] = NoPlan]
  /\ mine' = [mine EXCEPT ![s] = Nothing] /\ saw' = [saw EXCEPT ![s] = {}]

-----------------------------------------------------------------------------
(* Lists: the rows of one answer are a page, newest first, of those that the *)
(* table holds for one parent; workspaces only while they are ACTIVE.        *)

Listed(all, list) ==
  {i \in Ids : /\ all[i].table = list.table /\ list.of \subseteq all[i].parents
               /\ list.table = "workspace" => all[i].status = "ACTIVE"}

\* Mutant: the offset is that of the next page.
PageAfter(list, n) ==
  LET Newer(i) == Cardinality({j \in Listed(rows, list) : born[j] > born[i]})
  IN {i \in Listed(rows, list) : n * PerPage <= Newer(i) /\ Newer(i) < (n + 1) * PerPage}

Page(list, n) ==
  LET Newer(i) == Cardinality({j \in Listed(rows, list) : born[j] > born[i]})
  IN {i \in Listed(rows, list) : (n - 1) * PerPage <= Newer(i) /\ Newer(i) < n * PerPage}

\* What a commit does to the list that is being read.
Noted(before, after) ==
  IF client.stage \in {"count", "page"}
  THEN [client EXCEPT !.shrunk = @ \/ ~(Listed(before, client.list) \subseteq Listed(after, client.list)),
                      !.grew = @ \/ ~(Listed(after, client.list) \subseteq Listed(before, client.list))]
  ELSE client

Commit(s) ==
  /\ stage[s] = "commit"
  /\ rows' = [i \in Ids |-> SeenBy(s, i)]
  /\ renamed' = renamed \cup {i \in LiveOnes : rows'[i].name # rows[i].name}
  /\ client' = Noted(rows, rows')
  /\ End(s)
  /\ UNCHANGED <<migrated, born, served, context, raced>>

\* A statement fails, the client goes away or the process dies: rolled back.
Abort(s) ==
  /\ stage[s] # "idle"
  /\ End(s)
  /\ UNCHANGED <<migrated, rows, born, client, served, context, renamed, raced>>

ReadFirst(list) ==
  /\ client.stage = "idle" /\ Listed(rows, list) # {}
  /\ client' = [stage |-> "count", list |-> list, page |-> 1, total |-> 0, seen |-> {},
                before |-> Listed(rows, list), shrunk |-> FALSE, grew |-> FALSE]
  /\ UNCHANGED <<migrated, rows, born, request, history>>

\* SELECT count(*) ...
Count ==
  /\ client.stage = "count"
  /\ client' = [client EXCEPT !.stage = "page", !.total = Cardinality(Listed(rows, client.list)), !.grew = FALSE]
  /\ UNCHANGED <<migrated, rows, born, request, history>>

\* ... and the SELECT of the page.  The client asks for the next one as long as
\* the total says that there is one.
ReadPage ==
  /\ client.stage = "page"
  /\ LET last == client.page * PerPage >= client.total
     IN client' = [client EXCEPT !.seen = @ \cup Page(client.list, client.page),
                                 !.stage = IF last THEN "done" ELSE "count",
                                 !.page = IF last THEN @ ELSE @ + 1]
  /\ UNCHANGED <<migrated, rows, born, request, history>>

\* The lists that have an order: agents, teams and benchmarks come in any.
Workspaces == {[table |-> "workspace", of |-> {}]}
Workflows == [table : {"workflow"}, of : {{w} : w \in Ids}]
Runs == [table : {"run"}, of : {{b} : b \in Ids}]
Tasks == {[table |-> "task", of |-> {}]}

-----------------------------------------------------------------------------
Create(s) ==
  \/ \E name \in Names : CreateWorkspace(s, name) \/ \E w \in Ids : CreateWorkflow(s, w, name)
  \/ CreateAgent(s) \/ CreateDefinition(s) \/ CreateTask(s)
  \/ \E agents \in SUBSET Ids : CreateTeam(s, agents)
  \/ \E i, j \in Ids : AddTeamMember(s, i, j)
  \/ \E i \in Ids : CreateRun(s, i) \/ AddFinding(s, i)

Change(s) == \E i \in Ids :
  \/ DeleteWorkspace(s, i) \/ \E name \in Names : UpdateWorkspace(s, i, name)
  \/ RemoveTeamMember(s, i)
  \/ StartRun(s, i) \/ CompleteRun(s, i) \/ FailRun(s, i)
  \/ StartTask(s, i) \/ CompleteTask(s, i) \/ FailTask(s, i)

Finish(s) ==
  \/ \E i \in Ids : FlushInsert(s, i) \/ \E agent \in Ids : FlushMember(s, i, agent)
  \/ FlushUpdate(s) \/ Commit(s) \/ Abort(s)

Next ==
  \/ \E s \in Sessions : Create(s) \/ Change(s) \/ Finish(s)
  \/ \E list \in Workspaces \cup Workflows \cup Runs \cup Tasks : ReadFirst(list)
  \/ Count \/ ReadPage

Spec == Init /\ [][Next]_vars

-----------------------------------------------------------------------------
(* Properties *)

\* Every variable has its type.
TypeOK ==
  /\ migrated \in BOOLEAN
  /\ \A i \in Ids : rows[i] # NoRow => rows[i].table \in Tables /\ rows[i].parents \subseteq Ids
  /\ born \in [Ids -> 0 .. Cardinality(Ids)]
  /\ stage \in [Sessions -> {"idle", "flush", "members", "commit"}]
  /\ \A s \in Sessions : /\ DOMAIN mine[s] \subseteq Ids
                         /\ plan[s].id \in Ids \cup {NoId} /\ plan[s].members \subseteq Ids
                         /\ mine[s] # Nothing <=> stage[s] \in {"members", "commit"}
  /\ client.stage \in {"idle", "count", "page", "done"}
  /\ served \in 0 .. MaxServed /\ saw \in [Sessions -> SUBSET Ids] /\ context \in [Ids -> SUBSET Ids]
  /\ renamed \subseteq Ids /\ raced \subseteq Ids

\* No two workspaces of the owner, and no two workflows of a workspace, have
\* one name.  In a database made by the migration, which lacks the constraints,
\* that is left of it which create_workspace's own check can give: two live
\* workspaces share a name only if one was renamed or neither was there when
\* the other was asked for.
NamesDistinct == \A i, j \in Ids : i # j /\ Alike(rows[i], rows[j]) =>
  /\ migrated
  /\ Live(i) /\ Live(j) => {i, j} \cap renamed # {} \/ (i \notin context[j] /\ j \notin context[i])

\* A deleted workspace stays deleted, also when a request that loaded it before
\* writes it back afterwards.
DeletedForGood == [][\A i \in Ids : Is(i, "workspace") /\ ~Live(i) => rows'[i].status = "DELETED"]_vars

\* What refers to another row refers to one that is there, and a workflow is
\* never made in a workspace that was deleted when it was asked for.
NothingOrphaned == \A i \in Ids : rows[i] # NoRow =>
  /\ {rows[p].table : p \in rows[i].parents} = References(rows[i].table)
  /\ Is(i, "workflow") => rows[i].parents \subseteq context[i]

\* A run that ended after it was started has a duration, however often it was
\* started and ended, unless two updates of it met; a task that ended has the
\* time of it even then.
EndsAreTimed == \A i \in Ids : rows[i].table \in {"run", "task"} /\ rows[i].status \in {"COMPLETED", "FAILED"} =>
  /\ Is(i, "run") /\ rows[i].started /\ i \notin raced => rows[i].timed
  /\ Is(i, "task") => rows[i].ended

\* A client that reads a list to its end sees every row that it held all the
\* while, though rows were added: none is moved to a page that was read.  But
\* not if rows left the list, nor if one was added between the count and the
\* page of the last answer, which then is not known to be followed by another.
NothingSkipped == client.stage = "done" /\ ~client.shrunk /\ ~client.grew => client.before \subseteq client.seen
=============================================================================
