-------------------------- MODULE CatalogueProofs --------------------------
(***************************************************************************)
(* Proofs about Catalogue, for any sessions, ids, names and page size.  The *)
(* argument is about rows as each transaction sees them (SeenBy): a commit  *)
(* makes the committed rows what one session saw, and leaves to every other *)
(* session what it has flushed itself, because no two hold one row.         *)
(***************************************************************************)
EXTENDS Catalogue, FiniteSetTheorems, TLAPS

RowType ==
  [table : {"none", "workspace", "workflow", "agent", "team", "member", "benchmark", "run", "task", "finding"},
   status : {"none", "ACTIVE", "DELETED", "DRAFT", "PENDING", "RUNNING", "COMPLETED", "FAILED"},
   parents : SUBSET Ids, name : Names \cup {""}, started : BOOLEAN, timed : BOOLEAN, ended : BOOLEAN]

\* The rows that no request removes, and of which none changes what it is.
Lasting(i) == rows[i].table \notin {"none", "member"}

-----------------------------------------------------------------------------
(* The inductive invariant, part by part *)

\* The columns that an update of a row of each table may send.
Fits(table, cols) ==
  \/ /\ table = "workspace" /\ DOMAIN cols \subseteq {"name", "status"}
     /\ "name" \in DOMAIN cols => cols["name"] \in Names
     /\ "status" \in DOMAIN cols => cols["status"] = "DELETED"
  \/ /\ table = "run" /\ DOMAIN cols \subseteq {"status", "started", "timed"}
     /\ "status" \in DOMAIN cols => cols["status"] \in {"RUNNING", "COMPLETED", "FAILED"}
     /\ "started" \in DOMAIN cols => cols["started"] = TRUE
     /\ "timed" \in DOMAIN cols => cols["timed"] \in BOOLEAN
  \/ /\ table = "task" /\ DOMAIN cols \subseteq {"status", "ended"}
     /\ "status" \in DOMAIN cols => cols["status"] \in {"RUNNING", "COMPLETED", "FAILED"}
     /\ "ended" \in DOMAIN cols => cols["ended"] = TRUE

Insertion(w) == w \in RowType /\ w.table # "none"
Removal(i, w) == w = NoRow /\ rows[i].table \in {"none", "member"}
Changes(i, w) == Removal(i, w) \/ Fits(rows[i].table, w)

RowsInv ==
  /\ migrated \in BOOLEAN
  /\ rows \in [Ids -> RowType]
  /\ born \in [Ids -> 0 .. Cardinality(Ids)]
  /\ \A i \in Ids : /\ rows[i] # NoRow => rows[i].table \in Tables
                    /\ rows[i].table # "none" => born[i] # 0

PlanOf(p) == p = Plan(p.id, p.write, p.members)

\* What a session is about, at each of its stages.
SessionInv(s) ==
  /\ PlanOf(plan[s]) /\ plan[s].id \in Ids \cup {NoId} /\ plan[s].members \subseteq Ids
  /\ stage[s] = "idle" => plan[s].id = NoId
  /\ stage[s] \in {"idle", "flush"} => mine[s] = Nothing
  /\ stage[s] \in {"members", "commit"} => plan[s].id \in DOMAIN mine[s]
  /\ stage[s] = "flush" /\ plan[s].id = NoId => Insertion(plan[s].write)
  /\ stage[s] = "flush" /\ plan[s].id # NoId => plan[s].members = {} /\ Changes(plan[s].id, plan[s].write)
  /\ DOMAIN mine[s] \subseteq Ids
  /\ \A i \in DOMAIN mine[s] :
       \/ rows[i] = NoRow /\ Insertion(mine[s][i]) /\ mine[s][i].table \in Tables
       \/ Changes(i, mine[s][i])
  /\ \A i \in Ids : On(s, i) => born[i] # 0

SessionsInv ==
  /\ stage \in [Sessions -> {"idle", "flush", "members", "commit"}]
  /\ DOMAIN plan = Sessions /\ DOMAIN mine = Sessions
  /\ plan = [s \in Sessions |-> plan[s]] /\ mine = [s \in Sessions |-> mine[s]]
  /\ \A s \in Sessions : SessionInv(s)

\* A row is held by one session, and sought by one unless two race for it; a new
\* one by the session that inserts it.
LocksInv == \A s, t \in Sessions : s # t =>
  /\ DOMAIN mine[s] \cap DOMAIN mine[t] = {}
  /\ \A i \in Ids : On(s, i) /\ On(t, i) => i \in raced
  /\ \A i \in DOMAIN mine[s] : Insertion(mine[s][i]) => ~On(t, i)

HistoryInv ==
  /\ served \in 0 .. MaxServed /\ renamed \subseteq Ids /\ raced \subseteq Ids
  /\ saw \in [Sessions -> SUBSET Ids] /\ context \in [Ids -> SUBSET Ids]
  /\ \A s \in Sessions : \A i \in saw[s] : Is(i, "workspace")
  /\ \A j \in Ids : \A i \in context[j] : Is(i, "workspace")

DataInv == RowsInv /\ SessionsInv /\ LocksInv /\ HistoryInv

\* No two rows of what any two transactions see are alike.
UniqueInv == ~migrated => \A i, j \in Ids : i # j =>
  /\ ~Alike(rows[i], rows[j])
  /\ \A s \in Sessions : ~Alike(SeenBy(s, i), rows[j])
  /\ \A s, t \in Sessions : ~Alike(SeenBy(s, i), SeenBy(t, j))

\* Where a name was free when a row was asked for, it is free but for renaming.
StillFree(ws, name) == \A i \in ws : Live(i) /\ i \notin renamed => rows[i].name # name
AskedInv ==
  /\ \A s \in Sessions : stage[s] = "flush" /\ plan[s].id = NoId /\ plan[s].write.table = "workspace"
       => StillFree(saw[s], plan[s].write.name)
  /\ \A s \in Sessions : \A j \in DOMAIN mine[s] : rows[j] = NoRow /\ SeenBy(s, j).table = "workspace"
       => StillFree(context[j], SeenBy(s, j).name)
  /\ \A j \in Ids : Live(j) /\ j \notin renamed => StillFree(context[j], rows[j].name)

\* The foreign keys hold in what each transaction sees.
ParentsInv ==
  /\ \A i \in Ids : rows[i] # NoRow =>
       /\ {rows[p].table : p \in rows[i].parents} = References(rows[i].table)
       /\ rows[i].table = "workflow" => rows[i].parents \subseteq context[i]
  /\ \A s \in Sessions : \A i \in DOMAIN mine[s] : SeenBy(s, i) # NoRow =>
       /\ {SeenBy(s, p).table : p \in SeenBy(s, i).parents} = References(SeenBy(s, i).table)
       /\ SeenBy(s, i).table = "workflow" => SeenBy(s, i).parents \subseteq context[i]
  /\ \A s \in Sessions : stage[s] = "flush" /\ plan[s].id = NoId /\ plan[s].write.table = "workflow"
       => plan[s].write.parents \subseteq saw[s]

IsEnd(status) == status \in {"COMPLETED", "FAILED"}
RunTimed(r) == IsEnd(r.status) /\ r.started => r.timed
\* A task's update that ends it gives it the time of it, unless it has one.
TaskTimed(i, cols) == "status" \in DOMAIN cols /\ IsEnd(cols["status"]) => "ended" \in DOMAIN cols \/ rows[i].ended

EndedInv ==
  /\ \A i \in Ids : /\ Is(i, "run") /\ i \notin raced => RunTimed(rows[i])
                    /\ Is(i, "task") /\ IsEnd(rows[i].status) => rows[i].ended
  /\ \A s \in Sessions : \A i \in DOMAIN mine[s] :
       /\ SeenBy(s, i).table = "run" /\ i \notin raced => RunTimed(SeenBy(s, i))
       /\ Is(i, "task") => TaskTimed(i, mine[s][i])
       /\ rows[i] = NoRow => ~IsEnd(SeenBy(s, i).status)
  /\ \A s \in Sessions : stage[s] = "flush" /\ plan[s].id # NoId =>
       /\ Is(plan[s].id, "run") /\ plan[s].id \notin raced => RunTimed(Over(plan[s].write, rows[plan[s].id]))
       /\ Is(plan[s].id, "task") => TaskTimed(plan[s].id, plan[s].write)
  /\ \A s \in Sessions : stage[s] = "flush" /\ plan[s].id = NoId => ~IsEnd(plan[s].write.status)

\* The rows of the list that is read, and those before one of them.
Held == Listed(rows, client.list)
Newer(i) == {j \in Held : born[j] > born[i]}

ListType == [table : {"none", "workspace", "workflow", "run", "task"}, of : SUBSET Ids]

ClientType ==
  [stage : {"idle", "count", "page", "done"}, list : ListType, page : Nat, total : Nat,
   seen : SUBSET Ids, before : SUBSET Ids, shrunk : BOOLEAN, grew : BOOLEAN]

ClientInv ==
  /\ client \in ClientType
  /\ client.stage \in {"count", "page"} => client.list.table # "none" /\ client.page > 0
  /\ client.stage \in {"count", "page"} /\ ~client.shrunk =>
       /\ client.before \subseteq Held
       /\ \A i \in client.before \ client.seen : Cardinality(Newer(i)) >= (client.page - 1) * PerPage
       /\ client.stage = "page" /\ ~client.grew => client.total = Cardinality(Held)
  /\ NothingSkipped

IInv == DataInv /\ UniqueInv /\ AskedInv /\ ParentsInv /\ EndedInv /\ ClientInv

-----------------------------------------------------------------------------
(* Rows *)

Columns == {"table", "status", "parents", "name", "started", "timed", "ended"}

LEMMA RowColumns ==
  ASSUME NEW r \in RowType
  PROVE  /\ DOMAIN r = Columns
         /\ r = [c \in Columns |-> r[c]]
         /\ r.parents \subseteq Ids /\ r.started \in BOOLEAN /\ r.timed \in BOOLEAN /\ r.ended \in BOOLEAN
         /\ r.table = r["table"] /\ r.status = r["status"]
PROOF
  BY DEF RowType, Columns

LEMMA NoRowType == NoRow \in RowType /\ NoRow.table = "none" /\ NoRow.status = "none"
PROOF
  BY DEF NoRow, Row, RowType

LEMMA OverColumns ==
  ASSUME NEW r \in RowType, NEW cols
  PROVE  /\ DOMAIN Over(cols, r) = Columns
         /\ \A c \in Columns : Over(cols, r)[c] = IF c \in DOMAIN cols THEN cols[c] ELSE r[c]
PROOF
  BY RowColumns DEF Over

LEMMA OverRow ==
  ASSUME NEW r \in RowType, NEW w \in RowType
  PROVE  Over(w, r) = w
PROOF
  <1>1. DOMAIN w = Columns /\ DOMAIN r = Columns /\ w = [c \in Columns |-> w[c]]
    BY RowColumns
  <1> QED BY <1>1 DEF Over

LEMMA OverFits ==
  ASSUME NEW r \in RowType, NEW cols, Fits(r.table, cols)
  PROVE  /\ Over(cols, r) \in RowType
         /\ Over(cols, r).table = r.table /\ Over(cols, r).parents = r.parents
         /\ r.table \in {"workspace", "run", "task"}
         /\ r.table = "workspace" /\ r.status = "DELETED" => Over(cols, r).status = "DELETED"
         /\ r.table = "task" /\ r.ended => Over(cols, r).ended
PROOF
  <1> DEFINE o == Over(cols, r)
  <1>1. DOMAIN o = Columns /\ o = [c \in Columns |-> IF c \in DOMAIN cols THEN cols[c] ELSE r[c]]
    BY RowColumns DEF Over
  <1> HIDE DEF o
  <1>2. o \in RowType
    BY <1>1, ZenonT(60) DEF Fits, RowType, Columns
  <1>3. o.table = r.table /\ o.parents = r.parents /\ r.table \in {"workspace", "run", "task"}
    BY <1>1 DEF Fits, Columns
  <1>4. r.table = "workspace" /\ r.status = "DELETED" => o.status = "DELETED"
    BY <1>1 DEF Fits, Columns
  <1>5. r.table = "task" /\ r.ended => o.ended
    <2>1. "ended" \in Columns
      BY DEF Columns
    <2>2. ASSUME r.table = "task", "ended" \in DOMAIN cols
          PROVE  o["ended"] = TRUE
      BY <1>1, <2>1, <2>2 DEF Fits
    <2>3. ASSUME "ended" \notin DOMAIN cols
          PROVE  o["ended"] = r["ended"]
      BY <1>1, <2>1, <2>3
    <2> QED BY <2>2, <2>3
  <1> QED BY <1>2, <1>3, <1>4, <1>5 DEF o
\* What a transaction sees of a row.
LEMMA Views ==
  ASSUME RowsInv, SessionsInv, NEW s \in Sessions, NEW i \in Ids
  PROVE  /\ SeenBy(s, i) \in RowType
         /\ SeenBy(s, i).table # "none" => SeenBy(s, i).table \in Tables /\ born[i] # 0
         /\ SeenBy(s, i).table = "none" => SeenBy(s, i) = NoRow
         /\ Lasting(i) => SeenBy(s, i).table = rows[i].table /\ SeenBy(s, i).parents = rows[i].parents
         /\ Is(i, "workspace") /\ ~Live(i) => SeenBy(s, i).status = "DELETED"
         /\ Is(i, "task") /\ rows[i].ended => SeenBy(s, i).ended
         /\ i \in DOMAIN mine[s] /\ Insertion(mine[s][i]) => SeenBy(s, i) = mine[s][i] /\ rows[i] = NoRow
         /\ i \in DOMAIN mine[s] /\ ~Insertion(mine[s][i]) /\ ~Lasting(i) => SeenBy(s, i) = NoRow
PROOF
  <1>1. rows[i] \in RowType /\ (rows[i] # NoRow => rows[i].table \in Tables) /\ (rows[i].table # "none" => born[i] # 0)
    BY DEF RowsInv
  <1>2. "none" \notin Tables
    BY DEF Tables
  <1>3. rows[i] # NoRow <=> rows[i].table # "none"
    BY <1>1, <1>2, NoRowType
  <1>4. CASE i \notin DOMAIN mine[s]
    <2>1. SeenBy(s, i) = rows[i]
      BY <1>4 DEF SeenBy
    <2> QED BY <2>1, <1>1, <1>3, <1>4 DEF Live, Is
  <1>5. CASE i \in DOMAIN mine[s]
    <2> DEFINE w == mine[s][i]
    <2>1. SeenBy(s, i) = Over(w, rows[i])
      BY <1>5 DEF SeenBy
    <2>2. On(s, i) /\ born[i] # 0
      BY <1>5 DEF On, SessionsInv, SessionInv
    <2>3. (rows[i] = NoRow /\ Insertion(w) /\ w.table \in Tables) \/ Changes(i, w)
      BY <1>5 DEF SessionsInv, SessionInv
    <2> HIDE DEF w
    <2>4. CASE rows[i] = NoRow /\ Insertion(w) /\ w.table \in Tables
      <3>1. SeenBy(s, i) = w /\ w \in RowType
        BY <2>1, <2>4, <1>1, OverRow DEF Insertion
      <3> QED BY <3>1, <2>2, <2>4, <1>2, <1>3 DEF Lasting, Is, w
    <2>5. CASE Removal(i, w)
      <3>1. SeenBy(s, i) = NoRow /\ ~Insertion(w)
        BY <2>1, <2>5, <1>1, OverRow, NoRowType DEF Removal, Insertion
      <3> QED BY <3>1, <2>5, <1>2, <1>3, NoRowType DEF Lasting, Is, w, Removal
    <2>6. CASE Fits(rows[i].table, w)
      <3>1. "table" \notin DOMAIN w
        BY <2>6 DEF Fits
      <3>2. ~Insertion(w)
        BY <3>1, RowColumns DEF Insertion, Columns
      <3>3. /\ SeenBy(s, i) \in RowType
            /\ SeenBy(s, i).table = rows[i].table /\ SeenBy(s, i).parents = rows[i].parents
            /\ rows[i].table \in {"workspace", "run", "task"}
            /\ rows[i].table = "workspace" /\ rows[i].status = "DELETED" => SeenBy(s, i).status = "DELETED"
            /\ rows[i].table = "task" /\ rows[i].ended => SeenBy(s, i).ended
        BY <2>1, <2>6, <1>1, OverFits
      <3> QED BY <3>2, <3>3, <1>1, <1>2, <1>3, <2>2 DEF Lasting, Is, Live, w
    <2> QED BY <2>3, <2>4, <2>5, <2>6 DEF Changes
  <1> QED BY <1>4, <1>5

-----------------------------------------------------------------------------
(* Requests *)

\* What every request asks for.
WellAsked(p) ==
  /\ PlanOf(p) /\ p.members \subseteq Ids
  /\ \/ /\ p.id = NoId /\ Insertion(p.write) /\ ~IsEnd(p.write.status)
        /\ p.write.table = "workspace" => NameFree(p.write.name)
        /\ p.write.table = "workflow" => p.write.parents \subseteq LiveOnes
     \/ /\ p.id \in Ids /\ p.members = {} /\ rows[p.id].table # "none"
        /\ Changes(p.id, p.write)
        /\ Is(p.id, "run") => RunTimed(Over(p.write, rows[p.id]))
        /\ Is(p.id, "task") => TaskTimed(p.id, p.write)

LEMMA AskedInsert ==
  ASSUME NEW s, NEW row, Insertion(row), ~IsEnd(row.status), Insert(s, row),
         row.table = "workspace" => NameFree(row.name),
         row.table = "workflow" => row.parents \subseteq LiveOnes
  PROVE  \E p : Begin(s, p) /\ WellAsked(p)
PROOF
  <1> DEFINE p == Plan(NoId, row, {})
  <1>1. WellAsked(p)
    BY DEF WellAsked, PlanOf, Plan
  <1> QED BY <1>1 DEF Insert

LEMMA RowsMade ==
  /\ \A name \in Names : Insertion(Workspace(name)) /\ Workspace(name).status = "ACTIVE"
       /\ Workspace(name).table = "workspace" /\ Workspace(name).name = name
  /\ \A w \in Ids : \A name \in Names : Insertion(Workflow(w, name)) /\ Workflow(w, name).status = "DRAFT"
       /\ Workflow(w, name).table = "workflow" /\ Workflow(w, name).parents = {w}
  /\ \A row \in {Agent, Team, BenchmarkDefinition, ResearchTask} :
       Insertion(row) /\ row.status \in {"ACTIVE", "PENDING"} /\ row.table \notin {"workspace", "workflow"}
  /\ \A i, j \in Ids : \A row \in {TeamMember(i, j), BenchmarkRun(i), ResearchFinding(i)} :
       Insertion(row) /\ row.status \in {"ACTIVE", "PENDING"} /\ row.table \notin {"workspace", "workflow"}
PROOF
  <1>1. /\ \A name \in Names : Insertion(Workspace(name)) /\ Workspace(name).status = "ACTIVE"
             /\ Workspace(name).table = "workspace" /\ Workspace(name).name = name
        /\ \A w \in Ids : \A name \in Names : Insertion(Workflow(w, name)) /\ Workflow(w, name).status = "DRAFT"
             /\ Workflow(w, name).table = "workflow" /\ Workflow(w, name).parents = {w}
    BY DEF Workspace, Workflow, Row, Insertion, RowType
  <1>2. \A row \in {Agent, Team, BenchmarkDefinition, ResearchTask} :
           Insertion(row) /\ row.status \in {"ACTIVE", "PENDING"} /\ row.table \notin {"workspace", "workflow"}
    <2>1. Insertion(Agent) /\ Agent.status = "ACTIVE" /\ Agent.table = "agent"
      BY DEF Agent, Row, Insertion, RowType
    <2>2. Insertion(Team) /\ Team.status = "ACTIVE" /\ Team.table = "team"
      BY DEF Team, Row, Insertion, RowType
    <2>3. Insertion(BenchmarkDefinition) /\ BenchmarkDefinition.status = "ACTIVE" /\ BenchmarkDefinition.table = "benchmark"
      BY DEF BenchmarkDefinition, Row, Insertion, RowType
    <2>4. Insertion(ResearchTask) /\ ResearchTask.status = "PENDING" /\ ResearchTask.table = "task"
      BY DEF ResearchTask, Row, Insertion, RowType
    <2> QED BY <2>1, <2>2, <2>3, <2>4
  <1>3. \A i, j \in Ids : \A row \in {TeamMember(i, j), BenchmarkRun(i), ResearchFinding(i)} :
           Insertion(row) /\ row.status \in {"ACTIVE", "PENDING"} /\ row.table \notin {"workspace", "workflow"}
    <2> SUFFICES ASSUME NEW i \in Ids, NEW j \in Ids
                 PROVE  \A row \in {TeamMember(i, j), BenchmarkRun(i), ResearchFinding(i)} :
                          Insertion(row) /\ row.status \in {"ACTIVE", "PENDING"} /\ row.table \notin {"workspace", "workflow"}
      OBVIOUS
    <2>1. Insertion(TeamMember(i, j)) /\ TeamMember(i, j).status = "ACTIVE" /\ TeamMember(i, j).table = "member"
      BY DEF TeamMember, Row, Insertion, RowType
    <2>2. Insertion(BenchmarkRun(i)) /\ BenchmarkRun(i).status = "PENDING" /\ BenchmarkRun(i).table = "run"
      BY DEF BenchmarkRun, Row, Insertion, RowType
    <2>3. Insertion(ResearchFinding(i)) /\ ResearchFinding(i).status = "ACTIVE" /\ ResearchFinding(i).table = "finding"
      BY DEF ResearchFinding, Row, Insertion, RowType
    <2> QED BY <2>1, <2>2, <2>3
  <1> QED BY <1>1, <1>2, <1>3

\* An UPDATE makes of the row as it was loaded what the whole columns would.
LEMMA SentColumns ==
  ASSUME NEW i, rows[i] \in RowType, NEW cols, DOMAIN cols \subseteq Columns
  PROVE  /\ DOMAIN Changed(i, cols) \subseteq DOMAIN cols
         /\ \A c \in DOMAIN Changed(i, cols) : Changed(i, cols)[c] = cols[c]
         /\ \A c \in DOMAIN cols \ DOMAIN Changed(i, cols) : cols[c] = rows[i][c]
         /\ Over(Changed(i, cols), rows[i]) = Over(cols, rows[i])
PROOF
  <1>1. DOMAIN rows[i] = Columns
    BY RowColumns
  <1>2. /\ DOMAIN Changed(i, cols) = {d \in DOMAIN cols : cols[d] # rows[i][d]}
        /\ \A c \in DOMAIN Changed(i, cols) : Changed(i, cols)[c] = cols[c]
    BY DEF Changed
  <1>3. \A c \in Columns : (IF c \in DOMAIN Changed(i, cols) THEN Changed(i, cols)[c] ELSE rows[i][c])
                           = (IF c \in DOMAIN cols THEN cols[c] ELSE rows[i][c])
    BY <1>2
  <1>4. Over(Changed(i, cols), rows[i]) = Over(cols, rows[i])
    BY <1>1, <1>3 DEF Over
  <1> QED BY <1>2, <1>4

LEMMA AskedUpdate ==
  ASSUME NEW s, NEW i \in Ids, rows[i] \in RowType, rows[i].table # "none", NEW cols, Fits(rows[i].table, cols),
         Update(s, i, cols),
         Is(i, "run") => RunTimed(Over(cols, rows[i])),
         Is(i, "task") => "ended" \in DOMAIN cols \/ cols["status"] = "RUNNING"
  PROVE  \E p : Begin(s, p) /\ WellAsked(p)
PROOF
  <1> DEFINE w == Changed(i, cols)
             p == Plan(i, w, {})
  <1>1. DOMAIN cols \subseteq Columns
    BY DEF Fits, Columns
  <1>2. /\ DOMAIN w \subseteq DOMAIN cols
        /\ \A c \in DOMAIN w : w[c] = cols[c]
        /\ \A c \in DOMAIN cols \ DOMAIN w : cols[c] = rows[i][c]
        /\ Over(w, rows[i]) = Over(cols, rows[i])
    BY <1>1, SentColumns
  <1> HIDE DEF w
  <1>3. Fits(rows[i].table, w)
    BY <1>2 DEF Fits
  <1>4. Is(i, "task") => TaskTimed(i, w)
    BY <1>2 DEF TaskTimed, Fits, IsEnd, Is
  <1>5. WellAsked(p)
    BY <1>2, <1>3, <1>4 DEF WellAsked, PlanOf, Plan, Changes
  <1> QED BY <1>5 DEF Update, w
LEMMA Requests ==
  ASSUME RowsInv, NEW s \in Sessions, Create(s) \/ Change(s)
  PROVE  \E p : Begin(s, p) /\ WellAsked(p)
PROOF
  <1>1. \A i \in Ids : rows[i] \in RowType
    BY DEF RowsInv
  <1>2. ASSUME NEW name \in Names, CreateWorkspace(s, name)
        PROVE  \E p : Begin(s, p) /\ WellAsked(p)
    BY <1>2, RowsMade, AskedInsert DEF CreateWorkspace, IsEnd
  <1>3. ASSUME NEW name \in Names, NEW w \in Ids, CreateWorkflow(s, w, name)
        PROVE  \E p : Begin(s, p) /\ WellAsked(p)
    <2>1. {w} \subseteq LiveOnes
      BY <1>3 DEF CreateWorkflow, LiveOnes
    <2> QED BY <1>3, <2>1, RowsMade, AskedInsert DEF CreateWorkflow, IsEnd
  <1>4. ASSUME NEW row, Insertion(row) /\ row.status \in {"ACTIVE", "PENDING"} /\ row.table \notin {"workspace", "workflow"},
               Insert(s, row)
        PROVE  \E p : Begin(s, p) /\ WellAsked(p)
    BY <1>4, AskedInsert DEF IsEnd
  <1>5. ASSUME CreateAgent(s) \/ CreateDefinition(s) \/ CreateTask(s)
        PROVE  \E p : Begin(s, p) /\ WellAsked(p)
    BY <1>4, <1>5, RowsMade DEF CreateAgent, CreateDefinition, CreateTask
  <1>6. ASSUME NEW i \in Ids, NEW j \in Ids, AddTeamMember(s, i, j) \/ CreateRun(s, i) \/ AddFinding(s, i)
        PROVE  \E p : Begin(s, p) /\ WellAsked(p)
    BY <1>4, <1>6, RowsMade DEF AddTeamMember, CreateRun, AddFinding
  <1>7. ASSUME NEW agents \in SUBSET Ids, CreateTeam(s, agents)
        PROVE  \E p : Begin(s, p) /\ WellAsked(p)
    <2>1. Insertion(Team) /\ Team.status \in {"ACTIVE", "PENDING"} /\ Team.table \notin {"workspace", "workflow"}
      BY RowsMade
    <2>2. WellAsked(Plan(NoId, Team, agents))
      BY <2>1 DEF WellAsked, PlanOf, Plan, IsEnd
    <2> QED BY <1>7, <2>2 DEF CreateTeam
  <1>8. Create(s) => \E p : Begin(s, p) /\ WellAsked(p)
    BY <1>2, <1>3, <1>5, <1>6, <1>7 DEF Create
  <1>9. ASSUME NEW i \in Ids, NEW name \in Names, UpdateWorkspace(s, i, name)
        PROVE  \E p : Begin(s, p) /\ WellAsked(p)
    <2>1. Is(i, "workspace")
      BY <1>9 DEF UpdateWorkspace, Live
    <2>2. Fits(rows[i].table, Renamed(name))
      BY <2>1 DEF Fits, Renamed, Is
    <2> QED BY <1>1, <1>9, <2>1, <2>2, AskedUpdate DEF UpdateWorkspace, Is
  <1>10. ASSUME NEW i \in Ids, DeleteWorkspace(s, i)
         PROVE  \E p : Begin(s, p) /\ WellAsked(p)
    <2>1. Is(i, "workspace")
      BY <1>10 DEF DeleteWorkspace, Live
    <2>2. Fits(rows[i].table, Deleted)
      BY <2>1 DEF Fits, Deleted, Is
    <2> QED BY <1>1, <1>10, <2>1, <2>2, AskedUpdate DEF DeleteWorkspace, Is
  <1>11. ASSUME NEW i \in Ids, RemoveTeamMember(s, i)
         PROVE  \E p : Begin(s, p) /\ WellAsked(p)
    <2>1. WellAsked(Plan(i, NoRow, {}))
      BY <1>11 DEF WellAsked, PlanOf, Plan, RemoveTeamMember, Changes, Removal, Is
    <2> QED BY <1>11, <2>1 DEF RemoveTeamMember
  <1>12. ASSUME NEW i \in Ids, StartRun(s, i)
         PROVE  \E p : Begin(s, p) /\ WellAsked(p)
    <2> DEFINE cols == [status |-> "RUNNING", started |-> TRUE]
    <2>1. Is(i, "run") /\ Update(s, i, cols)
      BY <1>12 DEF StartRun
    <2>2. DOMAIN cols = {"status", "started"} /\ cols["status"] = "RUNNING" /\ cols["started"] = TRUE
      OBVIOUS
    <2> HIDE DEF cols
    <2>3. Fits(rows[i].table, cols)
      BY <2>1, <2>2 DEF Fits, Is
    <2>4. RunTimed(Over(cols, rows[i]))
      BY <1>1, <2>2, OverColumns DEF RunTimed, IsEnd, Columns
    <2> QED BY <1>1, <2>1, <2>3, <2>4, AskedUpdate DEF Is
  <1>13. ASSUME NEW i \in Ids, Is(i, "run"), NEW status \in {"COMPLETED", "FAILED"}, Update(s, i, Ended(i, status))
         PROVE  \E p : Begin(s, p) /\ WellAsked(p)
    <2> DEFINE cols == Ended(i, status)
    <2>1. /\ DOMAIN cols = {"status", "timed"} /\ cols["status"] = status
          /\ cols["timed"] \in BOOLEAN /\ (rows[i].started => cols["timed"])
      BY <1>1, RowColumns DEF Ended
    <2> HIDE DEF cols
    <2>2. Fits(rows[i].table, cols)
      BY <1>13, <2>1 DEF Fits, Is
    <2>3. Over(cols, rows[i]).timed = cols["timed"] /\ Over(cols, rows[i]).started = rows[i].started
      BY <1>1, <2>1, OverColumns DEF Columns
    <2>4. RunTimed(Over(cols, rows[i]))
      BY <2>1, <2>3 DEF RunTimed
    <2> QED BY <1>1, <1>13, <2>2, <2>4, AskedUpdate DEF Is, cols
  <1>14. ASSUME NEW i \in Ids, CompleteRun(s, i) \/ FailRun(s, i)
         PROVE  \E p : Begin(s, p) /\ WellAsked(p)
    BY <1>13, <1>14 DEF CompleteRun, FailRun
  <1>15. ASSUME NEW i \in Ids, StartTask(s, i)
         PROVE  \E p : Begin(s, p) /\ WellAsked(p)
    <2> DEFINE cols == [status |-> "RUNNING"]
    <2>1. Is(i, "task") /\ Update(s, i, cols)
      BY <1>15 DEF StartTask
    <2>2. DOMAIN cols = {"status"} /\ cols["status"] = "RUNNING"
      OBVIOUS
    <2> HIDE DEF cols
    <2>3. Fits(rows[i].table, cols)
      BY <2>1, <2>2 DEF Fits, Is
    <2> QED BY <1>1, <2>1, <2>2, <2>3, AskedUpdate DEF Is
  <1>16. ASSUME NEW i \in Ids, Is(i, "task"), NEW status \in {"COMPLETED", "FAILED"},
                Update(s, i, [status |-> status, ended |-> TRUE])
         PROVE  \E p : Begin(s, p) /\ WellAsked(p)
    <2> DEFINE cols == [status |-> status, ended |-> TRUE]
    <2>1. DOMAIN cols = {"status", "ended"} /\ cols["status"] = status /\ cols["ended"] = TRUE
      OBVIOUS
    <2> HIDE DEF cols
    <2>2. Fits(rows[i].table, cols)
      BY <1>16, <2>1 DEF Fits, Is
    <2> QED BY <1>1, <1>16, <2>1, <2>2, AskedUpdate DEF Is, cols
  <1>17. ASSUME NEW i \in Ids, CompleteTask(s, i) \/ FailTask(s, i)
         PROVE  \E p : Begin(s, p) /\ WellAsked(p)
    BY <1>16, <1>17 DEF CompleteTask, FailTask
  <1>18. Change(s) => \E p : Begin(s, p) /\ WellAsked(p)
    BY <1>9, <1>10, <1>11, <1>12, <1>14, <1>15, <1>17 DEF Change
  <1> QED BY <1>8, <1>18
-----------------------------------------------------------------------------
(* A request begins *)

LEMMA BeginFrame ==
  ASSUME SessionsInv, HistoryInv, NEW s \in Sessions, NEW p, Begin(s, p)
  PROVE  /\ stage[s] = "idle" /\ stage'[s] = "flush" /\ plan'[s] = p /\ mine[s] = Nothing /\ plan[s].id = NoId
         /\ \A t \in Sessions \ {s} : stage'[t] = stage[t] /\ plan'[t] = plan[t] /\ saw'[t] = saw[t]
         /\ saw'[s] = LiveOnes
         /\ rows' = rows /\ mine' = mine /\ born' = born /\ migrated' = migrated
         /\ renamed' = renamed /\ context' = context /\ raced \subseteq raced'
         /\ DOMAIN mine[s] = {}
         /\ \A t \in Sessions \ {s} : \A i \in Ids : On(t, i)' <=> On(t, i)
         /\ \A i \in Ids : On(s, i)' <=> p.id = i
         /\ \A t \in Sessions : \A i \in Ids : SeenBy(t, i)' = SeenBy(t, i)
PROOF
  <1>1. stage[s] = "idle" /\ mine[s] = Nothing /\ plan[s].id = NoId
    BY DEF Begin, SessionsInv, SessionInv
  <1>2. DOMAIN mine[s] = {}
    BY <1>1 DEF Nothing
  <1>3. /\ rows' = rows /\ mine' = mine /\ born' = born /\ migrated' = migrated
        /\ renamed' = renamed /\ context' = context /\ raced \subseteq raced'
    BY DEF Begin
  <1>4. stage'[s] = "flush" /\ plan'[s] = p /\ \A t \in Sessions \ {s} : stage'[t] = stage[t] /\ plan'[t] = plan[t]
    BY DEF Begin, SessionsInv
  <1>5. (\A t \in Sessions \ {s} : saw'[t] = saw[t]) /\ saw'[s] = LiveOnes
    BY DEF Begin, HistoryInv
  <1>6. /\ \A t \in Sessions \ {s} : \A i \in Ids : On(t, i)' <=> On(t, i)
        /\ \A i \in Ids : On(s, i)' <=> p.id = i
    BY <1>2, <1>3, <1>4 DEF On
  <1>7. \A t \in Sessions : \A i \in Ids : SeenBy(t, i)' = SeenBy(t, i)
    BY <1>3 DEF SeenBy
  <1> QED BY <1>1, <1>2, <1>3, <1>4, <1>5, <1>6, <1>7

LEMMA BeginData ==
  ASSUME DataInv, NEW s \in Sessions, NEW p, Begin(s, p), WellAsked(p)
  PROVE  DataInv'
PROOF
  <1> USE DEF DataInv
  <1>1. RowsInv'
    BY BeginFrame DEF RowsInv, Tables
  <1>2. \A t \in Sessions \ {s} : SessionInv(t)'
    <2> SUFFICES ASSUME NEW t \in Sessions \ {s}
                 PROVE  SessionInv(t)'
      OBVIOUS
    <2>1. SessionInv(t) /\ stage'[t] = stage[t] /\ plan'[t] = plan[t] /\ mine' = mine /\ rows' = rows
      BY BeginFrame DEF SessionsInv
    <2>2. \A i \in Ids : (On(t, i)' <=> On(t, i)) /\ born'[i] = born[i]
      BY BeginFrame
    <2>3. Tables' = Tables
      BY BeginFrame DEF Tables
    <2> QED BY <2>1, <2>2, <2>3 DEF SessionInv, Changes, Removal
  <1>3. SessionInv(s)'
    <2>1. /\ plan'[s] = p /\ stage'[s] = "flush" /\ mine'[s] = Nothing /\ DOMAIN mine'[s] = {} /\ rows' = rows /\ born' = born
          /\ \A i \in Ids : On(s, i)' <=> p.id = i
      BY BeginFrame
    <2>2. \A i \in Ids : p.id = i => rows[i].table # "none" \/ p.id = NoId
      BY DEF WellAsked
    <2>3. \A i \in Ids : On(s, i)' => born'[i] # 0
      BY <2>1, <2>2, CatalogueAssumption DEF RowsInv
    <2>4. p.id = NoId => Insertion(p.write)
      BY CatalogueAssumption DEF WellAsked
    <2>5. p.id # NoId => p.members = {} /\ Changes(p.id, p.write)'
      BY <2>1, CatalogueAssumption DEF WellAsked, Changes, Removal
    <2>6. PlanOf(p) /\ p.id \in Ids \cup {NoId} /\ p.members \subseteq Ids
      BY DEF WellAsked
    <2> QED BY <2>1, <2>3, <2>4, <2>5, <2>6 DEF SessionInv, PlanOf
  <1>4. SessionsInv'
    <2>1. \A t \in Sessions : SessionInv(t)'
      BY <1>2, <1>3
    <2> QED BY <2>1 DEF SessionsInv, Begin
  <1>5. LocksInv'
    <2> SUFFICES ASSUME NEW t \in Sessions, NEW u \in Sessions, t # u
                 PROVE  /\ DOMAIN mine'[t] \cap DOMAIN mine'[u] = {}
                        /\ \A i \in Ids : On(t, i)' /\ On(u, i)' => i \in raced'
                        /\ \A i \in DOMAIN mine'[t] : Insertion(mine'[t][i]) => ~On(u, i)'
      BY DEF LocksInv, Insertion, RowType
    <2>1. mine' = mine /\ raced \subseteq raced'
      BY BeginFrame
    <2>2. ASSUME NEW v \in Sessions \ {s}, NEW i \in Ids, On(v, i)', On(s, i)'
          PROVE  i \in raced'
      <3>1. On(v, p.id) /\ p.id = i /\ p.id # NoId
        BY <2>2, BeginFrame, CatalogueAssumption
      <3> QED BY <3>1 DEF Begin
    <2>3. ASSUME NEW i \in Ids, On(t, i)', On(u, i)'
          PROVE  i \in raced'
      BY <2>1, <2>2, <2>3, BeginFrame DEF LocksInv
    <2>4. ASSUME NEW i \in DOMAIN mine'[t], Insertion(mine'[t][i])
          PROVE  ~On(u, i)'
      <3>1. i \in Ids /\ i \in DOMAIN mine[t] /\ t # s
        BY <2>1, <2>4, BeginFrame DEF SessionsInv, SessionInv
      <3>2. rows[i] = NoRow
        BY <3>1, <2>1, <2>4, Views
      <3>3. p.id # i
        BY <3>1, <3>2, CatalogueAssumption, NoRowType DEF WellAsked
      <3> QED BY <2>1, <2>4, <3>1, <3>3, BeginFrame DEF LocksInv
    <2> QED BY <2>1, <2>3, <2>4 DEF LocksInv
  <1>6. HistoryInv'
    <2>1. rows' = rows /\ saw'[s] = LiveOnes /\ \A t \in Sessions \ {s} : saw'[t] = saw[t]
      BY BeginFrame
    <2>2. \A t \in Sessions : \A i \in saw'[t] : Is(i, "workspace")'
      BY <2>1 DEF HistoryInv, Is, LiveOnes, Live
    <2>3. \A j \in Ids : \A i \in context'[j] : Is(i, "workspace")'
      BY <2>1, BeginFrame DEF HistoryInv, Is
    <2>4. saw' \in [Sessions -> SUBSET Ids]
      BY DEF HistoryInv, Begin, LiveOnes
    <2>5. served' \in 0 .. MaxServed /\ renamed' \subseteq Ids /\ context' \in [Ids -> SUBSET Ids]
      BY CatalogueAssumption DEF HistoryInv, Begin
    <2>6. raced' \subseteq Ids
      BY CatalogueAssumption DEF HistoryInv, Begin, WellAsked
    <2> QED BY <2>2, <2>3, <2>4, <2>5, <2>6 DEF HistoryInv
  <1> QED BY <1>1, <1>4, <1>5, <1>6
\* A step that leaves the client, the rows and their order leaves its reading.
LEMMA ReadingKept ==
  ASSUME RowsInv, ClientInv, client' = client, rows' = rows,
         \A j \in Ids : rows[j] # NoRow => born'[j] = born[j]
  PROVE  ClientInv'
PROOF
  <1>1. Held' = Held
    BY DEF Held, Listed
  <1>2. client.list.table # "none" => \A j \in Held : j \in Ids /\ born'[j] = born[j]
    BY NoRowType DEF Held, Listed
  <1>3. client.list.table # "none" => \A i \in Held : Newer(i)' = Newer(i)
    BY <1>1, <1>2 DEF Newer
  <1>4. /\ client' \in ClientType
        /\ client'.stage \in {"count", "page"} => client'.list.table # "none" /\ client'.page > 0
        /\ NothingSkipped'
    BY DEF ClientInv, NothingSkipped, ClientType
  <1>5. ASSUME client.stage \in {"count", "page"}, ~client.shrunk
        PROVE  /\ client.before \subseteq Held
               /\ \A i \in client.before \ client.seen : Cardinality(Newer(i)') >= (client.page - 1) * PerPage
               /\ client.stage = "page" /\ ~client.grew => client.total = Cardinality(Held)
    BY <1>3, <1>5 DEF ClientInv
  <1> QED BY <1>1, <1>4, <1>5 DEF ClientInv

LEMMA BeginKeeps ==
  ASSUME IInv, NEW s \in Sessions, NEW p, Begin(s, p), WellAsked(p)
  PROVE  UniqueInv' /\ AskedInv' /\ ParentsInv' /\ EndedInv' /\ ClientInv'
PROOF
  <1> USE DEF IInv, DataInv
  <1>0. /\ stage'[s] = "flush" /\ plan'[s] = p /\ DOMAIN mine[s] = {}
        /\ \A t \in Sessions \ {s} : stage'[t] = stage[t] /\ plan'[t] = plan[t] /\ saw'[t] = saw[t]
        /\ saw'[s] = LiveOnes
        /\ rows' = rows /\ mine' = mine /\ born' = born /\ migrated' = migrated
        /\ renamed' = renamed /\ context' = context /\ raced \subseteq raced'
        /\ \A t \in Sessions : \A i \in Ids : SeenBy(t, i)' = SeenBy(t, i)
    BY BeginFrame
  <1>d. \A t \in Sessions : DOMAIN mine[t] \subseteq Ids
    BY DEF SessionsInv, SessionInv
  <1>n. p.id = NoId \/ (p.id \in Ids /\ p.id # NoId)
    BY CatalogueAssumption DEF WellAsked
  <1>w. p.id = NoId => /\ ~IsEnd(p.write.status)
                       /\ p.write.table = "workflow" => p.write.parents \subseteq LiveOnes
    BY CatalogueAssumption DEF WellAsked
  <1>1. UniqueInv'
    BY <1>0 DEF UniqueInv, Alike
  <1>2. AskedInv'
    <2>1. \A ws, name : StillFree(ws, name)' <=> StillFree(ws, name)
      BY <1>0 DEF StillFree, Live, Is
    <2>2. p.id = NoId /\ p.write.table = "workspace" => StillFree(LiveOnes, p.write.name)
      BY CatalogueAssumption DEF WellAsked, NameFree, StillFree
    <2>3. ASSUME NEW t \in Sessions, stage'[t] = "flush", plan'[t].id = NoId, plan'[t].write.table = "workspace"
          PROVE  StillFree(saw[t], plan[t].write.name)'
      BY <1>0, <2>1, <2>2, <2>3 DEF AskedInv
    <2>4. ASSUME NEW t \in Sessions, NEW j \in DOMAIN mine'[t], rows'[j] = NoRow, SeenBy(t, j)'.table = "workspace"
          PROVE  StillFree(context[j], SeenBy(t, j).name)'
      BY <1>0, <1>d, <2>1, <2>4 DEF AskedInv
    <2>5. ASSUME NEW j \in Ids, Live(j)', j \notin renamed'
          PROVE  StillFree(context[j], rows[j].name)'
      BY <1>0, <2>1, <2>5 DEF AskedInv, Live, Is
    <2> QED BY <2>3, <2>4, <2>5 DEF AskedInv, StillFree
  <1>3. ParentsInv'
    <2>1. ASSUME NEW i \in Ids, rows'[i] # NoRow
          PROVE  /\ {rows'[q].table : q \in rows'[i].parents} = References(rows'[i].table)
                 /\ rows'[i].table = "workflow" => rows'[i].parents \subseteq context'[i]
      BY <1>0, <2>1 DEF ParentsInv
    <2>2. ASSUME NEW t \in Sessions, NEW i \in DOMAIN mine'[t], SeenBy(t, i)' # NoRow
          PROVE  /\ {SeenBy(t, q)'.table : q \in SeenBy(t, i)'.parents} = References(SeenBy(t, i)'.table)
                 /\ SeenBy(t, i)'.table = "workflow" => SeenBy(t, i)'.parents \subseteq context'[i]
      <3>1. i \in Ids /\ i \in DOMAIN mine[t] /\ SeenBy(t, i)' = SeenBy(t, i)
        BY <1>0, <1>d, <2>2
      <3>2. SeenBy(t, i).parents \subseteq Ids
        BY <3>1, Views, RowColumns
      <3>3. {SeenBy(t, q)'.table : q \in SeenBy(t, i).parents} = {SeenBy(t, q).table : q \in SeenBy(t, i).parents}
        BY <1>0, <3>2
      <3> QED BY <1>0, <2>2, <3>1, <3>3 DEF ParentsInv
    <2>3. ASSUME NEW t \in Sessions, stage'[t] = "flush", plan'[t].id = NoId, plan'[t].write.table = "workflow"
          PROVE  plan'[t].write.parents \subseteq saw'[t]
      BY <1>0, <1>w, <2>3 DEF ParentsInv
    <2> QED BY <2>1, <2>2, <2>3 DEF ParentsInv, NoRow, Row, References
  <1>4. EndedInv'
    <2>1. ASSUME NEW i \in Ids
          PROVE  /\ Is(i, "run")' /\ i \notin raced' => RunTimed(rows'[i])
                 /\ Is(i, "task")' /\ IsEnd(rows'[i].status) => rows'[i].ended
      BY <1>0 DEF EndedInv, Is
    <2>2. ASSUME NEW t \in Sessions, NEW i \in DOMAIN mine'[t]
          PROVE  /\ SeenBy(t, i)'.table = "run" /\ i \notin raced' => RunTimed(SeenBy(t, i)')
                 /\ Is(i, "task")' => TaskTimed(i, mine[t][i])'
                 /\ rows'[i] = NoRow => ~IsEnd(SeenBy(t, i)'.status)
      BY <1>0, <1>d DEF EndedInv, Is, TaskTimed
    <2>3. ASSUME NEW t \in Sessions, stage'[t] = "flush", plan'[t].id # NoId
          PROVE  /\ Is(plan[t].id, "run")' /\ plan'[t].id \notin raced' => RunTimed(Over(plan'[t].write, rows'[plan'[t].id]))
                 /\ Is(plan[t].id, "task")' => TaskTimed(plan[t].id, plan[t].write)'
      BY <1>0, <1>n, <2>3 DEF EndedInv, Is, TaskTimed, WellAsked
    <2>4. ASSUME NEW t \in Sessions, stage'[t] = "flush", plan'[t].id = NoId
          PROVE  ~IsEnd(plan'[t].write.status)
      BY <1>0, <1>w, <2>4 DEF EndedInv
    <2> QED BY <2>1, <2>2, <2>3, <2>4 DEF EndedInv, IsEnd, RunTimed, NoRow, Row
  <1>5. ClientInv'
    <2>1. client' = client
      BY DEF Begin
    <2> QED BY <1>0, <2>1, ReadingKept
  <1> QED BY <1>1, <1>2, <1>3, <1>4, <1>5
-----------------------------------------------------------------------------
(* A write is flushed *)

\* What the three flushes have in common: session s writes w for row i.
Flushes(s, i, w) ==
  /\ i \in Ids
  /\ rows' = rows /\ migrated' = migrated /\ client' = client
  /\ served' = served /\ saw' = saw /\ renamed' = renamed /\ raced' = raced
  /\ mine' = [mine EXCEPT ![s] = Put(mine[s], i, w)]
  /\ stage' \in [Sessions -> {"idle", "flush", "members", "commit"}] /\ stage'[s] \in {"members", "commit"}
  /\ DOMAIN plan' = Sessions /\ plan' = [t \in Sessions |-> plan'[t]]
  /\ PlanOf(plan'[s]) /\ plan'[s].members \subseteq Ids /\ plan'[s].id \in DOMAIN mine[s] \cup {i}
  /\ \A t \in Sessions \ {s} : stage'[t] = stage[t] /\ plan'[t] = plan[t] /\ i \notin DOMAIN mine[t]
  /\ born' \in [Ids -> 0 .. Cardinality(Ids)] /\ born'[i] # 0
  /\ \A j \in Ids : born[j] # 0 => born'[j] = born[j]
  /\ context' \in [Ids -> SUBSET Ids] /\ context'[i] \in {context[i], saw[s]}
  /\ \A j \in Ids \ {i} : context'[j] = context[j]
  /\ \/ /\ Insertion(w) /\ w.table \in Tables /\ ~IsEnd(w.status) /\ rows[i] = NoRow /\ born[i] = 0
        /\ w.table = "workspace" => StillFree(context'[i], w.name)
        /\ w.table = "workflow" => w.parents \subseteq context'[i]
        /\ Allowed(s, i, w)
     \/ /\ Changes(i, w) /\ ~Insertion(w) /\ On(s, i) /\ mine[s] = Nothing /\ context' = context
        /\ w # NoRow => Allowed(s, i, Over(w, rows[i]))
        /\ Is(i, "run") /\ i \notin raced => RunTimed(Over(w, rows[i]))
        /\ Is(i, "task") => TaskTimed(i, w)

LEMMA DrawNew ==
  ASSUME DataInv, NEW i \in Ids, Draw(i)
  PROVE  /\ rows[i] = NoRow /\ born[i] = 0
         /\ \A t \in Sessions : ~On(t, i) /\ i \notin DOMAIN mine[t]
         /\ born' \in [Ids -> 0 .. Cardinality(Ids)] /\ born'[i] # 0
         /\ \A j \in Ids : born[j] # 0 => born'[j] = born[j]
PROOF
  <1> USE DEF DataInv
  <1> DEFINE B == {j \in Ids : born[j] # 0}
  <1>1. rows[i] = NoRow /\ born[i] = 0 /\ born' = [born EXCEPT ![i] = 1 + Cardinality(B)]
    BY DEF Draw
  <1>2. IsFiniteSet(Ids) /\ IsFiniteSet(Ids \ {i}) /\ Cardinality(Ids \ {i}) = Cardinality(Ids) - 1 /\ Cardinality(Ids) \in Nat
    BY CatalogueAssumption, FS_RemoveElement, FS_CardinalityType
  <1>3. B \subseteq Ids \ {i}
    BY <1>1
  <1> HIDE DEF B
  <1>4. Cardinality(B) \in Nat /\ Cardinality(B) <= Cardinality(Ids) - 1
    BY <1>2, <1>3, FS_Subset, FS_CardinalityType
  <1>5. born' \in [Ids -> 0 .. Cardinality(Ids)] /\ born'[i] # 0
    BY <1>1, <1>2, <1>4 DEF RowsInv
  <1>6. \A j \in Ids : born[j] # 0 => born'[j] = born[j]
    BY <1>1 DEF RowsInv
  <1>7. \A t \in Sessions : ~On(t, i) /\ i \notin DOMAIN mine[t]
    BY <1>1 DEF SessionsInv, SessionInv, On
  <1> QED BY <1>1, <1>5, <1>6, <1>7

LEMMA InsertFlushes ==
  ASSUME IInv, NEW s \in Sessions, NEW i \in Ids, FlushInsert(s, i)
  PROVE  Flushes(s, i, plan[s].write)
PROOF
  <1> USE DEF IInv, DataInv
  <1> DEFINE w == plan[s].write
  <1>1. SessionInv(s) /\ stage[s] = "flush" /\ plan[s].id = NoId /\ Draw(i) /\ Allowed(s, i, w)
    BY DEF SessionsInv, FlushInsert
  <1>2. /\ rows[i] = NoRow /\ born[i] = 0
        /\ \A t \in Sessions : ~On(t, i) /\ i \notin DOMAIN mine[t]
        /\ born' \in [Ids -> 0 .. Cardinality(Ids)] /\ born'[i] # 0
        /\ \A j \in Ids : born[j] # 0 => born'[j] = born[j]
    BY <1>1, DrawNew
  <1>3. mine[s] = Nothing /\ Insertion(w)
    BY <1>1 DEF SessionInv
  <1>4. mine' = [mine EXCEPT ![s] = Put(mine[s], i, w)]
    BY <1>3 DEF FlushInsert
  <1>5. context' = [context EXCEPT ![i] = saw[s]] /\ saw[s] \subseteq Ids
    BY DEF FlushInsert, HistoryInv
  <1>6. context' \in [Ids -> SUBSET Ids] /\ context'[i] = saw[s] /\ \A j \in Ids \ {i} : context'[j] = context[j]
    BY <1>5 DEF HistoryInv
  <1>7. plan[s] = [id |-> NoId, write |-> w, members |-> plan[s].members] /\ plan[s].members \subseteq Ids
    BY <1>1 DEF SessionInv, PlanOf, Plan
  <1>8. plan' = [plan EXCEPT ![s] = [@ EXCEPT !.id = i]]
    BY DEF FlushInsert
  <1>9. plan'[s] = [id |-> i, write |-> w, members |-> plan[s].members]
    BY <1>7, <1>8 DEF SessionsInv
  <1>10. /\ DOMAIN plan' = Sessions /\ plan' = [t \in Sessions |-> plan'[t]]
         /\ \A t \in Sessions \ {s} : plan'[t] = plan[t]
    BY <1>8 DEF SessionsInv
  <1>11. PlanOf(plan'[s]) /\ plan'[s].members \subseteq Ids /\ plan'[s].id = i
    BY <1>7, <1>9 DEF PlanOf, Plan
  <1>12. /\ stage' \in [Sessions -> {"idle", "flush", "members", "commit"}] /\ stage'[s] \in {"members", "commit"}
         /\ \A t \in Sessions \ {s} : stage'[t] = stage[t]
    BY DEF FlushInsert, SessionsInv
  <1>13. ~IsEnd(w.status) /\ w.table \in Tables
    BY <1>1 DEF EndedInv, Allowed
  <1>14. /\ w.table = "workspace" => StillFree(saw[s], w.name)
         /\ w.table = "workflow" => w.parents \subseteq saw[s]
    BY <1>1 DEF AskedInv, ParentsInv
  <1>15. /\ rows' = rows /\ migrated' = migrated /\ client' = client
         /\ served' = served /\ saw' = saw /\ renamed' = renamed /\ raced' = raced
    BY DEF FlushInsert
  <1> QED BY <1>1, <1>2, <1>3, <1>4, <1>6, <1>10, <1>11, <1>12, <1>13, <1>14, <1>15 DEF Flushes

LEMMA MemberFlushes ==
  ASSUME IInv, NEW s \in Sessions, NEW i \in Ids, NEW agent \in Ids, FlushMember(s, i, agent)
  PROVE  Flushes(s, i, TeamMember(plan[s].id, agent))
PROOF
  <1> USE DEF IInv, DataInv
  <1> DEFINE w == TeamMember(plan[s].id, agent)
  <1>1. SessionInv(s) /\ stage[s] = "members" /\ Draw(i) /\ Allowed(s, i, w)
    BY DEF SessionsInv, FlushMember
  <1>2. /\ rows[i] = NoRow /\ born[i] = 0
        /\ \A t \in Sessions : ~On(t, i) /\ i \notin DOMAIN mine[t]
        /\ born' \in [Ids -> 0 .. Cardinality(Ids)] /\ born'[i] # 0
        /\ \A j \in Ids : born[j] # 0 => born'[j] = born[j]
    BY <1>1, DrawNew
  <1>3. plan[s].id \in DOMAIN mine[s] /\ plan[s].id \in Ids
    BY <1>1 DEF SessionInv
  <1>4. Insertion(w) /\ w.status \in {"ACTIVE", "PENDING"} /\ w.table \notin {"workspace", "workflow"}
    BY <1>3, RowsMade
  <1>5. mine' = [mine EXCEPT ![s] = Put(mine[s], i, w)] /\ context' = context
    BY DEF FlushMember, history
  <1>6. context' \in [Ids -> SUBSET Ids] /\ context'[i] = context[i] /\ \A j \in Ids \ {i} : context'[j] = context[j]
    BY <1>5 DEF HistoryInv
  <1>7. plan[s] = [id |-> plan[s].id, write |-> plan[s].write, members |-> plan[s].members] /\ plan[s].members \subseteq Ids
    BY <1>1 DEF SessionInv, PlanOf, Plan
  <1>8. plan' = [plan EXCEPT ![s] = [@ EXCEPT !.members = plan[s].members \ {agent}]]
    BY DEF FlushMember
  <1>9. plan'[s] = [id |-> plan[s].id, write |-> plan[s].write, members |-> plan[s].members \ {agent}]
    BY <1>7, <1>8 DEF SessionsInv
  <1>10. /\ DOMAIN plan' = Sessions /\ plan' = [t \in Sessions |-> plan'[t]]
         /\ \A t \in Sessions \ {s} : plan'[t] = plan[t]
    BY <1>8 DEF SessionsInv
  <1>11. PlanOf(plan'[s]) /\ plan'[s].members \subseteq Ids /\ plan'[s].id \in DOMAIN mine[s]
    BY <1>3, <1>7, <1>9 DEF PlanOf, Plan
  <1>12. /\ stage' \in [Sessions -> {"idle", "flush", "members", "commit"}] /\ stage'[s] \in {"members", "commit"}
         /\ \A t \in Sessions \ {s} : stage'[t] = stage[t]
    BY DEF FlushMember, SessionsInv
  <1>13. w.table \in Tables /\ ~IsEnd(w.status)
    BY <1>1, <1>4 DEF Allowed, IsEnd
  <1>14. /\ rows' = rows /\ migrated' = migrated /\ client' = client
         /\ served' = served /\ saw' = saw /\ renamed' = renamed /\ raced' = raced
    BY DEF FlushMember, history
  <1> QED BY <1>1, <1>2, <1>4, <1>5, <1>6, <1>10, <1>11, <1>12, <1>13, <1>14 DEF Flushes

LEMMA UpdateFlushes ==
  ASSUME IInv, NEW s \in Sessions, FlushUpdate(s)
  PROVE  Flushes(s, plan[s].id, plan[s].write)
PROOF
  <1> USE DEF IInv, DataInv
  <1> DEFINE i == plan[s].id
             w == plan[s].write
  <1>1. SessionInv(s) /\ stage[s] = "flush" /\ i # NoId /\ Unlocked(s, i) /\ (w # NoRow => Allowed(s, i, Over(w, rows[i])))
    BY DEF SessionsInv, FlushUpdate
  <1>2. i \in Ids /\ mine[s] = Nothing /\ Changes(i, w) /\ PlanOf(plan[s]) /\ plan[s].members \subseteq Ids
    BY <1>1 DEF SessionInv
  <1>3. On(s, i) /\ born[i] # 0
    BY <1>1, <1>2 DEF On, SessionInv
  <1>4. ~Insertion(w)
    <2>1. ASSUME Fits(rows[i].table, w)
          PROVE  "table" \notin DOMAIN w
      BY <2>1 DEF Fits
    <2> QED BY <1>2, <2>1, NoRowType, RowColumns DEF Changes, Removal, Insertion, Columns
  <1>5. mine' = [mine EXCEPT ![s] = Put(mine[s], i, w)] /\ context' = context /\ born' = born /\ plan' = plan
    BY <1>2 DEF FlushUpdate, history
  <1>6. /\ stage' \in [Sessions -> {"idle", "flush", "members", "commit"}] /\ stage'[s] \in {"members", "commit"}
        /\ \A t \in Sessions \ {s} : stage'[t] = stage[t]
    BY DEF FlushUpdate, SessionsInv
  <1>7. /\ rows' = rows /\ migrated' = migrated /\ client' = client
        /\ served' = served /\ saw' = saw /\ renamed' = renamed /\ raced' = raced
    BY DEF FlushUpdate, history
  <1>8. /\ Is(i, "run") /\ i \notin raced => RunTimed(Over(w, rows[i]))
        /\ Is(i, "task") => TaskTimed(i, w)
    BY <1>1 DEF EndedInv
  <1>9. \A t \in Sessions \ {s} : i \notin DOMAIN mine[t]
    BY <1>1 DEF Unlocked
  <1>10. born' \in [Ids -> 0 .. Cardinality(Ids)] /\ context' \in [Ids -> SUBSET Ids]
    BY <1>5 DEF RowsInv, HistoryInv
  <1>11. DOMAIN plan' = Sessions /\ plan' = [t \in Sessions |-> plan'[t]]
    BY <1>5 DEF SessionsInv
  <1> HIDE DEF i, w
  <1> QED BY <1>1, <1>2, <1>3, <1>4, <1>5, <1>6, <1>7, <1>8, <1>9, <1>10, <1>11 DEF Flushes, i, w
LEMMA FlushViews ==
  ASSUME SessionsInv, NEW s \in Sessions, NEW i, NEW w, Flushes(s, i, w)
  PROVE  /\ DOMAIN mine'[s] = DOMAIN mine[s] \cup {i} /\ mine'[s][i] = w
         /\ \A j \in DOMAIN mine[s] : j # i => mine'[s][j] = mine[s][j]
         /\ \A t \in Sessions \ {s} : mine'[t] = mine[t]
         /\ SeenBy(s, i)' = Over(w, rows[i])
         /\ \A t \in Sessions : \A j \in Ids : t # s \/ j # i => SeenBy(t, j)' = SeenBy(t, j)
PROOF
  <1>1. mine'[s] = Put(mine[s], i, w) /\ \A t \in Sessions \ {s} : mine'[t] = mine[t]
    BY DEF Flushes, SessionsInv
  <1>2. /\ DOMAIN mine'[s] = DOMAIN mine[s] \cup {i} /\ mine'[s][i] = w
        /\ \A j \in DOMAIN mine[s] : j # i => mine'[s][j] = mine[s][j]
    BY <1>1, Zenon DEF Put
  <1>3. rows' = rows
    BY DEF Flushes
  <1> QED BY <1>1, <1>2, <1>3 DEF SeenBy

LEMMA FlushData ==
  ASSUME DataInv, NEW s \in Sessions, NEW i, NEW w, Flushes(s, i, w)
  PROVE  DataInv'
PROOF
  <1> USE DEF DataInv
  <1>0. /\ i \in Ids /\ rows' = rows /\ migrated' = migrated
        /\ served' = served /\ saw' = saw /\ renamed' = renamed /\ raced' = raced
        /\ stage' \in [Sessions -> {"idle", "flush", "members", "commit"}] /\ stage'[s] \in {"members", "commit"}
        /\ DOMAIN plan' = Sessions /\ plan' = [t \in Sessions |-> plan'[t]]
        /\ PlanOf(plan'[s]) /\ plan'[s].members \subseteq Ids /\ plan'[s].id \in DOMAIN mine[s] \cup {i}
        /\ \A t \in Sessions \ {s} : stage'[t] = stage[t] /\ plan'[t] = plan[t] /\ i \notin DOMAIN mine[t]
        /\ born' \in [Ids -> 0 .. Cardinality(Ids)] /\ born'[i] # 0
        /\ \A j \in Ids : born[j] # 0 => born'[j] = born[j]
        /\ context' \in [Ids -> SUBSET Ids] /\ context'[i] \in {context[i], saw[s]}
        /\ \A j \in Ids \ {i} : context'[j] = context[j]
    BY DEF Flushes
  <1>1. \/ Insertion(w) /\ w.table \in Tables /\ rows[i] = NoRow /\ born[i] = 0
        \/ Changes(i, w) /\ ~Insertion(w) /\ On(s, i)
    BY DEF Flushes
  <1>2. /\ DOMAIN mine'[s] = DOMAIN mine[s] \cup {i} /\ mine'[s][i] = w
        /\ \A j \in DOMAIN mine[s] : j # i => mine'[s][j] = mine[s][j]
        /\ \A t \in Sessions \ {s} : mine'[t] = mine[t]
    BY FlushViews
  <1>3. RowsInv'
    BY <1>0 DEF RowsInv, Tables
  <1>4. Tables' = Tables /\ \A j, v : Changes(j, v)' <=> Changes(j, v)
    BY <1>0 DEF Tables, Changes, Removal
  <1>5. \A t \in Sessions : DOMAIN mine[t] \subseteq Ids /\ SessionInv(t)
    BY DEF SessionsInv, SessionInv
  <1>6. \A t \in Sessions \ {s} : \A j \in Ids : On(t, j)' <=> On(t, j)
    BY <1>0, <1>2 DEF On
  <1>7. \A j \in Ids : On(s, j)' => On(s, j) \/ j = i
    BY <1>0, <1>2, <1>5 DEF On
  <1>8. \A t \in Sessions \ {s} : SessionInv(t)'
    <2> SUFFICES ASSUME NEW t \in Sessions \ {s}
                 PROVE  SessionInv(t)'
      OBVIOUS
    <2>1. SessionInv(t) /\ stage'[t] = stage[t] /\ plan'[t] = plan[t] /\ mine'[t] = mine[t] /\ rows' = rows
      BY <1>0, <1>2, <1>5
    <2>2. \A j \in Ids : On(t, j)' => born'[j] # 0
      BY <1>0, <1>6, <2>1 DEF SessionInv
    <2> QED BY <1>4, <2>1, <2>2 DEF SessionInv
  <1>9. SessionInv(s)'
    <2>1. \A j \in DOMAIN mine'[s] :
             \/ rows'[j] = NoRow /\ Insertion(mine'[s][j]) /\ mine'[s][j].table \in Tables'
             \/ Changes(j, mine[s][j])'
      <3> SUFFICES ASSUME NEW j \in DOMAIN mine'[s]
                   PROVE  \/ rows'[j] = NoRow /\ Insertion(mine'[s][j]) /\ mine'[s][j].table \in Tables'
                          \/ Changes(j, mine'[s][j])
        BY <1>0 DEF Changes, Removal
      <3>1. CASE j = i
        BY <1>0, <1>1, <1>2, <1>4, <3>1
      <3>2. CASE j # i
        BY <1>0, <1>2, <1>4, <1>5, <3>2 DEF SessionInv
      <3> QED BY <3>1, <3>2
    <2>2. \A j \in Ids : On(s, j)' => born'[j] # 0
      BY <1>0, <1>5, <1>7 DEF SessionInv
    <2>3. DOMAIN mine'[s] \subseteq Ids /\ plan'[s].id \in DOMAIN mine'[s]
      BY <1>0, <1>2, <1>5
    <2> QED BY <1>0, <2>1, <2>2, <2>3 DEF SessionInv, PlanOf, Insertion, RowType, NoRow, Row
  <1>10. SessionsInv'
    <2>1. DOMAIN mine' = Sessions /\ mine' = [t \in Sessions |-> mine'[t]]
      BY DEF Flushes, SessionsInv
    <2> QED BY <1>0, <1>8, <1>9, <2>1 DEF SessionsInv
  <1>11. LocksInv'
    <2> SUFFICES ASSUME NEW t \in Sessions, NEW u \in Sessions, t # u
                 PROVE  /\ DOMAIN mine'[t] \cap DOMAIN mine'[u] = {}
                        /\ \A j \in Ids : On(t, j)' /\ On(u, j)' => j \in raced'
                        /\ \A j \in DOMAIN mine'[t] : Insertion(mine'[t][j]) => ~On(u, j)'
      BY DEF LocksInv, Insertion, RowType
    <2>1. DOMAIN mine'[t] \cap DOMAIN mine'[u] = {}
      BY <1>0, <1>2 DEF LocksInv
    <2>2. On(s, i) \/ \A v \in Sessions : ~On(v, i)
      BY <1>0, <1>1, <1>5 DEF SessionInv
    <2>3. ASSUME NEW j \in Ids, On(t, j)', On(u, j)'
          PROVE  j \in raced'
      BY <1>0, <1>6, <1>7, <2>2, <2>3 DEF LocksInv
    <2>4. ASSUME NEW j \in DOMAIN mine'[t], Insertion(mine'[t][j])
          PROVE  ~On(u, j)'
      <3>1. j \in Ids
        BY <1>0, <1>2, <1>5, <2>4
      <3>2. CASE t # s
        <4>1. ~On(u, j) /\ j \in DOMAIN mine[t]
          BY <1>2, <2>4, <3>2 DEF LocksInv
        <4>2. j # i
          BY <1>0, <4>1, <3>2
        <4> QED BY <1>6, <1>7, <3>1, <4>1, <4>2
      <3>3. CASE t = s /\ j # i
        BY <1>2, <1>6, <2>4, <3>1, <3>3 DEF LocksInv
      <3>4. CASE t = s /\ j = i
        <4>1. born[i] = 0
          BY <1>1, <1>2, <2>4, <3>4
        <4> QED BY <1>0, <1>5, <1>6, <3>4, <4>1 DEF SessionInv
      <3> QED BY <3>2, <3>3, <3>4
    <2> QED BY <2>1, <2>3, <2>4
  <1>12. HistoryInv'
    BY <1>0 DEF HistoryInv, Is
  <1> QED BY <1>3, <1>10, <1>11, <1>12

LEMMA FlushUnique ==
  ASSUME DataInv, UniqueInv, NEW s \in Sessions, NEW i, NEW w, Flushes(s, i, w)
  PROVE  UniqueInv'
PROOF
  <1> SUFFICES ASSUME ~migrated, NEW j \in Ids, NEW k \in Ids, j # k
               PROVE  /\ ~Alike(rows'[j], rows'[k])
                      /\ \A t \in Sessions : ~Alike(SeenBy(t, j)', rows'[k])
                      /\ \A t, u \in Sessions : ~Alike(SeenBy(t, j)', SeenBy(u, k)')
    BY DEF UniqueInv, Flushes, Alike
  <1> DEFINE r == Over(w, rows[i])
  <1>0. i \in Ids /\ rows' = rows
    BY DEF Flushes
  <1>1. i \in Ids /\ rows' = rows /\ SeenBy(s, i)' = r
    BY <1>0, FlushViews DEF DataInv
  <1>2. \A v \in Sessions : \A l \in Ids : v # s \/ l # i => SeenBy(v, l)' = SeenBy(v, l)
    BY FlushViews DEF DataInv
  <1>3. r = NoRow \/ Allowed(s, i, r)
    <2>1. rows[i] \in RowType
      BY <1>1 DEF DataInv, RowsInv
    <2>2. Insertion(w) => r = w
      BY <2>1, OverRow DEF Insertion
    <2>3. w = NoRow => r = NoRow
      BY <2>1, OverRow, NoRowType
    <2> QED BY <2>2, <2>3 DEF Flushes
  <1> HIDE DEF r
  <1>4. \A l \in Ids \ {i} : ~Alike(r, rows[l]) /\ \A v \in Sessions : ~Alike(r, SeenBy(v, l))
    BY <1>3, NoRowType DEF Allowed, Alike
  <1>5. \A q, z : Alike(q, z) <=> Alike(z, q)
    BY DEF Alike
  <1> QED BY <1>1, <1>2, <1>4, <1>5 DEF UniqueInv
\* No table refers to itself, or to rows that are not there or may be removed.
LEMMA ReferTo ==
  ASSUME NEW table
  PROVE  /\ table \notin References(table)
         /\ References(table) \cap {"none", "member"} = {}
PROOF
  BY DEF References

LEMMA FlushedRow ==
  ASSUME DataInv, NEW s \in Sessions, NEW i, NEW w, Flushes(s, i, w)
  PROVE  /\ SeenBy(s, i)' = Over(w, rows[i]) /\ Over(w, rows[i]) \in RowType
         /\ Insertion(w) => Over(w, rows[i]) = w /\ rows[i] = NoRow
         /\ ~Insertion(w) => \/ w = NoRow /\ Over(w, rows[i]) = NoRow
                             \/ /\ Over(w, rows[i]).table = rows[i].table /\ Over(w, rows[i]).parents = rows[i].parents
                                /\ rows[i].table \in {"workspace", "run", "task"} /\ Allowed(s, i, Over(w, rows[i]))
PROOF
  <1>1. i \in Ids
    BY DEF Flushes
  <1>2. rows[i] \in RowType
    BY <1>1 DEF DataInv, RowsInv
  <1>3. SeenBy(s, i)' = Over(w, rows[i])
    BY FlushViews DEF DataInv
  <1>4. CASE Insertion(w)
    <2>1. Over(w, rows[i]) = w /\ w \in RowType
      BY <1>2, <1>4, OverRow DEF Insertion
    <2>2. rows[i] = NoRow
      BY <1>4 DEF Flushes
    <2> QED BY <1>3, <1>4, <2>1, <2>2
  <1>5. CASE ~Insertion(w)
    <2>1. Changes(i, w) /\ (w # NoRow => Allowed(s, i, Over(w, rows[i])))
      BY <1>5 DEF Flushes
    <2>2. CASE w = NoRow
      BY <1>2, <1>3, <1>5, <2>2, OverRow, NoRowType
    <2>3. CASE w # NoRow
      <3>1. Fits(rows[i].table, w)
        BY <2>1, <2>3 DEF Changes, Removal
      <3> QED BY <1>2, <1>3, <1>5, <2>1, <2>3, <3>1, OverFits
    <2> QED BY <2>2, <2>3
  <1> QED BY <1>4, <1>5

LEMMA FlushAsked ==
  ASSUME DataInv, AskedInv, NEW s \in Sessions, NEW i, NEW w, Flushes(s, i, w)
  PROVE  AskedInv'
PROOF
  <1>0. /\ i \in Ids /\ rows' = rows /\ renamed' = renamed /\ saw' = saw /\ stage'[s] # "flush"
        /\ \A t \in Sessions \ {s} : stage'[t] = stage[t] /\ plan'[t] = plan[t]
        /\ \A j \in Ids \ {i} : context'[j] = context[j]
        /\ rows[i] # NoRow => context'[i] = context[i]
        /\ Insertion(w) /\ w.table = "workspace" => StillFree(context'[i], w.name)
        /\ \A t \in Sessions \ {s} : i \notin DOMAIN mine[t]
    BY DEF Flushes
  <1>1. \A ws, name : StillFree(ws, name)' <=> StillFree(ws, name)
    BY <1>0 DEF StillFree, Live, Is
  <1>2. /\ DOMAIN mine'[s] = DOMAIN mine[s] \cup {i}
        /\ \A t \in Sessions \ {s} : mine'[t] = mine[t]
        /\ \A t \in Sessions : \A j \in Ids : t # s \/ j # i => SeenBy(t, j)' = SeenBy(t, j)
    BY FlushViews DEF DataInv
  <1>3. \A t \in Sessions : DOMAIN mine[t] \subseteq Ids
    BY DEF DataInv, SessionsInv, SessionInv
  <1>4. ASSUME NEW t \in Sessions, stage'[t] = "flush", plan'[t].id = NoId, plan'[t].write.table = "workspace"
        PROVE  StillFree(saw[t], plan[t].write.name)'
    BY <1>0, <1>1, <1>4 DEF AskedInv
  <1>5. ASSUME NEW t \in Sessions, NEW j \in DOMAIN mine'[t], rows'[j] = NoRow, SeenBy(t, j)'.table = "workspace"
        PROVE  StillFree(context[j], SeenBy(t, j).name)'
    <2>1. CASE t # s \/ j # i
      BY <1>0, <1>1, <1>2, <1>3, <1>5, <2>1 DEF AskedInv
    <2>2. CASE t = s /\ j = i
      <3>1. Insertion(w) /\ SeenBy(s, i)' = w
        BY <1>0, <1>5, <2>2, FlushedRow, NoRowType
      <3> QED BY <1>0, <1>1, <1>5, <2>2, <3>1
    <2> QED BY <2>1, <2>2
  <1>6. ASSUME NEW j \in Ids, Live(j)', j \notin renamed'
        PROVE  StillFree(context[j], rows[j].name)'
    BY <1>0, <1>1, <1>6, NoRowType DEF AskedInv, Live, Is
  <1> QED BY <1>4, <1>5, <1>6 DEF AskedInv, StillFree

LEMMA FlushParents ==
  ASSUME DataInv, ParentsInv, NEW s \in Sessions, NEW i, NEW w, Flushes(s, i, w)
  PROVE  ParentsInv'
PROOF
  <1>0. /\ i \in Ids /\ rows' = rows /\ saw' = saw /\ stage'[s] # "flush"
        /\ \A t \in Sessions \ {s} : stage'[t] = stage[t] /\ plan'[t] = plan[t] /\ i \notin DOMAIN mine[t]
        /\ \A j \in Ids \ {i} : context'[j] = context[j]
        /\ rows[i] # NoRow => context'[i] = context[i]
        /\ Insertion(w) /\ w.table = "workflow" => w.parents \subseteq context'[i]
        /\ Insertion(w) => Allowed(s, i, w)
        /\ ~Insertion(w) => mine[s] = Nothing
    BY DEF Flushes
  <1>2. /\ DOMAIN mine'[s] = DOMAIN mine[s] \cup {i}
        /\ \A t \in Sessions \ {s} : mine'[t] = mine[t]
        /\ \A t \in Sessions : \A j \in Ids : t # s \/ j # i => SeenBy(t, j)' = SeenBy(t, j)
    BY FlushViews DEF DataInv
  <1>3. \A t \in Sessions : DOMAIN mine[t] \subseteq Ids
    BY DEF DataInv, SessionsInv, SessionInv
  <1>4. ASSUME NEW j \in Ids, rows'[j] # NoRow
        PROVE  /\ {rows'[p].table : p \in rows'[j].parents} = References(rows'[j].table)
               /\ rows'[j].table = "workflow" => rows'[j].parents \subseteq context'[j]
    BY <1>0, <1>4, ZenonT(60) DEF ParentsInv
  <1>5. ASSUME NEW t \in Sessions, NEW j \in DOMAIN mine'[t], SeenBy(t, j)' # NoRow, t # s \/ j # i
        PROVE  /\ {SeenBy(t, p)'.table : p \in SeenBy(t, j)'.parents} = References(SeenBy(t, j)'.table)
               /\ SeenBy(t, j)'.table = "workflow" => SeenBy(t, j)'.parents \subseteq context'[j]
    <2>1. j \in Ids /\ j \in DOMAIN mine[t] /\ j # i /\ SeenBy(t, j)' = SeenBy(t, j)
      BY <1>0, <1>2, <1>3, <1>5
    <2>2. SeenBy(t, j).parents \subseteq Ids
      BY <2>1, Views, RowColumns DEF DataInv
    <2>3. /\ {SeenBy(t, p).table : p \in SeenBy(t, j).parents} = References(SeenBy(t, j).table)
          /\ SeenBy(t, j).table = "workflow" => SeenBy(t, j).parents \subseteq context[j]
      BY <1>5, <2>1 DEF ParentsInv
    <2>4. t = s => i \notin SeenBy(t, j).parents
      <3> SUFFICES ASSUME t = s, i \in SeenBy(t, j).parents
                   PROVE  FALSE
        OBVIOUS
      <3>1. mine[s] # Nothing
        BY <2>1 DEF Nothing
      <3>2. Insertion(w) /\ rows[i] = NoRow
        BY <1>0, <3>1, FlushedRow
      <3>3. i \notin DOMAIN mine[s]
        BY <3>2 DEF Flushes, DataInv, SessionsInv, SessionInv, On
      <3>4. SeenBy(t, i).table = "none"
        BY <3>2, <3>3, NoRowType DEF SeenBy
      <3> QED BY <2>3, <3>4, ReferTo
    <2>5. {SeenBy(t, p)'.table : p \in SeenBy(t, j).parents} = {SeenBy(t, p).table : p \in SeenBy(t, j).parents}
      BY <1>2, <2>2, <2>4
    <2> QED BY <1>0, <2>1, <2>3, <2>5
  <1>6. ASSUME i \in DOMAIN mine'[s], SeenBy(s, i)' # NoRow
        PROVE  /\ {SeenBy(s, p)'.table : p \in SeenBy(s, i)'.parents} = References(SeenBy(s, i)'.table)
               /\ SeenBy(s, i)'.table = "workflow" => SeenBy(s, i)'.parents \subseteq context'[i]
    <2> DEFINE r == Over(w, rows[i])
    <2>1. SeenBy(s, i)' = r /\ r \in RowType /\ Allowed(s, i, r)
      BY <1>0, <1>6, FlushedRow
    <2>2. r.parents \subseteq Ids
      BY <2>1, RowColumns
    <2>3. {SeenBy(s, p).table : p \in r.parents} = References(r.table)
      BY <2>1 DEF Allowed
    <2>4. SeenBy(s, i).table = r.table \/ SeenBy(s, i).table = "none"
      <3>1. i \notin DOMAIN mine[s]
        BY DEF Flushes, DataInv, SessionsInv, SessionInv, On, Nothing
      <3>2. SeenBy(s, i) = rows[i]
        BY <3>1 DEF SeenBy
      <3> QED BY <1>6, <2>1, <3>2, FlushedRow, NoRowType
    <2>5. r.table = "workflow" => Insertion(w) /\ r = w
      BY <1>6, <2>1, FlushedRow
    <2> HIDE DEF r
    <2>6. i \notin r.parents
      BY <2>3, <2>4, ReferTo
    <2>7. {SeenBy(s, p)'.table : p \in r.parents} = {SeenBy(s, p).table : p \in r.parents}
      BY <1>2, <2>2, <2>6
    <2> QED BY <1>0, <2>1, <2>3, <2>5, <2>7
  <1>7. ASSUME NEW t \in Sessions, stage'[t] = "flush", plan'[t].id = NoId, plan'[t].write.table = "workflow"
        PROVE  plan'[t].write.parents \subseteq saw'[t]
    BY <1>0, <1>7 DEF ParentsInv
  <1>8. ASSUME NEW t \in Sessions, NEW j \in DOMAIN mine'[t], SeenBy(t, j)' # NoRow
        PROVE  /\ {SeenBy(t, p)'.table : p \in SeenBy(t, j)'.parents} = References(SeenBy(t, j)'.table)
               /\ SeenBy(t, j)'.table = "workflow" => SeenBy(t, j)'.parents \subseteq context'[j]
    <2>1. CASE t # s \/ j # i
      BY <1>5, <1>8, <2>1
    <2>2. CASE t = s /\ j = i
      BY <1>6, <1>8, <2>2
    <2> QED BY <2>1, <2>2
  <1> QED BY <1>4, <1>7, <1>8 DEF ParentsInv, NoRow, Row, References

LEMMA FlushEnded ==
  ASSUME DataInv, EndedInv, NEW s \in Sessions, NEW i, NEW w, Flushes(s, i, w)
  PROVE  EndedInv'
PROOF
  <1>0. /\ i \in Ids /\ rows' = rows /\ raced' = raced /\ stage'[s] # "flush"
        /\ \A t \in Sessions \ {s} : stage'[t] = stage[t] /\ plan'[t] = plan[t] /\ i \notin DOMAIN mine[t]
        /\ Insertion(w) => ~IsEnd(w.status) /\ rows[i] = NoRow
        /\ ~Insertion(w) => /\ Is(i, "run") /\ i \notin raced => RunTimed(Over(w, rows[i]))
                            /\ Is(i, "task") => TaskTimed(i, w)
    BY DEF Flushes
  <1>2. /\ DOMAIN mine'[s] = DOMAIN mine[s] \cup {i} /\ mine'[s][i] = w
        /\ \A j \in DOMAIN mine[s] : j # i => mine'[s][j] = mine[s][j]
        /\ \A t \in Sessions \ {s} : mine'[t] = mine[t]
        /\ \A t \in Sessions : \A j \in Ids : t # s \/ j # i => SeenBy(t, j)' = SeenBy(t, j)
    BY FlushViews DEF DataInv
  <1>3. \A t \in Sessions : DOMAIN mine[t] \subseteq Ids
    BY DEF DataInv, SessionsInv, SessionInv
  <1>4. ASSUME NEW j \in Ids
        PROVE  /\ Is(j, "run")' /\ j \notin raced' => RunTimed(rows'[j])
               /\ Is(j, "task")' /\ IsEnd(rows'[j].status) => rows'[j].ended
    BY <1>0 DEF EndedInv, Is
  <1>5. ASSUME NEW t \in Sessions, NEW j \in DOMAIN mine'[t]
        PROVE  /\ SeenBy(t, j)'.table = "run" /\ j \notin raced' => RunTimed(SeenBy(t, j)')
               /\ Is(j, "task")' => TaskTimed(j, mine[t][j])'
               /\ rows'[j] = NoRow => ~IsEnd(SeenBy(t, j)'.status)
    <2>1. CASE t # s \/ j # i
      <3>1. j \in Ids /\ j \in DOMAIN mine[t] /\ SeenBy(t, j)' = SeenBy(t, j) /\ mine'[t][j] = mine[t][j]
        BY <1>0, <1>2, <1>3, <1>5, <2>1
      <3> QED BY <1>0, <3>1 DEF EndedInv, Is, TaskTimed
    <2>2. CASE t = s /\ j = i
      <3>1. ASSUME Insertion(w)
            PROVE  SeenBy(s, i)' = w /\ rows[i] = NoRow /\ RunTimed(w) /\ ~IsEnd(w.status)
        BY <1>0, <3>1, FlushedRow DEF RunTimed
      <3>2. ASSUME ~Insertion(w), SeenBy(s, i)' # NoRow
            PROVE  SeenBy(s, i)' = Over(w, rows[i]) /\ Over(w, rows[i]).table = rows[i].table /\ rows[i].table # "none"
        BY <3>2, FlushedRow
      <3>3. ~IsEnd(NoRow.status) /\ NoRow.table = "none"
        BY NoRowType DEF IsEnd
      <3> QED BY <1>0, <1>2, <2>2, <3>1, <3>2, <3>3, NoRowType DEF Is, TaskTimed
    <2> QED BY <2>1, <2>2
  <1>6. ASSUME NEW t \in Sessions, stage'[t] = "flush"
        PROVE  /\ plan'[t].id # NoId =>
                    /\ Is(plan[t].id, "run")' /\ plan'[t].id \notin raced' => RunTimed(Over(plan'[t].write, rows'[plan'[t].id]))
                    /\ Is(plan[t].id, "task")' => TaskTimed(plan[t].id, plan[t].write)'
               /\ plan'[t].id = NoId => ~IsEnd(plan'[t].write.status)
    BY <1>0, <1>6 DEF EndedInv, Is, TaskTimed
  <1> QED BY <1>4, <1>5, <1>6 DEF EndedInv, IsEnd, RunTimed, NoRow, Row

LEMMA FlushKeeps ==
  ASSUME IInv, NEW s \in Sessions, NEW i, NEW w, Flushes(s, i, w)
  PROVE  IInv'
PROOF
  <1>1. rows' = rows /\ client' = client
    BY DEF Flushes
  <1>2. ASSUME NEW j \in Ids, rows[j] # NoRow
        PROVE  born'[j] = born[j]
    <2>1. rows[j].table # "none"
      BY <1>2 DEF IInv, DataInv, RowsInv, Tables
    <2>2. born[j] # 0
      BY <2>1 DEF IInv, DataInv, RowsInv
    <2> QED BY <2>2 DEF Flushes
  <1>3. ClientInv'
    BY <1>1, <1>2, ReadingKept DEF IInv, DataInv
  <1> QED BY <1>3, FlushData, FlushUnique, FlushAsked, FlushParents, FlushEnded DEF IInv
-----------------------------------------------------------------------------
(* A transaction ends *)

\* A commit or a rollback.
Settles(s) ==
  /\ End(s) /\ migrated' = migrated /\ born' = born /\ context' = context /\ raced' = raced /\ served' = served
  /\ \/ rows' = rows /\ renamed' = renamed
     \/ /\ rows' = [i \in Ids |-> SeenBy(s, i)]
        /\ renamed' = renamed \cup {i \in LiveOnes : rows'[i].name # rows[i].name}

LEMMA BothSettle ==
  ASSUME NEW s \in Sessions, Commit(s) \/ Abort(s)
  PROVE  Settles(s)
PROOF
  BY DEF Settles, Commit, Abort

LEMMA SettledRows ==
  ASSUME DataInv, NEW s \in Sessions, Settles(s), NEW i \in Ids
  PROVE  /\ rows'[i] \in RowType
         /\ rows'[i].table # "none" => rows'[i].table \in Tables /\ born[i] # 0
         /\ rows'[i].table = "none" => rows'[i] = NoRow
         /\ Lasting(i) => rows'[i].table = rows[i].table /\ rows'[i].parents = rows[i].parents
         /\ Is(i, "workspace") /\ ~Live(i) => rows'[i].status = "DELETED"
         /\ Is(i, "workspace") => Live(i) \/ ~Live(i)'
         /\ Is(i, "task") /\ rows[i].ended => rows'[i].ended
         /\ \A t \in Sessions \ {s} : /\ i \in DOMAIN mine[t] => rows'[i] = rows[i]
                                      /\ On(t, i) /\ ~Lasting(i) => rows'[i].table \in {"none", "member"}
         /\ i \notin DOMAIN mine[s] => rows'[i] = rows[i]
PROOF
  <1> USE DEF DataInv
  <1>1. rows[i] \in RowType /\ (rows[i] # NoRow => rows[i].table \in Tables) /\ (rows[i].table # "none" => born[i] # 0)
    BY DEF RowsInv
  <1>2. "none" \notin Tables
    BY DEF Tables
  <1>3. rows'[i] = rows[i] \/ rows'[i] = SeenBy(s, i)
    BY DEF Settles
  <1>4. i \notin DOMAIN mine[s] => SeenBy(s, i) = rows[i]
    BY DEF SeenBy
  <1>5. /\ rows'[i] \in RowType
        /\ rows'[i].table # "none" => rows'[i].table \in Tables /\ born[i] # 0
        /\ rows'[i].table = "none" => rows'[i] = NoRow
        /\ Lasting(i) => rows'[i].table = rows[i].table /\ rows'[i].parents = rows[i].parents
        /\ Is(i, "workspace") /\ ~Live(i) => rows'[i].status = "DELETED"
        /\ Is(i, "task") /\ rows[i].ended => rows'[i].ended
    BY <1>1, <1>2, <1>3, Views, NoRowType DEF Is, Live
  <1>6. Is(i, "workspace") => Live(i) \/ ~Live(i)'
    BY <1>5 DEF Live
  <1>7. ASSUME NEW t \in Sessions \ {s}
        PROVE  /\ i \in DOMAIN mine[t] => rows'[i] = rows[i]
               /\ On(t, i) /\ ~Lasting(i) => rows'[i].table \in {"none", "member"}
    <2>1. i \in DOMAIN mine[t] => i \notin DOMAIN mine[s]
      BY <1>7 DEF LocksInv
    <2>2. i \in DOMAIN mine[s] /\ On(t, i) => ~Insertion(mine[s][i])
      BY <1>7 DEF LocksInv
    <2>3. i \in DOMAIN mine[s] /\ On(t, i) /\ ~Lasting(i) => SeenBy(s, i) = NoRow
      BY <2>2, Views
    <2> QED BY <1>3, <1>4, <2>1, <2>3, NoRowType DEF Lasting
  <1> QED BY <1>3, <1>4, <1>5, <1>6, <1>7

LEMMA SettledFrame ==
  ASSUME DataInv, NEW s \in Sessions, Settles(s)
  PROVE  /\ stage'[s] = "idle" /\ plan'[s] = NoPlan /\ mine'[s] = Nothing /\ saw'[s] = {} /\ DOMAIN mine'[s] = {}
         /\ \A t \in Sessions \ {s} : stage'[t] = stage[t] /\ plan'[t] = plan[t] /\ mine'[t] = mine[t] /\ saw'[t] = saw[t]
         /\ \A t \in Sessions \ {s} : \A i \in Ids : On(t, i)' <=> On(t, i)
         /\ \A i \in Ids : ~On(s, i)'
         /\ \A t \in Sessions : DOMAIN mine'[t] \subseteq Ids
         /\ \A i \in Ids : SeenBy(s, i)' = rows'[i]
         /\ \A t \in Sessions \ {s} : \A i \in Ids : SeenBy(t, i)' = IF i \in DOMAIN mine[t] THEN SeenBy(t, i) ELSE rows'[i]
PROOF
  <1> USE DEF DataInv
  <1>1. /\ stage'[s] = "idle" /\ plan'[s] = NoPlan /\ mine'[s] = Nothing /\ saw'[s] = {}
        /\ \A t \in Sessions \ {s} : stage'[t] = stage[t] /\ plan'[t] = plan[t] /\ mine'[t] = mine[t] /\ saw'[t] = saw[t]
    BY DEF Settles, End, SessionsInv, HistoryInv
  <1>2. DOMAIN mine'[s] = {}
    BY <1>1 DEF Nothing
  <1>3. \A t \in Sessions \ {s} : \A i \in Ids : On(t, i)' <=> On(t, i)
    BY <1>1 DEF On
  <1>4. \A i \in Ids : ~On(s, i)'
    BY <1>1, <1>2, CatalogueAssumption DEF On, NoPlan, Plan
  <1>5. \A i \in Ids : SeenBy(s, i)' = rows'[i]
    BY <1>2 DEF SeenBy
  <1>6. \A t \in Sessions : DOMAIN mine'[t] \subseteq Ids
    BY <1>1, <1>2 DEF SessionsInv, SessionInv
  <1>7. ASSUME NEW t \in Sessions \ {s}, NEW i \in Ids
        PROVE  SeenBy(t, i)' = IF i \in DOMAIN mine[t] THEN SeenBy(t, i) ELSE rows'[i]
    BY <1>1, <1>7, SettledRows DEF SeenBy
  <1> QED BY <1>1, <1>2, <1>3, <1>4, <1>5, <1>6, <1>7

LEMMA SettledData ==
  ASSUME DataInv, NEW s \in Sessions, Settles(s)
  PROVE  DataInv'
PROOF
  <1> USE DEF DataInv
  <1>0. migrated' = migrated /\ born' = born /\ context' = context /\ raced' = raced /\ served' = served
    BY DEF Settles
  <1>1. Tables' = Tables
    BY <1>0 DEF Tables
  <1>2. /\ stage'[s] = "idle" /\ plan'[s] = NoPlan /\ mine'[s] = Nothing /\ saw'[s] = {} /\ DOMAIN mine'[s] = {}
        /\ \A t \in Sessions \ {s} : stage'[t] = stage[t] /\ plan'[t] = plan[t] /\ mine'[t] = mine[t] /\ saw'[t] = saw[t]
        /\ \A t \in Sessions \ {s} : \A i \in Ids : On(t, i)' <=> On(t, i)
        /\ \A i \in Ids : ~On(s, i)'
        /\ \A t \in Sessions : DOMAIN mine'[t] \subseteq Ids
    BY SettledFrame
  <1>3. \A i \in Ids : /\ rows'[i] \in RowType
                       /\ rows'[i].table # "none" => rows'[i].table \in Tables /\ born[i] # 0
                       /\ rows'[i].table = "none" => rows'[i] = NoRow
                       /\ Lasting(i) => rows'[i].table = rows[i].table
                       /\ \A t \in Sessions \ {s} : /\ i \in DOMAIN mine[t] => rows'[i] = rows[i]
                                                    /\ On(t, i) /\ ~Lasting(i) => rows'[i].table \in {"none", "member"}
    BY SettledRows
  <1>4. RowsInv'
    <2>1. rows' \in [Ids -> RowType]
      BY <1>3 DEF Settles, RowsInv
    <2> QED BY <1>0, <1>1, <1>3, <2>1 DEF RowsInv, NoRow, Row
  <1>5. \A t \in Sessions \ {s} : SessionInv(t)'
    <2> SUFFICES ASSUME NEW t \in Sessions \ {s}
                 PROVE  SessionInv(t)'
      OBVIOUS
    <2>1. SessionInv(t) /\ stage'[t] = stage[t] /\ plan'[t] = plan[t] /\ mine'[t] = mine[t]
      BY <1>2 DEF SessionsInv
    <2>2. ASSUME NEW i \in Ids, NEW w, On(t, i), Changes(i, w)
          PROVE  Changes(i, w)'
      <3>1. CASE Lasting(i)
        BY <1>3, <2>2, <3>1 DEF Changes, Removal, Lasting
      <3>2. CASE ~Lasting(i)
        <4>1. ~Fits(rows[i].table, w)
          BY <3>2 DEF Fits, Lasting
        <4> QED BY <1>3, <2>2, <3>2, <4>1 DEF Changes, Removal
      <3> QED BY <3>1, <3>2
    <2>3. stage'[t] = "flush" /\ plan'[t].id # NoId => plan'[t].members = {} /\ Changes(plan[t].id, plan[t].write)'
      BY <2>1, <2>2 DEF SessionInv, On
    <2>4. \A i \in DOMAIN mine'[t] :
             \/ rows'[i] = NoRow /\ Insertion(mine'[t][i]) /\ mine'[t][i].table \in Tables'
             \/ Changes(i, mine[t][i])'
      <3> SUFFICES ASSUME NEW i \in DOMAIN mine'[t]
                   PROVE  \/ rows'[i] = NoRow /\ Insertion(mine'[t][i]) /\ mine'[t][i].table \in Tables'
                          \/ Changes(i, mine[t][i])'
        OBVIOUS
      <3>1. i \in Ids /\ i \in DOMAIN mine[t] /\ On(t, i) /\ rows'[i] = rows[i]
        BY <1>2, <1>3, <2>1 DEF On
      <3>2. \/ rows[i] = NoRow /\ Insertion(mine[t][i]) /\ mine[t][i].table \in Tables
            \/ Changes(i, mine[t][i])
        BY <2>1, <3>1 DEF SessionInv
      <3>3. Changes(i, mine[t][i]) => Changes(i, mine[t][i])'
        BY <2>1, <3>1 DEF Changes, Removal
      <3> QED BY <1>1, <2>1, <3>1, <3>2, <3>3
    <2>5. \A i \in Ids : On(t, i)' => born'[i] # 0
      BY <1>0, <1>2, <2>1 DEF SessionInv
    <2> QED BY <2>1, <2>3, <2>4, <2>5 DEF SessionInv, Insertion, RowType, NoRow, Row
  <1>6. SessionInv(s)'
    <2>1. plan'[s] = [id |-> NoId, write |-> NoRow, members |-> {}]
      BY <1>2 DEF NoPlan, Plan
    <2>2. PlanOf(plan'[s]) /\ plan'[s].id = NoId /\ plan'[s].members = {}
      BY <2>1 DEF PlanOf, Plan
    <2> QED BY <1>2, <2>2 DEF SessionInv, PlanOf
  <1>7. SessionsInv'
    BY <1>5, <1>6 DEF SessionsInv, Settles, End
  <1>8. LocksInv'
    <2> SUFFICES ASSUME NEW t \in Sessions, NEW u \in Sessions, t # u
                 PROVE  /\ DOMAIN mine'[t] \cap DOMAIN mine'[u] = {}
                        /\ \A j \in Ids : On(t, j)' /\ On(u, j)' => j \in raced'
                        /\ \A j \in DOMAIN mine'[t] : Insertion(mine'[t][j]) => ~On(u, j)'
      BY DEF LocksInv, Insertion, RowType
    <2> QED BY <1>0, <1>2 DEF LocksInv
  <1>9. HistoryInv'
    <2>1. renamed' \subseteq Ids /\ saw' \in [Sessions -> SUBSET Ids]
      BY DEF HistoryInv, Settles, End, LiveOnes
    <2>2. \A i \in Ids : Is(i, "workspace") => Is(i, "workspace")'
      BY <1>3 DEF Is, Lasting
    <2>3. \A t \in Sessions : \A i \in saw'[t] : Is(i, "workspace")'
      BY <1>2, <2>1, <2>2 DEF HistoryInv
    <2>4. \A j \in Ids : \A i \in context'[j] : Is(i, "workspace")'
      BY <1>0, <2>2 DEF HistoryInv
    <2> QED BY <1>0, <2>1, <2>3, <2>4 DEF HistoryInv
  <1> QED BY <1>4, <1>7, <1>8, <1>9

LEMMA SettledUnique ==
  ASSUME DataInv, UniqueInv, NEW s \in Sessions, Settles(s)
  PROVE  UniqueInv'
PROOF
  <1> SUFFICES ASSUME ~migrated, NEW j \in Ids, NEW k \in Ids, j # k
               PROVE  /\ ~Alike(rows'[j], rows'[k])
                      /\ \A t \in Sessions : ~Alike(SeenBy(t, j)', rows'[k])
                      /\ \A t, u \in Sessions : ~Alike(SeenBy(t, j)', SeenBy(u, k)')
    BY DEF UniqueInv, Settles, Alike
  <1>1. \A i \in Ids : rows'[i] = rows[i]  \/ rows'[i] = SeenBy(s, i)
    BY DEF Settles
  <1>2. \A v \in Sessions : \A i \in Ids : SeenBy(v, i)' = rows'[i] \/ SeenBy(v, i)' = SeenBy(v, i)
    BY SettledFrame
  <1>3. \A q, z : Alike(q, z) <=> Alike(z, q)
    BY DEF Alike
  <1> QED BY <1>1, <1>2, <1>3 DEF UniqueInv
LEMMA SettledAsked ==
  ASSUME DataInv, AskedInv, NEW s \in Sessions, Settles(s)
  PROVE  AskedInv'
PROOF
  <1>1. /\ stage'[s] = "idle" /\ DOMAIN mine'[s] = {}
        /\ \A t \in Sessions \ {s} : stage'[t] = stage[t] /\ plan'[t] = plan[t] /\ mine'[t] = mine[t] /\ saw'[t] = saw[t]
        /\ \A t \in Sessions : DOMAIN mine'[t] \subseteq Ids
        /\ \A t \in Sessions \ {s} : \A i \in Ids : SeenBy(t, i)' = IF i \in DOMAIN mine[t] THEN SeenBy(t, i) ELSE rows'[i]
    BY SettledFrame
  <1>2. ASSUME NEW i \in Ids, Live(i)', i \notin renamed', Is(i, "workspace")
        PROVE  Live(i) /\ i \notin renamed /\ rows'[i].name = rows[i].name
    <2>1. Live(i)
      BY <1>2, SettledRows
    <2>2. i \in LiveOnes
      BY <2>1 DEF LiveOnes
    <2> QED BY <1>2, <2>1, <2>2 DEF Settles
  <1>3. ASSUME NEW ws \in SUBSET Ids, NEW name, \A i \in ws : Is(i, "workspace"), StillFree(ws, name)
        PROVE  \A i \in ws : Live(i)' /\ i \notin renamed' => rows'[i].name # name
    BY <1>2, <1>3 DEF StillFree
  <1>4. ASSUME NEW t \in Sessions, stage'[t] = "flush", plan'[t].id = NoId, plan'[t].write.table = "workspace"
        PROVE  StillFree(saw[t], plan[t].write.name)'
    <2>1. t # s /\ StillFree(saw[t], plan[t].write.name)
      BY <1>1, <1>4 DEF AskedInv
    <2>2. saw[t] \subseteq Ids /\ \A i \in saw[t] : Is(i, "workspace")
      BY DEF DataInv, HistoryInv
    <2> QED BY <1>1, <1>3, <2>1, <2>2, ZenonT(60) DEF StillFree
  <1>c. context' = context /\ \A j \in Ids : context[j] \subseteq Ids /\ \A i \in context[j] : Is(i, "workspace")
    BY DEF DataInv, HistoryInv, Settles
  <1>5. ASSUME NEW t \in Sessions, NEW j \in DOMAIN mine'[t], rows'[j] = NoRow, SeenBy(t, j)'.table = "workspace"
        PROVE  StillFree(context[j], SeenBy(t, j).name)'
    <2>1. t # s /\ j \in Ids /\ j \in DOMAIN mine[t] /\ SeenBy(t, j)' = SeenBy(t, j)
      BY <1>1, <1>5
    <2>2. rows'[j] = rows[j]
      BY <2>1, SettledRows
    <2>3. StillFree(context[j], SeenBy(t, j).name)
      BY <1>5, <2>1, <2>2 DEF AskedInv
    <2> QED BY <1>3, <1>c, <2>1, <2>3 DEF StillFree
  <1>6. ASSUME NEW j \in Ids, Live(j)', j \notin renamed'
        PROVE  StillFree(context[j], rows[j].name)'
    <2>1. rows'[j].table = "workspace"
      BY <1>6 DEF Live, Is
    <2>2. CASE Is(j, "workspace")
      <3>1. StillFree(context[j], rows[j].name) /\ rows'[j].name = rows[j].name
        BY <1>2, <1>6, <2>2 DEF AskedInv
      <3> QED BY <1>3, <1>c, <3>1 DEF StillFree
    <2>3. CASE ~Is(j, "workspace")
      <3>1. j \in DOMAIN mine[s] /\ rows'[j] = SeenBy(s, j) /\ ~Lasting(j)
        BY <2>1, <2>3, SettledRows DEF Settles, Is
      <3>2. rows[j] = NoRow
        BY <2>1, <3>1, Views, NoRowType DEF DataInv
      <3>3. StillFree(context[j], SeenBy(s, j).name)
        BY <2>1, <3>1, <3>2 DEF AskedInv
      <3> QED BY <1>3, <1>c, <3>1, <3>3 DEF StillFree
    <2> QED BY <2>2, <2>3
  <1> QED BY <1>4, <1>5, <1>6 DEF AskedInv, StillFree

\* What a transaction sees keeps the foreign keys, what it has not written included.
LEMMA SeenParents ==
  ASSUME DataInv, ParentsInv, NEW s \in Sessions, NEW i \in Ids, SeenBy(s, i) # NoRow
  PROVE  /\ {SeenBy(s, p).table : p \in SeenBy(s, i).parents} = References(SeenBy(s, i).table)
         /\ SeenBy(s, i).table = "workflow" => SeenBy(s, i).parents \subseteq context[i]
PROOF
  <1>1. CASE i \in DOMAIN mine[s]
    BY <1>1 DEF ParentsInv
  <1>2. CASE i \notin DOMAIN mine[s]
    <2>1. SeenBy(s, i) = rows[i] /\ rows[i] # NoRow
      BY <1>2 DEF SeenBy
    <2>2. /\ {rows[p].table : p \in rows[i].parents} = References(rows[i].table)
          /\ rows[i].table = "workflow" => rows[i].parents \subseteq context[i]
      BY <2>1 DEF ParentsInv
    <2>3. rows[i].parents \subseteq Ids
      BY RowColumns DEF DataInv, RowsInv
    <2>4. \A p \in rows[i].parents : Lasting(p)
      BY <2>2, ReferTo DEF Lasting
    <2>5. \A p \in rows[i].parents : SeenBy(s, p).table = rows[p].table
      BY <2>3, <2>4, Views DEF DataInv
    <2>6. {SeenBy(s, p).table : p \in rows[i].parents} = {rows[p].table : p \in rows[i].parents}
      BY <2>5
    <2> QED BY <2>1, <2>2, <2>6
  <1> QED BY <1>1, <1>2

LEMMA SettledParents ==
  ASSUME DataInv, ParentsInv, NEW s \in Sessions, Settles(s)
  PROVE  ParentsInv'
PROOF
  <1>0. context' = context
    BY DEF Settles
  <1>1. /\ stage'[s] = "idle" /\ DOMAIN mine'[s] = {}
        /\ \A t \in Sessions \ {s} : stage'[t] = stage[t] /\ plan'[t] = plan[t] /\ mine'[t] = mine[t] /\ saw'[t] = saw[t]
        /\ \A t \in Sessions : DOMAIN mine'[t] \subseteq Ids
        /\ \A t \in Sessions \ {s} : \A i \in Ids : SeenBy(t, i)' = IF i \in DOMAIN mine[t] THEN SeenBy(t, i) ELSE rows'[i]
    BY SettledFrame
  <1>2. ASSUME NEW i \in Ids, rows'[i] # NoRow
        PROVE  /\ {rows'[p].table : p \in rows'[i].parents} = References(rows'[i].table)
               /\ rows'[i].table = "workflow" => rows'[i].parents \subseteq context'[i]
    <2>1. CASE rows' = rows
      BY <1>0, <1>2, <2>1 DEF ParentsInv
    <2>2. CASE rows' = [j \in Ids |-> SeenBy(s, j)]
      <3>1. \A j \in Ids : rows'[j] = SeenBy(s, j)
        BY <2>2
      <3>2. SeenBy(s, i).parents \subseteq Ids
        BY Views, RowColumns DEF DataInv
      <3>3. /\ {SeenBy(s, p).table : p \in SeenBy(s, i).parents} = References(SeenBy(s, i).table)
            /\ SeenBy(s, i).table = "workflow" => SeenBy(s, i).parents \subseteq context[i]
        BY <1>2, <3>1, SeenParents
      <3>4. {rows'[p].table : p \in SeenBy(s, i).parents} = {SeenBy(s, p).table : p \in SeenBy(s, i).parents}
        BY <3>1, <3>2
      <3> QED BY <1>0, <3>1, <3>3, <3>4
    <2> QED BY <2>1, <2>2 DEF Settles
  <1>3. ASSUME NEW t \in Sessions, NEW i \in DOMAIN mine'[t], SeenBy(t, i)' # NoRow
        PROVE  /\ {SeenBy(t, p)'.table : p \in SeenBy(t, i)'.parents} = References(SeenBy(t, i)'.table)
               /\ SeenBy(t, i)'.table = "workflow" => SeenBy(t, i)'.parents \subseteq context'[i]
    <2>1. t # s /\ i \in Ids /\ i \in DOMAIN mine[t] /\ SeenBy(t, i)' = SeenBy(t, i)
      BY <1>1, <1>3
    <2>2. SeenBy(t, i).parents \subseteq Ids
      BY <2>1, Views, RowColumns DEF DataInv
    <2>3. /\ {SeenBy(t, p).table : p \in SeenBy(t, i).parents} = References(SeenBy(t, i).table)
          /\ SeenBy(t, i).table = "workflow" => SeenBy(t, i).parents \subseteq context[i]
      BY <1>3, <2>1, SeenParents
    <2>4. ASSUME NEW p \in SeenBy(t, i).parents
          PROVE  SeenBy(t, p)'.table = SeenBy(t, p).table
      <3>1. CASE p \in DOMAIN mine[t]
        BY <1>1, <2>1, <2>2, <2>4, <3>1
      <3>2. CASE p \notin DOMAIN mine[t]
        <4>1. p \in Ids /\ SeenBy(t, p)' = rows'[p] /\ SeenBy(t, p) = rows[p]
          BY <1>1, <2>1, <2>2, <2>4, <3>2 DEF SeenBy
        <4>2. Lasting(p)
          BY <2>3, <2>4, <4>1, ReferTo DEF Lasting
        <4> QED BY <4>1, <4>2, SettledRows
      <3> QED BY <3>1, <3>2
    <2>5. {SeenBy(t, p)'.table : p \in SeenBy(t, i).parents} = {SeenBy(t, p).table : p \in SeenBy(t, i).parents}
      BY <2>4
    <2> QED BY <1>0, <2>1, <2>3, <2>5
  <1>4. ASSUME NEW t \in Sessions, stage'[t] = "flush", plan'[t].id = NoId, plan'[t].write.table = "workflow"
        PROVE  plan'[t].write.parents \subseteq saw'[t]
    BY <1>1, <1>4 DEF ParentsInv
  <1> QED BY <1>2, <1>3, <1>4 DEF ParentsInv, NoRow, Row, References

\* A task that an update ends has the time of it.
LEMMA TaskEnds ==
  ASSUME NEW i, rows[i] \in RowType, Is(i, "task"), NEW cols, Fits("task", cols), TaskTimed(i, cols),
         IsEnd(rows[i].status) => rows[i].ended, IsEnd(Over(cols, rows[i]).status)
  PROVE  Over(cols, rows[i]).ended
PROOF
  <1> DEFINE o == Over(cols, rows[i])
  <1>1. /\ o["status"] = IF "status" \in DOMAIN cols THEN cols["status"] ELSE rows[i]["status"]
        /\ o["ended"] = IF "ended" \in DOMAIN cols THEN cols["ended"] ELSE rows[i]["ended"]
    BY OverColumns DEF Columns
  <1>2. "ended" \in DOMAIN cols => cols["ended"] = TRUE
    BY DEF Fits
  <1>3. CASE "ended" \in DOMAIN cols
    BY <1>1, <1>2, <1>3
  <1>4. CASE "ended" \notin DOMAIN cols
    <2>1. IsEnd(rows[i].status) \/ rows[i].ended
      BY <1>1, <1>4 DEF TaskTimed
    <2> QED BY <1>1, <1>4, <2>1
  <1> QED BY <1>3, <1>4

LEMMA SettledEnded ==
  ASSUME DataInv, EndedInv, NEW s \in Sessions, Settles(s)
  PROVE  EndedInv'
PROOF
  <1>0. raced' = raced
    BY DEF Settles
  <1>1. /\ stage'[s] = "idle" /\ DOMAIN mine'[s] = {}
        /\ \A t \in Sessions \ {s} : stage'[t] = stage[t] /\ plan'[t] = plan[t] /\ mine'[t] = mine[t]
        /\ \A t \in Sessions : DOMAIN mine'[t] \subseteq Ids
        /\ \A t \in Sessions \ {s} : \A i \in Ids : SeenBy(t, i)' = IF i \in DOMAIN mine[t] THEN SeenBy(t, i) ELSE rows'[i]
    BY SettledFrame
  <1>2. ASSUME NEW i \in Ids
        PROVE  /\ Is(i, "run")' /\ i \notin raced' => RunTimed(rows'[i])
               /\ Is(i, "task")' /\ IsEnd(rows'[i].status) => rows'[i].ended
    <2>1. CASE rows'[i] = rows[i]
      BY <1>0, <2>1 DEF EndedInv, Is
    <2>2. CASE rows'[i] # rows[i]
      <3>1. i \in DOMAIN mine[s] /\ rows'[i] = SeenBy(s, i)
        BY <2>2, SettledRows DEF Settles
      <3>2. Is(i, "run")' /\ i \notin raced' => RunTimed(rows'[i])
        BY <1>0, <3>1 DEF EndedInv, Is
      <3>3. ASSUME Is(i, "task")', IsEnd(rows'[i].status)
            PROVE  rows'[i].ended
        <4>1. rows[i] # NoRow
          BY <3>1, <3>3 DEF EndedInv
        <4>2. Lasting(i)
          BY <3>1, <3>3, <4>1, Views, NoRowType DEF DataInv, Is
        <4>3. Is(i, "task")
          BY <3>3, <4>2, SettledRows DEF Is
        <4>4. Changes(i, mine[s][i])
          BY <3>1, <4>1 DEF DataInv, SessionsInv, SessionInv
        <4>5. Fits("task", mine[s][i]) /\ TaskTimed(i, mine[s][i])
          BY <3>1, <4>3, <4>4 DEF Changes, Removal, EndedInv, Is
        <4>6. SeenBy(s, i) = Over(mine[s][i], rows[i]) /\ rows[i] \in RowType
          BY <3>1 DEF SeenBy, DataInv, RowsInv
        <4>7. IsEnd(rows[i].status) => rows[i].ended
          BY <4>3 DEF EndedInv
        <4> QED BY <3>1, <3>3, <4>3, <4>5, <4>6, <4>7, TaskEnds
      <3> QED BY <3>2, <3>3
    <2> QED BY <2>1, <2>2
  <1>3. ASSUME NEW t \in Sessions, NEW i \in DOMAIN mine'[t]
        PROVE  /\ SeenBy(t, i)'.table = "run" /\ i \notin raced' => RunTimed(SeenBy(t, i)')
               /\ Is(i, "task")' => TaskTimed(i, mine[t][i])'
               /\ rows'[i] = NoRow => ~IsEnd(SeenBy(t, i)'.status)
    <2>1. t # s /\ i \in Ids /\ i \in DOMAIN mine[t] /\ SeenBy(t, i)' = SeenBy(t, i) /\ mine'[t] = mine[t]
      BY <1>1, <1>3
    <2>2. rows'[i] = rows[i]
      BY <2>1, SettledRows
    <2> QED BY <1>0, <2>1, <2>2 DEF EndedInv, Is, TaskTimed
  <1>4. ASSUME NEW t \in Sessions, stage'[t] = "flush", plan'[t].id # NoId
        PROVE  /\ Is(plan[t].id, "run")' /\ plan'[t].id \notin raced' => RunTimed(Over(plan'[t].write, rows'[plan'[t].id]))
               /\ Is(plan[t].id, "task")' => TaskTimed(plan[t].id, plan[t].write)'
    <2> DEFINE i == plan[t].id
    <2>1. t # s /\ stage[t] = "flush" /\ plan'[t] = plan[t] /\ i # NoId
      BY <1>1, <1>4
    <2>2. i \in Ids /\ On(t, i)
      BY <2>1 DEF DataInv, SessionsInv, SessionInv, On
    <2>3. /\ Is(i, "run") /\ i \notin raced => RunTimed(Over(plan[t].write, rows[i]))
          /\ Is(i, "task") => TaskTimed(i, plan[t].write)
      BY <2>1 DEF EndedInv
    <2>4. ASSUME Is(plan[t].id, "run")', plan'[t].id \notin raced'
          PROVE  RunTimed(Over(plan'[t].write, rows'[plan'[t].id]))
      <3>1. i \notin DOMAIN mine[s]
        BY <1>0, <2>1, <2>2, <2>4 DEF DataInv, LocksInv, On
      <3>2. rows'[i] = rows[i]
        BY <2>2, <3>1, SettledRows
      <3> QED BY <1>0, <2>1, <2>3, <2>4, <3>2 DEF Is
    <2>5. ASSUME Is(plan[t].id, "task")'
          PROVE  TaskTimed(plan[t].id, plan[t].write)'
      <3>1. rows'[i].table = "task"
        BY <2>1, <2>5 DEF Is
      <3>2. Lasting(i)
        BY <2>1, <2>2, <3>1, SettledRows
      <3>3. Is(i, "task") /\ (rows[i].ended => rows'[i].ended)
        BY <2>2, <3>1, <3>2, SettledRows DEF Is
      <3> QED BY <2>1, <2>3, <3>3 DEF TaskTimed
    <2> QED BY <2>4, <2>5
  <1>5. ASSUME NEW t \in Sessions, stage'[t] = "flush", plan'[t].id = NoId
        PROVE  ~IsEnd(plan'[t].write.status)
    BY <1>1, <1>5 DEF EndedInv
  <1> QED BY <1>2, <1>3, <1>4, <1>5 DEF EndedInv, IsEnd, RunTimed, NoRow, Row
-----------------------------------------------------------------------------
(* The client reads *)

LEMMA Counted ==
  ASSUME NEW A, NEW B \in SUBSET A, A \subseteq Ids
  PROVE  /\ Cardinality(A) \in Nat /\ Cardinality(B) \in Nat /\ Cardinality(B) <= Cardinality(A)
         /\ A # B => Cardinality(B) < Cardinality(A)
PROOF
  <1>1. IsFiniteSet(A)
    BY CatalogueAssumption, FS_Subset
  <1>2. IsFiniteSet(B) /\ Cardinality(B) <= Cardinality(A) /\ (Cardinality(A) = Cardinality(B) => A = B)
    BY <1>1, FS_Subset
  <1> QED BY <1>1, <1>2, FS_CardinalityType

LEMMA CommitReads ==
  ASSUME RowsInv, ClientInv, NEW s \in Sessions, Commit(s)
  PROVE  ClientInv'
PROOF
  <1>1. client' = Noted(rows, rows') /\ born' = born
    BY DEF Commit
  <1>2. CASE client.stage \notin {"count", "page"}
    <2>1. client' = client
      BY <1>1, <1>2 DEF Noted
    <2> QED BY <1>2, <2>1 DEF ClientInv, NothingSkipped
  <1>3. CASE client.stage \in {"count", "page"}
    <2> DEFINE new == Listed(rows', client.list)
    <2>1. client' = [client EXCEPT !.shrunk = @ \/ ~(Held \subseteq new), !.grew = @ \/ ~(new \subseteq Held)]
      BY <1>1, <1>3 DEF Noted, Held
    <2>2. new \subseteq Ids /\ Held \subseteq Ids
      BY DEF Listed, Held
    <2> HIDE DEF new
    <2>3. client \in ClientType
      BY DEF ClientInv
    <2>4. /\ client' \in ClientType /\ client'.stage = client.stage /\ client'.list = client.list /\ client'.page = client.page
          /\ client'.total = client.total /\ client'.seen = client.seen /\ client'.before = client.before
          /\ client'.shrunk <=> client.shrunk \/ ~(Held \subseteq new)
          /\ client'.grew <=> client.grew \/ ~(new \subseteq Held)
      BY <2>1, <2>3 DEF ClientType
    <2>5. Held' = new
      BY <2>4 DEF Held, new, Listed
    <2>6. client'.list.table # "none" /\ client'.page > 0
      BY <1>3, <2>4 DEF ClientInv
    <2>7. ASSUME ~client'.shrunk
          PROVE  /\ client'.before \subseteq new
                 /\ \A i \in client'.before \ client'.seen : Cardinality(Newer(i)') >= (client'.page - 1) * PerPage
                 /\ client'.stage = "page" /\ ~client'.grew => client'.total = Cardinality(new)
      <3>1. ~client.shrunk /\ Held \subseteq new
        BY <2>4, <2>7
      <3>2. /\ client.before \subseteq Held
            /\ \A i \in client.before \ client.seen : Cardinality(Newer(i)) >= (client.page - 1) * PerPage
            /\ client.stage = "page" /\ ~client.grew => client.total = Cardinality(Held)
        BY <1>3, <3>1 DEF ClientInv
      <3>3. \A i : Newer(i) \subseteq Newer(i)' /\ Newer(i)' \subseteq Ids
        BY <1>1, <2>2, <2>5, <3>1 DEF Newer
      <3>4. \A i : /\ Cardinality(Newer(i)) \in Nat /\ Cardinality(Newer(i)') \in Nat
                   /\ Cardinality(Newer(i)) <= Cardinality(Newer(i)')
        BY <3>3, Counted
      <3>5. (client.page - 1) * PerPage \in Int
        BY <2>3, CatalogueAssumption DEF ClientType
      <3>6. \A i \in client'.before \ client'.seen : Cardinality(Newer(i)') >= (client'.page - 1) * PerPage
        BY <2>4, <3>2, <3>4, <3>5
      <3>7. ASSUME client'.stage = "page", ~client'.grew
            PROVE  client'.total = Cardinality(new)
        BY <2>4, <3>1, <3>2, <3>7
      <3> QED BY <2>4, <3>1, <3>2, <3>6, <3>7
    <2>8. NothingSkipped'
      BY <1>3, <2>4 DEF NothingSkipped
    <2> QED BY <2>4, <2>5, <2>6, <2>7, <2>8 DEF ClientInv
  <1> QED BY <1>2, <1>3

LEMMA ReadFirstReads ==
  ASSUME RowsInv, ClientInv, NEW list \in Workspaces \cup Workflows \cup Runs \cup Tasks, ReadFirst(list)
  PROVE  ClientInv'
PROOF
  <1>1. /\ client' = [stage |-> "count", list |-> list, page |-> 1, total |-> 0, seen |-> {},
                      before |-> Listed(rows, list), shrunk |-> FALSE, grew |-> FALSE]
        /\ rows' = rows /\ born' = born
    BY DEF ReadFirst
  <1>2. list \in ListType /\ list.table # "none"
    <2>1. CASE list \in Workspaces \cup Tasks
      BY <2>1 DEF Workspaces, Tasks, ListType
    <2>2. CASE list \in Workflows
      BY <2>2 DEF Workflows, ListType
    <2>3. CASE list \in Runs
      BY <2>3 DEF Runs, ListType
    <2> QED BY <2>1, <2>2, <2>3
  <1>3. Listed(rows, list) \subseteq Ids
    BY DEF Listed
  <1>4. client' \in ClientType /\ client'.list.table # "none" /\ client'.page > 0 /\ client'.stage = "count"
    BY <1>1, <1>2, <1>3 DEF ClientType
  <1>5. Held' = Listed(rows, list)
    BY <1>1 DEF Held, Listed
  <1>6. Held' \subseteq Ids /\ client'.before \subseteq Held'
    BY <1>1, <1>3, <1>5
  <1>7. \A i : Newer(i)' \subseteq Ids
    BY <1>6 DEF Newer
  <1>8. \A i : Cardinality(Newer(i)') >= (client'.page - 1) * PerPage
    <2>1. (client'.page - 1) * PerPage = 0
      BY <1>1, CatalogueAssumption
    <2>2. \A i : Cardinality(Newer(i)') \in Nat
      BY <1>7, Counted
    <2> QED BY <2>1, <2>2
  <1> QED BY <1>4, <1>6, <1>8 DEF ClientInv, NothingSkipped

LEMMA CountReads ==
  ASSUME RowsInv, ClientInv, Count
  PROVE  ClientInv'
PROOF
  <1>1. /\ client.stage = "count" /\ rows' = rows /\ born' = born /\ client \in ClientType
        /\ client' = [client EXCEPT !.stage = "page", !.total = Cardinality(Held), !.grew = FALSE]
    BY DEF Count, ClientInv, Held
  <1>2. Held \subseteq Ids
    BY DEF Held, Listed
  <1>3. Cardinality(Held) \in Nat
    BY <1>2, Counted
  <1>4. /\ client' \in ClientType /\ client'.stage = "page" /\ client'.list = client.list /\ client'.page = client.page
        /\ client'.total = Cardinality(Held) /\ client'.seen = client.seen /\ client'.before = client.before
        /\ client'.shrunk = client.shrunk
    BY <1>1, <1>3 DEF ClientType
  <1>5. Held' = Held
    BY <1>1, <1>4 DEF Held, Listed
  <1>6. \A i : Newer(i)' = Newer(i)
    BY <1>1, <1>5 DEF Newer
  <1> QED BY <1>1, <1>4, <1>5, <1>6 DEF ClientInv, NothingSkipped

LEMMA ReadPageReads ==
  ASSUME RowsInv, ClientInv, ReadPage
  PROVE  ClientInv'
PROOF
  <1> DEFINE page == Page(client.list, client.page)
             last == client.page * PerPage >= client.total
  <1>1. /\ client.stage = "page" /\ rows' = rows /\ born' = born /\ client \in ClientType
        /\ client' = [client EXCEPT !.seen = @ \cup page,
                                    !.stage = IF last THEN "done" ELSE "count",
                                    !.page = IF last THEN @ ELSE @ + 1]
    BY DEF ReadPage, ClientInv
  <1>2. Held \subseteq Ids /\ \A i : Newer(i) \subseteq Held
    BY DEF Held, Listed, Newer
  <1>3. page = {i \in Held : (client.page - 1) * PerPage <= Cardinality(Newer(i)) /\ Cardinality(Newer(i)) < client.page * PerPage}
    BY DEF Page, Held, Newer
  <1>4. page \subseteq Ids
    BY <1>2, <1>3
  <1> HIDE DEF page, last
  <1>5. /\ client' \in ClientType /\ client'.stage = (IF last THEN "done" ELSE "count") /\ client'.list = client.list
        /\ client'.page = (IF last THEN client.page ELSE client.page + 1)
        /\ client'.seen = client.seen \cup page /\ client'.before = client.before
        /\ client'.shrunk = client.shrunk /\ client'.grew = client.grew
    <2>1. client'.page \in Nat
      BY <1>1 DEF ClientType
    <2>2. client'.seen = client.seen \cup page /\ client'.seen \subseteq Ids
      BY <1>1, <1>4 DEF ClientType
    <2> QED BY <1>1, <2>1, <2>2 DEF ClientType
  <1>6. Held' = Held
    BY <1>1, <1>5 DEF Held, Listed
  <1>7. \A i : Newer(i)' = Newer(i)
    BY <1>1, <1>6 DEF Newer
  <1>8. client'.list.table # "none" /\ client'.page > 0
    BY <1>1, <1>5 DEF ClientInv, ClientType
  <1>9. client.page \in Nat /\ PerPage \in Nat /\ client.total \in Nat /\ client.page * PerPage \in Nat
        /\ (client.page - 1) * PerPage \in Int
    BY <1>1, CatalogueAssumption DEF ClientType
  <1>10. ASSUME ~client.shrunk, NEW i \in client'.before \ client'.seen
         PROVE  i \in Held /\ Cardinality(Newer(i)) \in Nat /\ Cardinality(Newer(i)) >= client.page * PerPage
    <2>1. i \in client.before /\ i \notin client.seen /\ i \notin page
      BY <1>5, <1>10
    <2>2. i \in Held /\ Cardinality(Newer(i)) >= (client.page - 1) * PerPage
      BY <1>1, <1>10, <2>1 DEF ClientInv
    <2>3. Cardinality(Newer(i)) \in Nat
      BY <1>2, Counted
    <2> QED BY <1>3, <1>9, <2>1, <2>2, <2>3
  <1>11. NothingSkipped'
    <2> SUFFICES ASSUME last, ~client.shrunk, ~client.grew, NEW i \in client'.before, i \notin client'.seen
                 PROVE  FALSE
      BY <1>5 DEF NothingSkipped
    <2>1. client.total = Cardinality(Held)
      BY <1>1 DEF ClientInv
    <2>2. i \in Held /\ Cardinality(Newer(i)) >= client.page * PerPage
      BY <1>10
    <2>3. i \notin Newer(i)
      <3>1. born[i] \in Nat
        BY <1>2, <2>2, CatalogueAssumption, FS_CardinalityType DEF RowsInv
      <3> QED BY <3>1 DEF Newer
    <2>4. Cardinality(Newer(i)) \in Nat /\ Cardinality(Newer(i)) < Cardinality(Held) /\ Cardinality(Held) \in Nat
      BY <1>2, <2>2, <2>3, Counted
    <2> QED BY <1>9, <2>1, <2>2, <2>4 DEF last
  <1>12. ASSUME client'.stage \in {"count", "page"}, ~client'.shrunk
         PROVE  /\ client'.before \subseteq Held'
                /\ \A i \in client'.before \ client'.seen : Cardinality(Newer(i)') >= (client'.page - 1) * PerPage
                /\ client'.stage # "page"
    <2>1. ~last /\ ~client.shrunk
      BY <1>5, <1>12
    <2>2. client'.page - 1 = client.page
      BY <1>5, <1>9, <2>1
    <2>3. client'.before \subseteq Held'
      BY <1>1, <1>5, <1>6, <2>1 DEF ClientInv
    <2> QED BY <1>5, <1>7, <1>10, <2>1, <2>2, <2>3
  <1> QED BY <1>5, <1>8, <1>11, <1>12 DEF ClientInv
-----------------------------------------------------------------------------
(* The theorems *)

LEMMA Initially == Init => IInv
PROOF
  <1> SUFFICES ASSUME Init
               PROVE  IInv
    OBVIOUS
  <1>1. /\ migrated \in BOOLEAN /\ rows = [i \in Ids |-> NoRow] /\ born = [i \in Ids |-> 0]
        /\ stage = [s \in Sessions |-> "idle"] /\ plan = [s \in Sessions |-> NoPlan] /\ mine = [s \in Sessions |-> Nothing]
        /\ client = NoClient /\ served = 0 /\ saw = [s \in Sessions |-> {}] /\ context = [i \in Ids |-> {}]
        /\ renamed = {} /\ raced = {}
    BY DEF Init
  <1>2. DOMAIN Nothing = {} /\ NoPlan.id = NoId /\ NoPlan.members = {} /\ PlanOf(NoPlan)
    BY DEF Nothing, NoPlan, Plan, PlanOf
  <1>3. \A s \in Sessions : plan[s] = NoPlan /\ mine[s] = Nothing /\ stage[s] = "idle"
    BY <1>1
  <1>4. \A s \in Sessions : \A i \in Ids : ~On(s, i) /\ SeenBy(s, i) = NoRow /\ rows[i] = NoRow
    BY <1>1, <1>2, <1>3, CatalogueAssumption DEF On, SeenBy
  <1>5. RowsInv
    <2>1. Cardinality(Ids) \in Nat
      BY CatalogueAssumption, FS_CardinalityType
    <2> QED BY <1>1, <2>1, NoRowType DEF RowsInv
  <1>6. SessionsInv
    <2>1. \A s \in Sessions : SessionInv(s)
      BY <1>2, <1>3, <1>4 DEF SessionInv
    <2> QED BY <1>1, <2>1 DEF SessionsInv
  <1>7. LocksInv /\ HistoryInv
    BY <1>1, <1>2, <1>3, <1>4, CatalogueAssumption DEF LocksInv, HistoryInv
  <1>8. UniqueInv
    BY <1>1, <1>4, NoRowType DEF UniqueInv, Alike
  <1>9. AskedInv
    BY <1>1, <1>2, <1>3, NoRowType DEF AskedInv, Live, Is
  <1>10. ParentsInv
    BY <1>1, <1>2, <1>3 DEF ParentsInv
  <1>11. EndedInv
    BY <1>1, <1>2, <1>3, NoRowType DEF EndedInv, Is
  <1>12. ClientInv
    BY <1>1 DEF ClientInv, ClientType, ListType, NoClient, NothingSkipped
  <1> QED BY <1>5, <1>6, <1>7, <1>8, <1>9, <1>10, <1>11, <1>12 DEF IInv, DataInv

LEMMA ReadsKeep ==
  ASSUME IInv, UNCHANGED <<migrated, rows, born, request, history>>, ClientInv'
  PROVE  IInv'
PROOF
  <1> USE DEF IInv, DataInv, request, history
  <1>1. \A s \in Sessions : SessionInv(s) => SessionInv(s)'
    BY DEF SessionInv, Changes, Removal, On, Tables
  <1>2. RowsInv' /\ SessionsInv' /\ LocksInv' /\ HistoryInv'
    BY <1>1 DEF RowsInv, SessionsInv, LocksInv, HistoryInv, On, Is, Tables
  <1>3. UniqueInv' /\ AskedInv' /\ ParentsInv' /\ EndedInv'
    <2>1. UniqueInv'
      BY DEF UniqueInv, SeenBy, Alike
    <2>2. AskedInv'
      BY DEF AskedInv, SeenBy, Live, Is, StillFree
    <2>3. ParentsInv'
      BY DEF ParentsInv, SeenBy
    <2>4. EndedInv'
      BY DEF EndedInv, SeenBy, Is, TaskTimed
    <2> QED BY <2>1, <2>2, <2>3, <2>4
  <1> QED BY <1>2, <1>3

LEMMA Inductive == IInv /\ [Next]_vars => IInv'
PROOF
  <1> SUFFICES ASSUME IInv, [Next]_vars
               PROVE  IInv'
    OBVIOUS
  <1>1. ASSUME NEW s \in Sessions, Create(s) \/ Change(s)
        PROVE  IInv'
    <2>1. PICK p : Begin(s, p) /\ WellAsked(p)
      BY <1>1, Requests DEF IInv, DataInv
    <2> QED BY <2>1, BeginData, BeginKeeps DEF IInv
  <1>2. ASSUME NEW s \in Sessions, NEW i \in Ids, FlushInsert(s, i)
        PROVE  IInv'
    BY <1>2, InsertFlushes, FlushKeeps
  <1>3. ASSUME NEW s \in Sessions, NEW i \in Ids, NEW agent \in Ids, FlushMember(s, i, agent)
        PROVE  IInv'
    BY <1>3, MemberFlushes, FlushKeeps
  <1>4. ASSUME NEW s \in Sessions, FlushUpdate(s)
        PROVE  IInv'
    BY <1>4, UpdateFlushes, FlushKeeps
  <1>5. ASSUME NEW s \in Sessions, Commit(s) \/ Abort(s)
        PROVE  IInv'
    <2>1. Settles(s)
      BY <1>5, BothSettle
    <2>2. ClientInv'
      <3>1. CASE Commit(s)
        BY <3>1, CommitReads DEF IInv, DataInv
      <3>2. CASE Abort(s)
        <4>1. client' = client /\ rows' = rows /\ born' = born
          BY <3>2 DEF Abort
        <4> QED BY <4>1, ReadingKept DEF IInv, DataInv
      <3> QED BY <1>5, <3>1, <3>2
    <2> QED BY <2>1, <2>2, SettledData, SettledUnique, SettledAsked, SettledParents, SettledEnded DEF IInv
  <1>6. ASSUME NEW list \in Workspaces \cup Workflows \cup Runs \cup Tasks, ReadFirst(list)
        PROVE  IInv'
    <2>1. UNCHANGED <<migrated, rows, born, request, history>>
      BY <1>6 DEF ReadFirst
    <2> QED BY <1>6, <2>1, ReadFirstReads, ReadsKeep DEF IInv, DataInv
  <1>7. ASSUME Count
        PROVE  IInv'
    <2>1. UNCHANGED <<migrated, rows, born, request, history>>
      BY <1>7 DEF Count
    <2> QED BY <1>7, <2>1, CountReads, ReadsKeep DEF IInv, DataInv
  <1>8. ASSUME ReadPage
        PROVE  IInv'
    <2>1. UNCHANGED <<migrated, rows, born, request, history>>
      BY <1>8 DEF ReadPage
    <2> QED BY <1>8, <2>1, ReadPageReads, ReadsKeep DEF IInv, DataInv
  <1>9. ASSUME UNCHANGED vars
        PROVE  IInv'
    <2>1. UNCHANGED <<migrated, rows, born, request, history>> /\ client' = client
      BY <1>9 DEF vars
    <2>2. ClientInv'
      BY <2>1, ReadingKept DEF IInv, DataInv
    <2> QED BY <2>1, <2>2, ReadsKeep
  <1> QED BY <1>1, <1>2, <1>3, <1>4, <1>5, <1>6, <1>7, <1>8, <1>9 DEF Next, Finish

THEOREM Invariant == Spec => []IInv
PROOF
  BY Initially, Inductive, PTL DEF Spec

\* Every variable has its type, and a session holds rows exactly while it has
\* flushed and not ended.
THEOREM TypeCorrect == Spec => []TypeOK
PROOF
  <1>1. IInv => TypeOK
    <2> SUFFICES ASSUME IInv
                 PROVE  TypeOK
      OBVIOUS
    <2> USE DEF IInv, DataInv
    <2>1. \A i \in Ids : rows[i] # NoRow => rows[i].table \in Tables /\ rows[i].parents \subseteq Ids
      BY RowColumns DEF RowsInv
    <2>2. ASSUME NEW s \in Sessions
          PROVE  /\ DOMAIN mine[s] \subseteq Ids
                 /\ plan[s].id \in Ids \cup {NoId} /\ plan[s].members \subseteq Ids
                 /\ mine[s] # Nothing <=> stage[s] \in {"members", "commit"}
      <3>1. SessionInv(s) /\ stage[s] \in {"idle", "flush", "members", "commit"}
        BY DEF SessionsInv
      <3>2. DOMAIN Nothing = {}
        BY DEF Nothing
      <3>3. stage[s] \in {"members", "commit"} => mine[s] # Nothing
        BY <3>1, <3>2 DEF SessionInv
      <3> QED BY <3>1, <3>3 DEF SessionInv
    <2>3. client.stage \in {"idle", "count", "page", "done"}
      BY DEF ClientInv, ClientType
    <2> QED BY <2>1, <2>2, <2>3 DEF TypeOK, RowsInv, SessionsInv, HistoryInv
  <1> QED BY <1>1, Invariant, PTL

\* No two workspaces and no two workflows of a workspace have one name where
\* the constraints are; where they are not, two live workspaces have it only if
\* one was renamed or neither was there when the other was asked for.
THEOREM NamesAreDistinct == Spec => []NamesDistinct
PROOF
  <1>1. IInv => NamesDistinct
    <2> SUFFICES ASSUME IInv, NEW i \in Ids, NEW j \in Ids, i # j, Alike(rows[i], rows[j])
                 PROVE  /\ migrated
                        /\ Live(i) /\ Live(j) => {i, j} \cap renamed # {} \/ (i \notin context[j] /\ j \notin context[i])
      BY DEF NamesDistinct
    <2>1. migrated
      BY DEF IInv, UniqueInv
    <2>2. rows[i].name = rows[j].name
      BY DEF Alike
    <2>3. ASSUME Live(i), Live(j), i \notin renamed, j \notin renamed
          PROVE  i \notin context[j] /\ j \notin context[i]
      BY <2>2, <2>3 DEF IInv, AskedInv, StillFree
    <2> QED BY <2>1, <2>3
  <1> QED BY <1>1, Invariant, PTL

\* What refers to another row refers to one that is there, and a workflow is
\* never in a workspace that was deleted when it was asked for.
THEOREM NothingIsOrphaned == Spec => []NothingOrphaned
PROOF
  <1>1. IInv => NothingOrphaned
    BY DEF IInv, ParentsInv, NothingOrphaned, Is
  <1> QED BY <1>1, Invariant, PTL

\* A run that was started and ended has its duration unless two updates of it
\* met, and a task that ended has the time of it.
THEOREM EndsHaveTimes == Spec => []EndsAreTimed
PROOF
  <1>1. IInv => EndsAreTimed
    BY DEF IInv, EndedInv, EndsAreTimed, RunTimed, IsEnd, Is
  <1> QED BY <1>1, Invariant, PTL

\* A client that reads a list to its end has seen every row that it held all
\* the while.
THEOREM PagesSkipNothing == Spec => []NothingSkipped
PROOF
  <1>1. IInv => NothingSkipped
    BY DEF IInv, ClientInv
  <1> QED BY <1>1, Invariant, PTL

\* A deleted workspace stays deleted, whatever was loaded of it before.
THEOREM DeletedStays == Spec => DeletedForGood
PROOF
  <1> DEFINE Stays == \A i \in Ids : Is(i, "workspace") /\ ~Live(i) => rows'[i].status = "DELETED"
  <1>1. IInv /\ [Next]_vars => [Stays]_vars
    <2> SUFFICES ASSUME IInv, [Next]_vars
                 PROVE  Stays \/ UNCHANGED vars
      BY DEF Stays
    <2>1. ASSUME rows' = rows
          PROVE  Stays
      BY <2>1 DEF Live, Is
    <2>2. ASSUME NEW s \in Sessions, Commit(s)
          PROVE  Stays
      <3>1. Settles(s)
        BY <2>2, BothSettle
      <3> QED BY <3>1, SettledRows DEF IInv
    <2>3. ASSUME NEW s \in Sessions, Create(s) \/ Change(s)
          PROVE  Stays
      <3>1. PICK p : Begin(s, p)
        BY <2>3, Requests DEF IInv, DataInv
      <3> QED BY <2>1, <3>1 DEF Begin
    <2>4. ASSUME NEW s \in Sessions, Finish(s), ~Commit(s)
          PROVE  rows' = rows
      BY <2>4 DEF Finish, FlushInsert, FlushMember, FlushUpdate, Abort
    <2>5. ASSUME (\E list \in Workspaces \cup Workflows \cup Runs \cup Tasks : ReadFirst(list)) \/ Count \/ ReadPage
          PROVE  rows' = rows
      BY <2>5 DEF ReadFirst, Count, ReadPage
    <2> HIDE DEF Stays
    <2> QED BY <2>1, <2>2, <2>3, <2>4, <2>5 DEF Next
  <1> QED BY <1>1, Invariant, PTL DEF Spec, DeletedForGood
=============================================================================
