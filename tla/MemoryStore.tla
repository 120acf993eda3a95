---------------------------- MODULE MemoryStore ----------------------------
(***************************************************************************)
(* The memory service: a record in PostgreSQL and its vector in Qdrant,    *)
(* stored, searched, read and deleted by concurrent requests.  Each request *)
(* has one database transaction, READ COMMITTED, that get_session commits  *)
(* after the handler; Qdrant and NATS take part in no transaction.         *)
(*                                                                         *)
(* Reading a record also updates it (its access count), so that a read     *)
(* locks the row until the commit.  A crash is an Abort of every request.  *)
(***************************************************************************)
EXTENDS Naturals

CONSTANTS
  Sessions,   \* requests under way at one time, each with its transaction
  Rows,       \* the ids that uuid4 will draw
  NoRow,      \* the record of a session that is on none
  MaxServed   \* bound: requests

ASSUME MemoryStoreAssumption == NoRow \notin Rows /\ MaxServed \in Nat

VARIABLES
  row,        \* each record as committed: absent, ACTIVE or ARCHIVED
  indexed,    \* the records with an embedding_id, as committed
  count,      \* access_count, as committed
  vectors,    \* the records that Qdrant holds a point for
  drawn,      \* ids used up
  stage,      \* what each session does next
  op,         \* the request it serves
  memory,     \* the record it is on
  embedded,   \* whether it gave its record an embedding_id
  hits,       \* search hits it has yet to load
  saw,        \* the access_count it loaded of its record
  wrote,      \* access counts it flushed and has not committed (0: none)
  served,     \* requests begun
  announced,  \* records whose MEMORY_STORED was delivered
  reads,      \* committed reads of each record
  raced,      \* records that two sessions were reading at once
  abandoned,  \* records whose store failed after it began
  severed     \* records whose delete failed with their vector gone

database == <<row, indexed, count>>
session == <<stage, op, memory, embedded, hits, saw, wrote>>
history == <<served, announced, reads, raced, abandoned, severed>>
vars == <<database, vectors, drawn, session, history>>

Nothing == [r \in Rows |-> 0]

Init ==
  /\ row = [r \in Rows |-> "absent"] /\ indexed = {} /\ count = Nothing
  /\ vectors = {} /\ drawn = {}
  /\ stage = [s \in Sessions |-> "idle"] /\ op = [s \in Sessions |-> "none"]
  /\ memory = [s \in Sessions |-> NoRow] /\ embedded = [s \in Sessions |-> FALSE]
  /\ hits = [s \in Sessions |-> {}] /\ saw = [s \in Sessions |-> 0]
  /\ wrote = [s \in Sessions |-> Nothing]
  /\ served = 0 /\ announced = {} /\ reads = Nothing
  /\ raced = {} /\ abandoned = {} /\ severed = {}

\* The UPDATE of a record keeps its lock until the transaction ends.
Holds(s, r) == wrote[s][r] # 0
Waits(s) == stage[s] = "touch" /\ \E t \in Sessions \ {s} : Holds(t, memory[s])
On(s, r) == (stage[s] = "touch" /\ memory[s] = r) \/ Holds(s, r)

Begin(s, o, next) ==
  /\ stage[s] = "idle" /\ served < MaxServed
  /\ served' = served + 1
  /\ op' = [op EXCEPT ![s] = o]
  /\ stage' = [stage EXCEPT ![s] = next]

GoTo(s, next) == stage' = [stage EXCEPT ![s] = next]

End(s) ==
  /\ stage' = [stage EXCEPT ![s] = "idle"] /\ op' = [op EXCEPT ![s] = "none"]
  /\ memory' = [memory EXCEPT ![s] = NoRow] /\ embedded' = [embedded EXCEPT ![s] = FALSE]
  /\ hits' = [hits EXCEPT ![s] = {}] /\ saw' = [saw EXCEPT ![s] = 0]
  /\ wrote' = [wrote EXCEPT ![s] = Nothing]

-----------------------------------------------------------------------------
(* POST /memories *)

\* episodic_memory.store: an id that was never used, and an INSERT that is
\* flushed: only this transaction sees the row before it commits.
NewRecord(s, r) ==
  /\ r \notin drawn
  /\ drawn' = drawn \cup {r}
  /\ memory' = [memory EXCEPT ![s] = r]

Store(s, r) ==
  /\ Begin(s, "store", "embed")
  /\ NewRecord(s, r)
  /\ UNCHANGED <<database, vectors, embedded, hits, saw, wrote, announced, reads, raced, abandoned, severed>>

\* semantic_memory.store_embedding: the point is upserted, its id returned.
StoreEmbedding(s) == vectors' = vectors \cup {memory[s]} /\ embedded' = [embedded EXCEPT ![s] = TRUE]

\* Ollama is disabled or fails: no embedding, and no point.
NoEmbedding == UNCHANGED <<vectors, embedded>>

\* Mutant: the embedding_id is not written back.
EmbedUnrecorded(s) ==
  /\ stage[s] = "embed"
  /\ (vectors' = vectors \cup {memory[s]} /\ UNCHANGED embedded) \/ NoEmbedding
  /\ GoTo(s, "publish")
  /\ UNCHANGED <<database, drawn, op, memory, hits, saw, wrote, history>>

\* The id of the point is kept in the record; a record that cannot be
\* embedded is stored all the same.
Embed(s) ==
  /\ stage[s] = "embed"
  /\ StoreEmbedding(s) \/ NoEmbedding
  /\ GoTo(s, "publish")
  /\ UNCHANGED <<database, drawn, op, memory, hits, saw, wrote, history>>

\* MEMORY_STORED goes out, or is lost, before the commit.
PublishStored(s) ==
  /\ stage[s] = "publish"
  /\ \/ announced' = announced \cup {memory[s]}
     \/ UNCHANGED announced
  /\ GoTo(s, "commit")
  /\ UNCHANGED <<database, vectors, drawn, op, memory, embedded, hits, saw, wrote,
                 served, reads, raced, abandoned, severed>>

-----------------------------------------------------------------------------
(* GET /memories: search, and GET and DELETE /memories/{id} *)

\* The SELECT.  A record that is not there (or not yet) ends a read with 404.
Load(s, r) ==
  /\ row[r] # "absent"
  /\ memory' = [memory EXCEPT ![s] = r]
  /\ saw' = [saw EXCEPT ![s] = count[r]]
  /\ raced' = IF \E t \in Sessions \ {s} : On(t, r) THEN raced \cup {r} ELSE raced

\* semantic_memory.search: the points of one moment; an empty answer, or none
\* for want of an embedding, needs no record.
SemanticHits(found) == found \subseteq vectors /\ found # {}

\* Each hit's record is loaded later.
Search(s, found) ==
  /\ SemanticHits(found)
  /\ Begin(s, "search", "hits")
  /\ hits' = [hits EXCEPT ![s] = found]
  /\ UNCHANGED <<database, vectors, drawn, memory, embedded, saw, wrote,
                 announced, reads, raced, abandoned, severed>>

AfterHits(left) == IF left = {} THEN "commit" ELSE "hits"

LoadHit(s, r) ==
  /\ stage[s] = "hits" /\ r \in hits[s]
  /\ hits' = [hits EXCEPT ![s] = @ \ {r}]
  /\ Load(s, r)
  /\ GoTo(s, "touch")
  /\ UNCHANGED <<database, vectors, drawn, op, embedded, wrote, served, announced, reads, abandoned, severed>>

\* A hit whose record is not there is passed over.
PassHit(s, r) ==
  /\ stage[s] = "hits" /\ r \in hits[s] /\ row[r] = "absent"
  /\ hits' = [hits EXCEPT ![s] = @ \ {r}]
  /\ GoTo(s, AfterHits(hits'[s]))
  /\ UNCHANGED <<database, vectors, drawn, op, memory, embedded, saw, wrote, history>>

Get(s, r) ==
  /\ Begin(s, "get", "touch")
  /\ Load(s, r)
  /\ UNCHANGED <<database, vectors, drawn, embedded, hits, wrote, announced, reads, abandoned, severed>>

\* The record is read (and counted) first, whatever its status.
Delete(s, r) ==
  /\ Begin(s, "delete", "touch")
  /\ Load(s, r)
  /\ UNCHANGED <<database, vectors, drawn, embedded, hits, wrote, announced, reads, abandoned, severed>>

\* service.search and service.delete, once they have the record.
AfterTouch(s) == CASE op[s] = "search" -> AfterHits(hits[s])
                   [] op[s] = "delete" /\ memory[s] \in indexed -> "unindex"
                   [] OTHER -> "commit"

\* Mutant: archive reads the record through get, which counts it again.
TouchTwice(s) ==
  /\ stage[s] = "touch" /\ ~Waits(s)
  /\ wrote' = [wrote EXCEPT ![s][memory[s]] = saw[s] + IF op[s] = "delete" THEN 2 ELSE 1]
  /\ GoTo(s, AfterTouch(s))
  /\ UNCHANGED <<database, vectors, drawn, op, memory, embedded, hits, saw, history>>

\* episodic_memory.get: one more access than the row had when it was loaded.
\* The UPDATE waits for the row's lock.
Touch(s) ==
  /\ stage[s] = "touch" /\ ~Waits(s)
  /\ wrote' = [wrote EXCEPT ![s][memory[s]] = saw[s] + 1]
  /\ GoTo(s, AfterTouch(s))
  /\ UNCHANGED <<database, vectors, drawn, op, memory, embedded, hits, saw, history>>

\* The vector goes first, the record is archived with the commit.
Unindex(s) ==
  /\ stage[s] = "unindex"
  /\ vectors' = vectors \ {memory[s]}
  /\ GoTo(s, "commit")
  /\ UNCHANGED <<database, drawn, op, memory, embedded, hits, saw, wrote, history>>

-----------------------------------------------------------------------------
(* The end of a transaction *)

Counted(s) == [r \in Rows |-> IF Holds(s, r) THEN wrote[s][r] ELSE count[r]]

\* Mutant: a delete sets a status that no record has.
NewRowDeleted(s) == [row EXCEPT ![memory[s]] = CASE op[s] = "store" -> "ACTIVE"
                                                 [] op[s] = "delete" -> "DELETED"
                                                 [] OTHER -> @]

\* Mutant: the session is closed without its commit.
NewRowUnsaved(s) == row

\* Mutant: a read writes the status it loaded as well (it was ACTIVE).
NewRowAsLoaded(s) == [row EXCEPT ![memory[s]] = IF op[s] = "delete" THEN "ARCHIVED" ELSE "ACTIVE"]

\* episodic_memory.archive, with what is known of the status otherwise: a
\* column is sent only when it was changed, and a read changes the count alone.
NewRow(s) == [row EXCEPT ![memory[s]] = CASE op[s] = "store" -> "ACTIVE"
                                          [] op[s] = "delete" -> "ARCHIVED"
                                          [] OTHER -> @]

Commit(s) ==
  /\ stage[s] = "commit"
  /\ row' = IF memory[s] = NoRow THEN row ELSE NewRow(s)
  /\ indexed' = IF embedded[s] THEN indexed \cup {memory[s]} ELSE indexed
  /\ count' = Counted(s)
  /\ reads' = [r \in Rows |-> IF Holds(s, r) THEN reads[r] + 1 ELSE reads[r]]
  /\ End(s)
  /\ UNCHANGED <<vectors, drawn, served, announced, raced, abandoned, severed>>

\* What an Abort leaves outside the database: a failing call to Qdrant may
\* have been carried out all the same.
LeftInQdrant(s) ==
  \/ UNCHANGED vectors
  \/ stage[s] = "embed" /\ vectors' = vectors \cup {memory[s]}
  \/ stage[s] = "unindex" /\ vectors' = vectors \ {memory[s]}

\* Mutant: the transaction is not rolled back and keeps its locks.
AbortKeepsLocks(s) ==
  /\ stage[s] # "idle"
  /\ LeftInQdrant(s)
  /\ abandoned' = IF op[s] = "store" THEN abandoned \cup {memory[s]} ELSE abandoned
  /\ severed' = IF op[s] = "delete" /\ memory[s] \notin vectors' THEN severed \cup {memory[s]} ELSE severed
  /\ stage' = [stage EXCEPT ![s] = "idle"] /\ op' = [op EXCEPT ![s] = "none"]
  /\ UNCHANGED <<database, drawn, memory, embedded, hits, saw, wrote, served, announced, reads, raced>>

\* A call raises, the client goes away or the process dies: rolled back.
Abort(s) ==
  /\ stage[s] # "idle"
  /\ LeftInQdrant(s)
  /\ abandoned' = IF op[s] = "store" THEN abandoned \cup {memory[s]} ELSE abandoned
  /\ severed' = IF op[s] = "delete" /\ memory[s] \notin vectors' THEN severed \cup {memory[s]} ELSE severed
  /\ End(s)
  /\ UNCHANGED <<database, drawn, served, announced, reads, raced>>

\* Sessions that wait for each other in a ring: each is waited for by another.
Deadlocked(S) ==
  /\ \A s \in S : Waits(s)
  /\ S = {t \in Sessions : \E s \in S : t # s /\ Holds(t, memory[s])}

\* PostgreSQL's deadlock detector fails the statement of one of them.
Victim(s) ==
  /\ \E S \in SUBSET Sessions : s \in S /\ Deadlocked(S)
  /\ severed' = IF op[s] = "delete" /\ memory[s] \notin vectors THEN severed \cup {memory[s]} ELSE severed
  /\ End(s)
  /\ UNCHANGED <<database, vectors, drawn, served, announced, reads, raced, abandoned>>

-----------------------------------------------------------------------------
Advance(s) ==
  \/ Embed(s) \/ PublishStored(s) \/ Unindex(s) \/ Commit(s)
  \/ \E r \in Rows : LoadHit(s, r) \/ PassHit(s, r)

Next == \E s \in Sessions :
  \/ \E r \in Rows : Store(s, r) \/ Get(s, r) \/ Delete(s, r)
  \/ \E found \in SUBSET Rows : Search(s, found)
  \/ Advance(s) \/ Touch(s) \/ Abort(s) \/ Victim(s)

Spec == Init /\ [][Next]_vars

\* A handler's coroutine goes on as long as it can: every call has a timeout
\* or raises.  PostgreSQL grants a row lock in the order of arrival, so that a
\* session that can get its lock again and again does get it, and it breaks
\* every deadlock.  Nobody has to send a request, and nothing has to fail.
FairSpec == Spec /\ \A s \in Sessions : WF_vars(Advance(s)) /\ SF_vars(Touch(s)) /\ WF_vars(Victim(s))

-----------------------------------------------------------------------------
(* Properties *)

Stages == {"idle", "embed", "publish", "hits", "touch", "unindex", "commit"}

\* Every variable has its type.
TypeOK ==
  /\ row \in [Rows -> {"absent", "ACTIVE", "ARCHIVED"}] /\ indexed \subseteq Rows
  /\ count \in [Rows -> Nat] /\ vectors \subseteq Rows /\ drawn \subseteq Rows
  /\ stage \in [Sessions -> Stages] /\ op \in [Sessions -> {"none", "store", "search", "get", "delete"}]
  /\ memory \in [Sessions -> Rows \cup {NoRow}] /\ embedded \in [Sessions -> BOOLEAN]
  /\ hits \in [Sessions -> SUBSET Rows] /\ saw \in [Sessions -> Nat]
  /\ wrote \in [Sessions -> [Rows -> Nat]]
  /\ served \in 0 .. MaxServed /\ announced \subseteq drawn /\ reads \in [Rows -> Nat]
  /\ raced \subseteq Rows /\ abandoned \subseteq Rows /\ severed \subseteq Rows

Storing(r) == \E s \in Sessions : op[s] = "store" /\ memory[s] = r
Deleting(r) == \E s \in Sessions : op[s] = "delete" /\ memory[s] = r /\ stage[s] = "commit"

\* A search can find exactly the records that are stored with an embedding
\* and not deleted: an archived record has no vector, an active one has kept
\* its own, but for the moment between the two halves of a delete and after a
\* delete that failed between them.
IndexAgrees == \A r \in Rows :
  /\ row[r] = "ARCHIVED" => r \notin vectors
  /\ row[r] = "ACTIVE" /\ r \notin severed /\ ~Deleting(r) => (r \in vectors <=> r \in indexed)

\* A vector or an announcement without a record is that of a store which is
\* still under way or has failed.
NothingLeftBehind ==
  \A r \in vectors \cup announced : row[r] # "absent" \/ Storing(r) \/ r \in abandoned

\* Of the reads that were committed the access count misses only some of those
\* that met another on the same record, and it counts none twice.
CountsReads == \A r \in Rows : count[r] <= reads[r] /\ (r \notin raced => count[r] = reads[r])

\* The records and their place in the search lead the life that RecordLifecycle
\* promises: created once, archived for good, whatever requests loaded them before.
Promise == INSTANCE RecordLifecycle WITH
  Records <- Rows, status <- row, searchable <- {r \in indexed : row[r] = "ACTIVE"}
RecordsKept == Promise!Lifecycle

\* Every request ends, those included that lock the same records in different
\* orders.
EveryRequestEnds == \A s \in Sessions : stage[s] # "idle" ~> stage[s] = "idle"
=============================================================================
