-------------------------- MODULE MemoryStoreProofs --------------------------
(***************************************************************************)
(* What holds of MemoryStore for any number of sessions, records and       *)
(* requests, from one inductive invariant, IInv; and that MemoryStore      *)
(* implements RecordLifecycle.                                             *)
(***************************************************************************)
EXTENDS MemoryStore, TLAPS

\* What a session holds at each of its stages.
Shape == \A s \in Sessions :
  /\ stage[s] = "idle" <=> op[s] = "none"
  /\ op[s] = "none" => memory[s] = NoRow /\ hits[s] = {} /\ wrote[s] = Nothing
  /\ embedded[s] => op[s] = "store"
  /\ op[s] = "store" => memory[s] # NoRow /\ wrote[s] = Nothing /\ hits[s] = {}
  /\ op[s] \in {"get", "delete"} => memory[s] # NoRow /\ hits[s] = {}
  /\ op[s] = "store" => stage[s] \in {"embed", "publish", "commit"}
  /\ stage[s] \in {"embed", "publish"} => op[s] = "store"
  /\ stage[s] = "touch" => memory[s] # NoRow /\ op[s] \in {"search", "get", "delete"}
  /\ stage[s] = "hits" => op[s] = "search"
  /\ stage[s] = "unindex" => op[s] = "delete"

\* The record of a store is its own until it commits.
Fresh == \A s \in Sessions : op[s] = "store" =>
  /\ row[memory[s]] = "absent"
  /\ \A t \in Sessions : memory[t] = memory[s] => t = s
  /\ memory[s] \in vectors <=> embedded[s]
  /\ stage[s] = "embed" => ~embedded[s]

\* Any other session is on a record that was committed.
Loaded == \A s \in Sessions : op[s] # "store" /\ memory[s] # NoRow => row[memory[s]] # "absent"

\* An id that was not drawn has left no trace.
Drawn ==
  /\ vectors \subseteq drawn /\ announced \subseteq drawn
  /\ \A r \in Rows : row[r] # "absent" => r \in drawn
  /\ \A r \in indexed : row[r] # "absent"
  /\ \A s \in Sessions : memory[s] # NoRow => memory[s] \in drawn

\* A delete that is about to commit, or one that failed for want of it, has
\* taken the vector away for good.
Cut ==
  /\ \A s \in Sessions : op[s] = "delete" /\ stage[s] = "commit" => memory[s] \notin vectors
  /\ \A r \in severed : r \notin vectors /\ row[r] # "absent"

\* Two sessions on one record were counted.
Solo == \A s, t \in Sessions : \A r \in Rows : On(s, r) /\ On(t, r) /\ r \notin raced => s = t

\* A session writes each access count once, one more than it loaded.
Counting == \A s \in Sessions :
  /\ \A r \in hits[s] : wrote[s][r] = 0
  /\ stage[s] = "touch" =>
       /\ memory[s] \notin hits[s] /\ wrote[s][memory[s]] = 0
       /\ saw[s] <= reads[memory[s]]
       /\ memory[s] \notin raced => saw[s] = count[memory[s]]
  /\ \A r \in Rows : wrote[s][r] # 0 =>
       /\ wrote[s][r] <= reads[r] + 1
       /\ r \notin raced => wrote[s][r] = count[r] + 1

IInv == /\ TypeOK /\ Shape /\ Fresh /\ Loaded /\ Drawn /\ Cut /\ Solo /\ Counting
        /\ IndexAgrees /\ NothingLeftBehind /\ CountsReads

-----------------------------------------------------------------------------
USE MemoryStoreAssumption

\* The empty store satisfies IInv.
LEMMA InitIInv == Init => IInv
BY DEF Init, IInv, TypeOK, Stages, Nothing, Shape, Fresh, Loaded, Drawn, Cut, Solo, Counting,
  IndexAgrees, NothingLeftBehind, CountsReads, On, Holds, Storing, Deleting

\* A store begins with an id of its own.
LEMMA StoreStep ==
  ASSUME IInv, NEW s \in Sessions, NEW r \in Rows, Store(s, r)
  PROVE  IInv'
<1> USE DEF IInv, TypeOK, Store, Begin, NewRecord, database
<1>1. TypeOK'
  BY DEF Stages
<1>2. Shape'
  BY DEF Shape
<1>3. Fresh' /\ Loaded' /\ Drawn' /\ Cut'
  BY DEF Fresh, Loaded, Drawn, Cut, Shape
<1>4. Solo' /\ Counting'
  BY DEF Solo, Counting, On, Holds, Shape
<1>5. IndexAgrees'
  BY DEF IndexAgrees, Deleting, Shape, Drawn
<1>6. NothingLeftBehind'
  BY DEF NothingLeftBehind, Storing, Shape, Drawn
<1>7. CountsReads'
  BY DEF CountsReads
<1>. QED
  BY <1>1, <1>2, <1>3, <1>4, <1>5, <1>6, <1>7

\* The vector of a store that has not committed is its own.
LEMMA EmbedStep ==
  ASSUME IInv, NEW s \in Sessions, Embed(s)
  PROVE  IInv'
<1> USE DEF IInv, TypeOK, Embed, StoreEmbedding, NoEmbedding, GoTo, database, history
<1>0. op[s] = "store" /\ memory[s] \in Rows
  BY DEF Shape
<1>1. TypeOK'
  BY <1>0 DEF Stages
<1>2. Shape'
  BY <1>0 DEF Shape
<1>3. Fresh'
  BY <1>0 DEF Fresh
<1>4. Loaded' /\ Drawn' /\ Cut'
  BY <1>0 DEF Fresh, Loaded, Drawn, Cut
<1>5. Solo' /\ Counting'
  BY DEF Solo, Counting, On, Holds
<1>6. IndexAgrees'
  BY <1>0 DEF IndexAgrees, Deleting, Fresh
<1>7. NothingLeftBehind'
  BY <1>0 DEF NothingLeftBehind, Storing
<1>8. CountsReads'
  BY DEF CountsReads
<1>. QED
  BY <1>1, <1>2, <1>3, <1>4, <1>5, <1>6, <1>7, <1>8

\* What is announced is still being stored.
LEMMA PublishStep ==
  ASSUME IInv, NEW s \in Sessions, PublishStored(s)
  PROVE  IInv'
<1> USE DEF IInv, TypeOK, PublishStored, GoTo, database
<1>0. op[s] = "store" /\ memory[s] \in Rows
  BY DEF Shape
<1>1. TypeOK'
  BY <1>0 DEF Stages, Drawn
<1>2. Shape' /\ Fresh' /\ Loaded' /\ Drawn' /\ Cut'
  BY <1>0 DEF Shape, Fresh, Loaded, Drawn, Cut
<1>3. Solo' /\ Counting'
  BY DEF Solo, Counting, On, Holds
<1>4. IndexAgrees'
  BY <1>0 DEF IndexAgrees, Deleting
<1>5. NothingLeftBehind'
  BY <1>0 DEF NothingLeftBehind, Storing
<1>6. CountsReads'
  BY DEF CountsReads
<1>. QED
  BY <1>1, <1>2, <1>3, <1>4, <1>5, <1>6

\* A search begins on no record.
LEMMA SearchStep ==
  ASSUME IInv, NEW s \in Sessions, NEW found \in SUBSET Rows, Search(s, found)
  PROVE  IInv'
<1> USE DEF IInv, TypeOK, Search, Begin, database
<1>1. TypeOK'
  BY DEF Stages
<1>2. Shape' /\ Fresh' /\ Loaded' /\ Drawn' /\ Cut'
  BY DEF Shape, Fresh, Loaded, Drawn, Cut
<1>3. Solo' /\ Counting'
  BY DEF Solo, Counting, On, Holds, Shape, Nothing
<1>4. IndexAgrees'
  BY DEF IndexAgrees, Deleting, Shape
<1>5. NothingLeftBehind'
  BY DEF NothingLeftBehind, Storing, Shape
<1>6. CountsReads'
  BY DEF CountsReads
<1>. QED
  BY <1>1, <1>2, <1>3, <1>4, <1>5, <1>6

\* A get or a delete begins by loading its record, and counts whom it meets.
LEMMA ReadStep ==
  ASSUME IInv, NEW s \in Sessions, NEW r \in Rows, Get(s, r) \/ Delete(s, r)
  PROVE  IInv'
<1>1. PICK o \in {"get", "delete"} :
        /\ Begin(s, o, "touch") /\ Load(s, r)
        /\ UNCHANGED <<database, vectors, drawn, embedded, hits, wrote, announced, reads, abandoned, severed>>
  BY DEF Get, Delete
<1> USE <1>1 DEF IInv, TypeOK, Begin, Load, database
<1>2. TypeOK'
  BY DEF Stages
<1>3. Shape'
  BY DEF Shape
<1>4. Fresh' /\ Loaded'
  BY DEF Shape, Fresh, Loaded
<1>5. Drawn' /\ Cut'
  BY DEF Drawn, Cut
<1>6. Solo'
  BY DEF Solo, On, Holds, Shape, Nothing
<1>7. Counting'
  BY DEF Counting, Shape, Nothing, CountsReads
<1>8. IndexAgrees'
  BY DEF IndexAgrees, Deleting, Shape
<1>9. NothingLeftBehind'
  BY DEF NothingLeftBehind, Storing, Shape
<1>10. CountsReads'
  BY DEF CountsReads
<1>. QED
  BY <1>2, <1>3, <1>4, <1>5, <1>6, <1>7, <1>8, <1>9, <1>10

\* The same for the next hit of a search, which may hold others.
LEMMA LoadHitStep ==
  ASSUME IInv, NEW s \in Sessions, NEW r \in Rows, LoadHit(s, r)
  PROVE  IInv'
<1> USE DEF IInv, TypeOK, LoadHit, Load, GoTo, database
<1>1. TypeOK'
  BY DEF Stages
<1>2. Shape'
  BY DEF Shape
<1>3. Fresh' /\ Loaded' /\ Drawn' /\ Cut'
  BY DEF Shape, Fresh, Loaded, Drawn, Cut
<1>4. Solo'
  BY DEF Solo, On, Holds
<1>5. Counting'
  BY DEF Counting, CountsReads
<1>6. IndexAgrees'
  BY DEF IndexAgrees, Deleting, Shape
<1>7. NothingLeftBehind'
  BY DEF NothingLeftBehind, Storing, Shape
<1>8. CountsReads'
  BY DEF CountsReads
<1>. QED
  BY <1>1, <1>2, <1>3, <1>4, <1>5, <1>6, <1>7, <1>8

\* A hit without a record.
LEMMA PassHitStep ==
  ASSUME IInv, NEW s \in Sessions, NEW r \in Rows, PassHit(s, r)
  PROVE  IInv'
<1> USE DEF IInv, TypeOK, PassHit, GoTo, AfterHits, database, history
<1>1. TypeOK'
  BY DEF Stages
<1>2. Shape'
  BY DEF Shape
<1>3. Fresh' /\ Loaded' /\ Drawn' /\ Cut'
  BY DEF Shape, Fresh, Loaded, Drawn, Cut
<1>4. Solo' /\ Counting'
  BY DEF Solo, Counting, On, Holds
<1>5. IndexAgrees'
  BY DEF IndexAgrees, Deleting, Shape
<1>6. NothingLeftBehind'
  BY DEF NothingLeftBehind, Storing, Shape
<1>7. CountsReads'
  BY DEF CountsReads
<1>. QED
  BY <1>1, <1>2, <1>3, <1>4, <1>5, <1>6, <1>7

\* The access count is flushed once.  A delete of a record that has no vector
\* goes straight to its commit.
LEMMA TouchStep ==
  ASSUME IInv, NEW s \in Sessions, Touch(s)
  PROVE  IInv'
<1> USE DEF IInv, TypeOK, Touch, GoTo, database, history
<1>0. memory[s] \in Rows /\ op[s] \in {"search", "get", "delete"}
  BY DEF Shape
<1>1. /\ AfterTouch(s) \in {"hits", "unindex", "commit"}
      /\ AfterTouch(s) = "hits" => op[s] = "search"
      /\ AfterTouch(s) = "unindex" => op[s] = "delete"
      /\ op[s] = "delete" /\ AfterTouch(s) = "commit" => memory[s] \notin indexed
  BY <1>0 DEF AfterTouch, AfterHits
<1>2. TypeOK'
  BY <1>0, <1>1 DEF Stages
<1>3. Shape'
  BY <1>0, <1>1 DEF Shape
<1>4. Fresh' /\ Loaded' /\ Drawn'
  BY <1>0, <1>1 DEF Fresh, Loaded, Drawn
<1>5. op[s] = "delete" /\ AfterTouch(s) = "commit" => memory[s] \notin vectors
  BY <1>0, <1>1 DEF IndexAgrees, Deleting, Loaded, Cut
<1>6. Cut'
  BY <1>0, <1>1, <1>5 DEF Cut
<1>7. Solo'
  BY <1>0, <1>1 DEF Solo, On, Holds
<1>8. Counting'
  BY <1>0, <1>1 DEF Counting
<1>9. IndexAgrees'
  BY <1>0, <1>1 DEF IndexAgrees, Deleting
<1>10. NothingLeftBehind' /\ CountsReads'
  BY DEF NothingLeftBehind, Storing, CountsReads
<1>. QED
  BY <1>2, <1>3, <1>4, <1>6, <1>7, <1>8, <1>9, <1>10

\* The vector goes; the record is about to be archived.
LEMMA UnindexStep ==
  ASSUME IInv, NEW s \in Sessions, Unindex(s)
  PROVE  IInv'
<1> USE DEF IInv, TypeOK, Unindex, GoTo, database, history
<1>0. memory[s] \in Rows /\ op[s] = "delete"
  BY DEF Shape
<1>1. TypeOK'
  BY DEF Stages
<1>2. Shape'
  BY <1>0 DEF Shape
<1>3. Fresh' /\ Loaded' /\ Drawn' /\ Cut'
  BY <1>0 DEF Fresh, Loaded, Drawn, Cut
<1>4. Solo' /\ Counting'
  BY DEF Solo, Counting, On, Holds
<1>5. IndexAgrees'
  BY <1>0 DEF IndexAgrees, Deleting
<1>6. NothingLeftBehind' /\ CountsReads'
  BY DEF NothingLeftBehind, Storing, CountsReads
<1>. QED
  BY <1>1, <1>2, <1>3, <1>4, <1>5, <1>6

\* What a session that is over leaves: nothing of its own.
Over(s) ==
  /\ stage' \in [Sessions -> Stages]
  /\ op' \in [Sessions -> {"none", "store", "search", "get", "delete"}]
  /\ memory' \in [Sessions -> Rows \cup {NoRow}] /\ embedded' \in [Sessions -> BOOLEAN]
  /\ hits' \in [Sessions -> SUBSET Rows] /\ saw' \in [Sessions -> Nat]
  /\ wrote' \in [Sessions -> [Rows -> Nat]]
  /\ stage'[s] = "idle" /\ op'[s] = "none" /\ memory'[s] = NoRow /\ embedded'[s] = FALSE
  /\ hits'[s] = {} /\ wrote'[s] = Nothing
  /\ \A t \in Sessions \ {s} :
       /\ stage'[t] = stage[t] /\ op'[t] = op[t] /\ memory'[t] = memory[t]
       /\ embedded'[t] = embedded[t] /\ hits'[t] = hits[t] /\ saw'[t] = saw[t]
       /\ wrote'[t] = wrote[t]

LEMMA EndIsOver ==
  ASSUME TypeOK, NEW s \in Sessions, End(s)
  PROVE  Over(s)
<1> USE DEF TypeOK, End, Over
<1>1. Nothing \in [Rows -> Nat] /\ "idle" \in Stages
  BY DEF Stages, Nothing
<1>. QED
  BY <1>1

\* No other session's part changes: what it holds, what it is on, what it does.
LEMMA OthersStay ==
  ASSUME TypeOK, NEW s \in Sessions, Over(s)
  PROVE  /\ \A t \in Sessions, r \in Rows : Holds(t, r)' <=> t # s /\ Holds(t, r)
         /\ \A t \in Sessions, r \in Rows : On(t, r)' <=> t # s /\ On(t, r)
<1>1. \A r \in Rows : ~Holds(s, r)' /\ ~On(s, r)'
  BY DEF Over, Holds, On, Nothing
<1>2. \A t \in Sessions \ {s}, r \in Rows : Holds(t, r)' <=> Holds(t, r)
  BY DEF Over, Holds
<1>3. \A t \in Sessions \ {s}, r \in Rows : On(t, r)' <=> On(t, r)
  BY <1>2 DEF Over, On
<1>. QED
  BY <1>1, <1>2, <1>3

\* Sessions on one record stay counted when one of them is over.
LEMMA SoloStays ==
  ASSUME TypeOK, Solo, NEW s \in Sessions, Over(s), raced' = raced
  PROVE  Solo'
BY OthersStay DEF Solo

\* So does what each of the others is about to write, when no count changes.
LEMMA CountingStays ==
  ASSUME TypeOK, Counting, NEW s \in Sessions, Over(s), UNCHANGED <<raced, reads, count>>
  PROVE  Counting'
<1> SUFFICES ASSUME NEW t \in Sessions
    PROVE /\ \A r \in hits'[t] : wrote'[t][r] = 0
          /\ stage'[t] = "touch" =>
               /\ memory'[t] \notin hits'[t] /\ wrote'[t][memory'[t]] = 0
               /\ saw'[t] <= reads'[memory'[t]]
               /\ memory'[t] \notin raced' => saw'[t] = count'[memory'[t]]
          /\ \A r \in Rows : wrote'[t][r] # 0 =>
               /\ wrote'[t][r] <= reads'[r] + 1
               /\ r \notin raced' => wrote'[t][r] = count'[r] + 1
  BY DEF Counting
<1>1. CASE t = s
  BY <1>1 DEF Over, Nothing
<1>2. CASE t # s
  BY <1>2 DEF Over, Counting
<1>. QED
  BY <1>1, <1>2

\* A transaction that is rolled back leaves at most the vector it stored, or
\* lacks the one it removed.
LEMMA AbortStep ==
  ASSUME IInv, NEW s \in Sessions, Abort(s)
  PROVE  IInv'
<1>0. Over(s)
  BY EndIsOver DEF Abort, IInv
<1>1. memory[s] \in Rows \cup {NoRow} /\ (op[s] \in {"store", "delete"} => memory[s] \in Rows)
  BY DEF IInv, TypeOK, Shape
<1>2. /\ stage[s] = "embed" => op[s] = "store"
      /\ stage[s] = "unindex" => op[s] = "delete"
  BY DEF IInv, Shape
<1>3. /\ vectors' \subseteq vectors \cup {memory[s]}
      /\ vectors \subseteq vectors' \cup {memory[s]}
      /\ memory[s] \in vectors' \ vectors => op[s] = "store"
      /\ memory[s] \in vectors \ vectors' => op[s] = "delete"
  BY <1>2 DEF Abort, LeftInQdrant
<1>a. /\ UNCHANGED <<row, indexed, count, drawn, served, announced, reads, raced>>
      /\ abandoned' = IF op[s] = "store" THEN abandoned \cup {memory[s]} ELSE abandoned
      /\ severed' = IF op[s] = "delete" /\ memory[s] \notin vectors' THEN severed \cup {memory[s]} ELSE severed
  BY DEF Abort, database
<1> USE <1>0, <1>1, <1>3, <1>a DEF IInv, Over
<1>4. TypeOK'
  BY DEF TypeOK
<1>5. Shape'
  BY DEF Shape
<1>6. Fresh'
  BY DEF Fresh, Shape, Loaded, TypeOK
<1>7. Loaded'
  BY DEF Loaded
<1>8. Drawn'
  BY DEF Drawn
<1>9. Cut'
  <2>1. ASSUME NEW r \in severed' PROVE r \notin vectors' /\ row'[r] # "absent"
    <3>1. CASE r \in severed
      <4>1. r \notin vectors /\ row[r] # "absent"
        BY <3>1 DEF Cut
      <4>2. op[s] = "store" => row[memory[s]] = "absent"
        BY DEF Fresh
      <4>. QED
        BY <4>1, <4>2
    <3>2. CASE r \notin severed
      <4>1. r = memory[s] /\ op[s] = "delete" /\ r \notin vectors'
        BY <2>1, <3>2
      <4>2. row[r] # "absent"
        BY <4>1, <1>1 DEF Loaded
      <4>. QED
        BY <4>1, <4>2
    <3>. QED
      BY <3>1, <3>2
  <2>2. ASSUME NEW t \in Sessions, op'[t] = "delete", stage'[t] = "commit" PROVE memory'[t] \notin vectors'
    <3>1. t # s /\ op[t] = "delete" /\ stage[t] = "commit" /\ memory'[t] = memory[t]
      BY <2>2
    <3>2. memory[t] \notin vectors
      BY <3>1 DEF Cut
    <3>3. op[s] = "store" => memory[t] # memory[s]
      BY <3>1 DEF Fresh
    <3>. QED
      BY <3>1, <3>2, <3>3
  <2>. QED
    BY <2>1, <2>2 DEF Cut
<1>10. Solo'
  BY SoloStays
<1>11. Counting'
  BY CountingStays
<1>12. IndexAgrees'
  <2> SUFFICES ASSUME NEW r \in Rows
      PROVE /\ row[r] = "ARCHIVED" => r \notin vectors'
            /\ row[r] = "ACTIVE" /\ r \notin severed' /\ ~Deleting(r)' => (r \in vectors' <=> r \in indexed)
    BY DEF IndexAgrees
  <2>0. op[s] = "store" => row[memory[s]] = "absent"
    BY DEF Fresh
  <2>1. row[r] = "ARCHIVED" => r \notin vectors'
    BY <2>0 DEF IndexAgrees
  <2>2. ASSUME row[r] = "ACTIVE", r \notin severed', ~Deleting(r)' PROVE r \in vectors' <=> r \in indexed
    <3>1. CASE r = memory[s] /\ op[s] = "delete"
      <4>1. r \in vectors'
        BY <2>2, <3>1
      <4>2. r \in vectors
        BY <4>1, <3>1, <1>3
      <4>3. ~Deleting(r)
        BY <4>2 DEF Deleting, Cut
      <4>4. r \notin severed
        BY <2>2
      <4>. QED
        BY <2>2, <4>1, <4>2, <4>3, <4>4 DEF IndexAgrees
    <3>2. CASE ~(r = memory[s] /\ op[s] = "delete")
      <4>1. r \in vectors' <=> r \in vectors
        BY <2>0, <2>2, <3>2
      <4>2. ~Deleting(r)
        BY <2>2, <3>2 DEF Deleting
      <4>. QED
        BY <2>2, <4>1, <4>2 DEF IndexAgrees
    <3>. QED
      BY <3>1, <3>2
  <2>. QED
    BY <2>1, <2>2
<1>13. NothingLeftBehind'
  BY DEF NothingLeftBehind, Storing, Drawn, Loaded
<1>14. CountsReads'
  BY DEF CountsReads
<1>. QED
  BY <1>4, <1>5, <1>6, <1>7, <1>8, <1>9, <1>10, <1>11, <1>12, <1>13, <1>14

\* A victim waits for a lock, and has not got to its second half.
LEMMA VictimStep ==
  ASSUME IInv, NEW s \in Sessions, Victim(s)
  PROVE  IInv'
<1>0. Over(s)
  BY EndIsOver DEF Victim, IInv
<1>1. stage[s] = "touch"
  BY DEF Victim, Deadlocked, Waits
<1>2. op[s] # "store" /\ memory[s] \in Rows /\ row[memory[s]] # "absent"
  BY <1>1 DEF IInv, TypeOK, Shape, Loaded
<1>a. /\ UNCHANGED <<row, indexed, count, vectors, drawn, served, announced, reads, raced, abandoned>>
      /\ severed' = IF op[s] = "delete" /\ memory[s] \notin vectors THEN severed \cup {memory[s]} ELSE severed
  BY DEF Victim, database
<1> USE <1>1, <1>2, <1>0, <1>a DEF IInv, Over
<1>4. TypeOK'
  BY DEF TypeOK
<1>5. Shape'
  BY DEF Shape
<1>6. Fresh'
  <2>1. \A t \in Sessions : op'[t] = "store" => t # s /\ op[t] = "store" /\ memory[t] \in Rows
    BY DEF TypeOK, Shape
  <2>2. \A u \in Sessions : memory'[u] = memory[u] \/ memory'[u] = NoRow
    OBVIOUS
  <2>3. \A t \in Sessions : op'[t] = "store" => \A u \in Sessions : memory'[u] = memory'[t] => u = t
    BY <2>1, <2>2 DEF Fresh
  <2>. QED
    BY <2>1, <2>3 DEF Fresh
<1>7. Loaded'
  BY DEF Loaded
<1>8. Drawn'
  BY DEF Drawn
<1>9. Cut'
  BY DEF Cut
<1>10. Solo'
  BY SoloStays
<1>11. Counting'
  BY CountingStays
<1>12. IndexAgrees'
  <2>1. \A r \in Rows : Deleting(r) => Deleting(r)'
    BY DEF Deleting
  <2>2. severed \subseteq severed'
    OBVIOUS
  <2>. QED
    BY <2>1, <2>2 DEF IndexAgrees
<1>13. NothingLeftBehind' /\ CountsReads'
  <2>1. \A r \in Rows : Storing(r) => Storing(r)'
    BY DEF Storing
  <2>2. vectors \cup announced \subseteq Rows
    BY DEF TypeOK
  <2>3. NothingLeftBehind'
    BY <2>1, <2>2 DEF NothingLeftBehind
  <2>. QED
    BY <2>3 DEF CountsReads
<1>. QED
  BY <1>4, <1>5, <1>6, <1>7, <1>8, <1>9, <1>10, <1>11, <1>12, <1>13

\* What a commit makes of the records: the one stored is ACTIVE, the one
\* deleted ARCHIVED, and nothing else changes.
Saved(s) ==
  /\ op[s] = "store" => /\ row' = [row EXCEPT ![memory[s]] = "ACTIVE"]
                         /\ indexed' = IF embedded[s] THEN indexed \cup {memory[s]} ELSE indexed
  /\ op[s] = "delete" => row' = [row EXCEPT ![memory[s]] = "ARCHIVED"]
  /\ op[s] \notin {"store", "delete"} => row' = row
  /\ op[s] # "store" => indexed' = indexed

LEMMA CommitSaves ==
  ASSUME IInv, NEW s \in Sessions, Commit(s)
  PROVE  Saved(s)
<1> USE DEF Saved
<1>1. op[s] \in {"store", "delete"} => memory[s] \in Rows
  BY DEF IInv, TypeOK, Shape
<1>2. embedded[s] => op[s] = "store"
  BY DEF IInv, Shape
<1>3. memory[s] \in Rows \cup {NoRow}
  BY DEF IInv, TypeOK
<1>4. CASE memory[s] = NoRow
  BY <1>1, <1>2, <1>4 DEF Commit
<1>5. CASE memory[s] # NoRow
  <2>1. memory[s] \in Rows /\ row' = NewRow(s)
    BY <1>3, <1>5 DEF Commit
  <2>2. row \in [Rows -> {"absent", "ACTIVE", "ARCHIVED"}]
    BY DEF IInv, TypeOK
  <2>3. op[s] \notin {"store", "delete"} => row' = row
    BY <2>1, <2>2 DEF NewRow
  <2>4. op[s] \in {"store", "delete"} =>
          row' = [row EXCEPT ![memory[s]] = IF op[s] = "store" THEN "ACTIVE" ELSE "ARCHIVED"]
    BY <2>1, <2>2 DEF NewRow
  <2>. QED
    BY <1>2, <2>3, <2>4 DEF Commit
<1>. QED
  BY <1>4, <1>5

\* The same, record by record.
LEMMA SavedRows ==
  ASSUME IInv, NEW s \in Sessions, Commit(s)
  PROVE  /\ row' \in [Rows -> {"absent", "ACTIVE", "ARCHIVED"}] /\ indexed' \subseteq Rows
         /\ \A r \in Rows : op[s] = "store" /\ r = memory[s] => row'[r] = "ACTIVE"
         /\ \A r \in Rows : op[s] = "delete" /\ r = memory[s] => row'[r] = "ARCHIVED"
         /\ \A r \in Rows : op[s] \notin {"store", "delete"} \/ r # memory[s] => row'[r] = row[r]
         /\ \A r \in Rows : r \in indexed' <=> r \in indexed \/ (embedded[s] /\ r = memory[s])
<1>1. /\ op[s] \in {"store", "delete"} => memory[s] \in Rows
      /\ embedded[s] => op[s] = "store"
      /\ row \in [Rows -> {"absent", "ACTIVE", "ARCHIVED"}] /\ indexed \subseteq Rows
  BY DEF IInv, TypeOK, Shape
<1>. QED
  BY <1>1, CommitSaves DEF Saved

\* A commit adds the reads it counted, one to each record it had loaded alone.
LEMMA CommitCounts ==
  ASSUME IInv, NEW s \in Sessions, Commit(s)
  PROVE  /\ count' \in [Rows -> Nat] /\ reads' \in [Rows -> Nat]
         /\ \A r \in Rows : Holds(s, r) => reads'[r] = reads[r] + 1 /\ count'[r] <= reads'[r]
         /\ \A r \in Rows : Holds(s, r) /\ r \notin raced => count'[r] = count[r] + 1
         /\ \A r \in Rows : ~Holds(s, r) => reads'[r] = reads[r] /\ count'[r] = count[r]
<1>1. /\ count' = [r \in Rows |-> IF Holds(s, r) THEN wrote[s][r] ELSE count[r]]
      /\ reads' = [r \in Rows |-> IF Holds(s, r) THEN reads[r] + 1 ELSE reads[r]]
  BY DEF Commit, Counted
<1>2. count \in [Rows -> Nat] /\ reads \in [Rows -> Nat] /\ wrote[s] \in [Rows -> Nat]
  BY DEF IInv, TypeOK
<1>3. \A r \in Rows : Holds(s, r) =>
        /\ wrote[s][r] <= reads[r] + 1
        /\ r \notin raced => wrote[s][r] = count[r] + 1
  BY DEF IInv, Counting, Holds
<1>. QED
  BY <1>1, <1>2, <1>3

\* A commit ends the transaction; the access counts it wrote take effect.
LEMMA CommitStep ==
  ASSUME IInv, NEW s \in Sessions, Commit(s)
  PROVE  IInv'
<1>0. Over(s)
  BY EndIsOver DEF Commit, IInv
<1>1. stage[s] = "commit" /\ memory[s] \in Rows \cup {NoRow}
      /\ (op[s] \in {"store", "delete"} => memory[s] \in Rows) /\ (embedded[s] => op[s] = "store")
  BY DEF Commit, IInv, TypeOK, Shape
<1>2. UNCHANGED <<vectors, drawn, served, announced, raced, abandoned, severed>>
  BY DEF Commit
<1>3. TypeOK'
  BY <1>0, <1>2, SavedRows, CommitCounts DEF IInv, TypeOK, Over
<1>4. Shape'
  BY <1>0 DEF Shape, IInv, Over
<1>5. \A t \in Sessions : op[t] = "store" => memory[t] \in Rows
  BY DEF IInv, TypeOK, Shape
<1>6. \A t \in Sessions : op'[t] # "none" =>
        /\ t # s /\ op[t] = op'[t] /\ memory[t] = memory'[t] /\ stage[t] = stage'[t]
        /\ embedded[t] = embedded'[t]
  BY <1>0 DEF Over
<1>7. Fresh'
  <2>1. ASSUME NEW t \in Sessions, op'[t] = "store" PROVE
          /\ row'[memory'[t]] = "absent"
          /\ \A u \in Sessions : memory'[u] = memory'[t] => u = t
          /\ memory'[t] \in vectors' <=> embedded'[t]
          /\ stage'[t] = "embed" => ~embedded'[t]
    <3>1. t # s /\ op[t] = "store" /\ memory[t] \in Rows /\ memory'[t] = memory[t]
      BY <1>5, <1>6, <2>1
    <3>2. memory[t] # memory[s] /\ row[memory[t]] = "absent"
      BY <3>1 DEF IInv, Fresh
    <3>3. row'[memory'[t]] = "absent"
      BY <3>1, <3>2, SavedRows
    <3>4. \A u \in Sessions : memory'[u] = memory'[t] => u = t
      BY <3>1, <1>0 DEF IInv, Fresh, Over
    <3>. QED
      BY <1>2, <1>6, <2>1, <3>1, <3>3, <3>4 DEF IInv, Fresh
  <2>. QED
    BY <2>1 DEF Fresh
<1>8. \A r \in Rows : row[r] # "absent" => row'[r] # "absent"
  BY SavedRows
<1>9. Loaded'
  <2>1. \A t \in Sessions : memory'[t] # NoRow => t # s /\ op'[t] = op[t] /\ memory'[t] = memory[t] /\ memory[t] \in Rows
    BY <1>0 DEF Over, IInv, TypeOK
  <2>. QED
    BY <2>1, <1>8 DEF IInv, Loaded
<1>10. Drawn'
  <2>1. \A r \in Rows : row'[r] # "absent" => r \in drawn'
    BY <1>1, <1>2, SavedRows DEF IInv, Drawn
  <2>2. \A r \in indexed' : row'[r] # "absent"
    BY <1>1, SavedRows DEF IInv, Drawn
  <2>3. \A t \in Sessions : memory'[t] # NoRow => memory'[t] \in drawn'
    BY <1>0, <1>2 DEF IInv, Drawn, Over
  <2>. QED
    BY <1>2, <2>1, <2>2, <2>3 DEF IInv, Drawn
<1>11. Cut'
  <2>1. severed \subseteq Rows
    BY DEF IInv, TypeOK
  <2>2. \A r \in severed' : r \notin vectors' /\ row'[r] # "absent"
    BY <1>2, <1>8, <2>1 DEF IInv, Cut
  <2>. QED
    BY <1>2, <1>6, <2>2 DEF IInv, Cut
<1>12. Solo'
  BY <1>0, <1>2, SoloStays DEF IInv
<1>13. Counting'
  <2> SUFFICES ASSUME NEW t \in Sessions
      PROVE /\ \A r \in hits'[t] : wrote'[t][r] = 0
            /\ stage'[t] = "touch" =>
                 /\ memory'[t] \notin hits'[t] /\ wrote'[t][memory'[t]] = 0
                 /\ saw'[t] <= reads'[memory'[t]]
                 /\ memory'[t] \notin raced' => saw'[t] = count'[memory'[t]]
            /\ \A r \in Rows : wrote'[t][r] # 0 =>
                 /\ wrote'[t][r] <= reads'[r] + 1
                 /\ r \notin raced' => wrote'[t][r] = count'[r] + 1
    BY DEF Counting
  <2>1. CASE t = s
    BY <2>1, <1>0 DEF Over, Nothing
  <2>2. CASE t # s
    <3>1. /\ stage'[t] = stage[t] /\ memory'[t] = memory[t] /\ hits'[t] = hits[t]
          /\ saw'[t] = saw[t] /\ wrote'[t] = wrote[t] /\ raced' = raced
      BY <2>2, <1>0, <1>2 DEF Over
    <3>2. \A r \in Rows : On(t, r) /\ r \notin raced => ~Holds(s, r)
      BY <2>2 DEF IInv, Solo, On
    <3>3. \A r \in Rows : On(t, r) /\ r \notin raced => count'[r] = count[r]
      BY <3>2, CommitCounts
    <3>4. count \in [Rows -> Nat] /\ reads \in [Rows -> Nat] /\ saw[t] \in Nat /\ wrote[t] \in [Rows -> Nat]
      BY DEF IInv, TypeOK
    <3>5. \A r \in Rows : reads'[r] \in Nat /\ reads'[r] >= reads[r]
      BY <3>4, CommitCounts
    <3>6. stage[t] = "touch" => memory[t] \in Rows /\ On(t, memory[t])
      BY DEF IInv, TypeOK, Shape, On
    <3>7. ASSUME stage[t] = "touch" PROVE
            /\ memory[t] \notin hits[t] /\ wrote[t][memory[t]] = 0
            /\ saw[t] <= reads'[memory[t]]
            /\ memory[t] \notin raced => saw[t] = count'[memory[t]]
      <4>1. saw[t] <= reads[memory[t]]
        BY <3>7 DEF IInv, Counting
      <4>2. saw[t] <= reads'[memory[t]]
        BY <4>1, <3>7, <3>4, <3>5, <3>6
      <4>. QED
        BY <3>7, <4>2, <3>3, <3>6 DEF IInv, Counting
    <3>8. ASSUME NEW r \in Rows, wrote[t][r] # 0 PROVE
            /\ wrote[t][r] <= reads'[r] + 1
            /\ r \notin raced => wrote[t][r] = count'[r] + 1
      <4>1. wrote[t][r] <= reads[r] + 1 /\ On(t, r)
        BY <3>8 DEF IInv, Counting, On, Holds
      <4>2. wrote[t][r] <= reads'[r] + 1
        BY <4>1, <3>4, <3>5
      <4>. QED
        BY <3>8, <4>1, <4>2, <3>3 DEF IInv, Counting
    <3>. QED
      BY <3>1, <3>7, <3>8 DEF IInv, Counting
  <2>. QED
    BY <2>1, <2>2
<1>14. IndexAgrees'
  <2> SUFFICES ASSUME NEW r \in Rows
      PROVE /\ row'[r] = "ARCHIVED" => r \notin vectors'
            /\ row'[r] = "ACTIVE" /\ r \notin severed' /\ ~Deleting(r)' => (r \in vectors' <=> r \in indexed')
    BY DEF IndexAgrees
  <2>1. CASE op[s] = "store" /\ r = memory[s]
    <3>1. row'[r] = "ACTIVE" /\ (r \in indexed' <=> r \in indexed \/ embedded[s])
      BY <2>1, SavedRows
    <3>2. row[r] = "absent" /\ (r \in vectors <=> embedded[s])
      BY <2>1 DEF IInv, Fresh
    <3>3. r \notin indexed
      BY <3>2 DEF IInv, Drawn
    <3>. QED
      BY <1>2, <3>1, <3>2, <3>3
  <2>2. CASE op[s] = "delete" /\ r = memory[s]
    <3>1. row'[r] = "ARCHIVED"
      BY <2>2, SavedRows
    <3>2. r \notin vectors
      BY <1>1, <2>2 DEF IInv, Cut
    <3>. QED
      BY <1>2, <3>1, <3>2
  <2>3. CASE op[s] \notin {"store", "delete"} \/ r # memory[s]
    <3>1. row'[r] = row[r] /\ (r \in indexed' <=> r \in indexed)
      BY <1>1, <2>3, SavedRows
    <3>2. Deleting(r) => Deleting(r)'
      BY <1>0, <2>3 DEF Over, Deleting
    <3>. QED
      BY <1>2, <3>1, <3>2 DEF IInv, IndexAgrees
  <2>. QED
    BY <2>1, <2>2, <2>3
<1>15. NothingLeftBehind'
  <2> SUFFICES ASSUME NEW r \in vectors \cup announced
      PROVE row'[r] # "absent" \/ Storing(r)' \/ r \in abandoned
    BY <1>2 DEF NothingLeftBehind
  <2>1. r \in Rows /\ (row[r] # "absent" \/ Storing(r) \/ r \in abandoned)
    BY DEF IInv, TypeOK, NothingLeftBehind
  <2>2. CASE Storing(r)
    <3>1. PICK t \in Sessions : op[t] = "store" /\ memory[t] = r
      BY <2>2 DEF Storing
    <3>2. CASE t = s
      BY <2>1, <3>1, <3>2, SavedRows
    <3>3. CASE t # s
      <4>1. op'[t] = "store" /\ memory'[t] = r
        BY <1>0, <3>1, <3>3 DEF Over
      <4>. QED
        BY <4>1 DEF Storing
    <3>. QED
      BY <3>2, <3>3
  <2>. QED
    BY <1>8, <2>1, <2>2
<1>16. CountsReads'
  <2>1. count \in [Rows -> Nat] /\ reads \in [Rows -> Nat]
    BY DEF IInv, TypeOK
  <2>. QED
    BY <1>2, <2>1, CommitCounts DEF IInv, CountsReads
<1>. QED
  BY <1>3, <1>4, <1>7, <1>9, <1>10, <1>11, <1>12, <1>13, <1>14, <1>15, <1>16 DEF IInv

\* No step breaks IInv.
LEMMA NextStep == IInv /\ [Next]_vars => IInv'
<1> SUFFICES ASSUME IInv, [Next]_vars PROVE IInv'
  OBVIOUS
<1>1. CASE UNCHANGED vars
  BY <1>1 DEF vars, database, session, history, IInv, TypeOK, Shape, Fresh, Loaded, Drawn, Cut, Solo, Counting,
    IndexAgrees, NothingLeftBehind, CountsReads, On, Holds, Storing, Deleting
<1>2. CASE Next
  BY <1>2, StoreStep, EmbedStep, PublishStep, SearchStep, ReadStep, LoadHitStep, PassHitStep, TouchStep,
    UnindexStep, AbortStep, VictimStep, CommitStep DEF Next, Advance
<1>. QED
  BY <1>1, <1>2

\* The inductive invariant holds in every reachable state.
THEOREM Invariance == Spec => []IInv
BY InitIInv, NextStep, PTL DEF Spec

\* Every variable has its type, for any constants.
THEOREM TypeCorrect == Spec => []TypeOK
<1>1. IInv => TypeOK
  BY DEF IInv
<1>. QED
  BY <1>1, Invariance, PTL

\* Rows and vectors agree, however requests interleave and fail: an archived
\* record has no vector, an active one has its own unless a delete failed.
THEOREM IndexAlwaysAgrees == Spec => []IndexAgrees
<1>1. IInv => IndexAgrees
  BY DEF IInv
<1>. QED
  BY <1>1, Invariance, PTL

\* Whatever is found or announced without a record belongs to a store that is
\* under way or has failed.
THEOREM NothingIsLeftBehind == Spec => []NothingLeftBehind
<1>1. IInv => NothingLeftBehind
  BY DEF IInv
<1>. QED
  BY <1>1, Invariance, PTL

\* Reads of a record that did not meet are all counted, and none twice.
THEOREM ReadsAreCounted == Spec => []CountsReads
<1>1. IInv => CountsReads
  BY DEF IInv
<1>. QED
  BY <1>1, Invariance, PTL

-----------------------------------------------------------------------------
(* The refinement *)

\* The empty store is the one RecordLifecycle starts with.
LEMMA InitRefines == Init => Promise!Absent
BY DEF Init, Promise!Absent

\* A commit of a store creates, one of a delete archives, and every other step
\* changes nothing that RecordLifecycle sees.
LEMMA StepRefines == IInv /\ [Next]_vars => [Promise!Advance]_(Promise!lifecycle)
<1> SUFFICES ASSUME IInv, [Next]_vars PROVE [Promise!Advance]_(Promise!lifecycle)
  OBVIOUS
<1> DEFINE searchable == {r \in indexed : row[r] = "ACTIVE"}
<1>1. CASE UNCHANGED <<row, indexed>>
  BY <1>1 DEF Promise!lifecycle
<1>2. ASSUME NEW s \in Sessions, Commit(s) PROVE [Promise!Advance]_(Promise!lifecycle)
  <2>0. Saved(s)
    BY <1>2, CommitSaves
  <2>t. row \in [Rows -> {"absent", "ACTIVE", "ARCHIVED"}] /\ indexed \subseteq Rows
    BY DEF IInv, TypeOK
  <2>1. CASE op[s] = "store"
    <3>1. memory[s] \in Rows /\ row[memory[s]] = "absent"
      BY <2>1 DEF IInv, TypeOK, Shape, Fresh
    <3>2. memory[s] \notin indexed
      BY <3>1 DEF IInv, Drawn
    <3>3. /\ row' = [row EXCEPT ![memory[s]] = "ACTIVE"]
          /\ indexed' = indexed \/ indexed' = indexed \cup {memory[s]}
      BY <2>0, <2>1 DEF Saved
    <3>4. searchable' \in {searchable, searchable \cup {memory[s]}}
      BY <2>t, <3>1, <3>2, <3>3
    <3>5. PICK r \in Rows : r = memory[s]
      BY <3>1
    <3>6. Promise!Create(r)
      BY <3>1, <3>3, <3>4, <3>5 DEF Promise!Create
    <3>. QED
      BY <3>6 DEF Promise!Advance
  <2>2. CASE op[s] = "delete"
    <3>1. memory[s] \in Rows /\ row[memory[s]] # "absent"
      BY <2>2 DEF IInv, TypeOK, Shape, Loaded
    <3>2. row' = [row EXCEPT ![memory[s]] = "ARCHIVED"] /\ indexed' = indexed
      BY <2>0, <2>2 DEF Saved
    <3>3. searchable' = searchable \ {memory[s]}
      BY <2>t, <3>1, <3>2
    <3>4. CASE row[memory[s]] = "ACTIVE"
      <4>1. PICK r \in Rows : r = memory[s]
        BY <3>1
      <4>2. Promise!Archive(r)
        BY <3>2, <3>3, <3>4, <4>1 DEF Promise!Archive
      <4>. QED
        BY <4>2 DEF Promise!Advance
    <3>5. CASE row[memory[s]] = "ARCHIVED"
      <4>1. UNCHANGED <<row, indexed>>
        BY <2>t, <3>1, <3>2, <3>5
      <4>. QED
        BY <1>1, <4>1
    <3>. QED
      BY <2>t, <3>1, <3>4, <3>5
  <2>3. CASE op[s] \notin {"store", "delete"}
    BY <1>1, <2>0, <2>3 DEF Saved
  <2>. QED
    BY <2>1, <2>2, <2>3
<1>3. ASSUME Next, \A s \in Sessions : ~Commit(s) PROVE UNCHANGED <<row, indexed>>
  BY <1>3 DEF Next, Advance, Store, Embed, PublishStored, Search, LoadHit, PassHit, Get, Delete, Touch, Unindex,
    Abort, Victim, database
<1>4. CASE UNCHANGED vars
  BY <1>1, <1>4 DEF vars, database
<1>. QED
  BY <1>1, <1>2, <1>3, <1>4

\* For any number of sessions and records, the store implements RecordLifecycle:
\* a record is created once, archived for good, and found only while ACTIVE.
THEOREM Refinement == Spec => RecordsKept
BY InitRefines, StepRefines, Invariance, PTL DEF Spec, RecordsKept, Promise!Lifecycle
=============================================================================
