--------------------------- MODULE SchedulerProofs ---------------------------
(***************************************************************************)
(* What holds of Scheduler for any number of jobs and clients and any      *)
(* bounds, from one inductive invariant, IInv.                             *)
(***************************************************************************)
EXTENDS Scheduler, TLAPS

\* What clients and the loop hold at each of their steps.
Shape ==
  /\ \A c \in Clients : stage[c] = "idle" <=> job[c] = NoJob
  /\ poller \in {"zrem", "delete"} <=> current # NoJob
  /\ poller = "sleep" => found = {} /\ batch = {}
  /\ poller # "read" => found = {}

\* A version belongs to one id, and one not made yet was never dispatched.
Ownership ==
  /\ \A j \in Jobs : data[j] <= versions
  /\ \A v \in Versions : v > versions => times[v] = 0
  /\ \A j \in Jobs, v \in Versions : <<j, v>> \in batch => v <= versions
  /\ \A j, k \in Jobs : data[j] = data[k] /\ data[j] # 0 => j = k
  /\ \A j, k \in Jobs : \A v \in Versions : <<j, v>> \in batch /\ data[k] = v => j = k

\* On a job that was left alone there is one activity at a time.
Alone ==
  \A j \in Jobs \ disturbed :
    /\ \A c, d \in Clients : job[c] = j /\ job[d] = j => c = d
    /\ ClientOn(j) => ~LoopOn(j)
    /\ j \in found => \A v \in Versions : <<j, v>> \notin batch
    /\ \A v, w \in Versions : <<j, v>> \in batch /\ <<j, w>> \in batch => v = w
    /\ j = current => j \notin found /\ \A v \in Versions : <<j, v>> \notin batch

\* How far the client working on such a job has come.
ClientProgress ==
  \A j \in Left : \A c \in Clients : job[c] = j =>
    /\ stage[c] = "zadd" => data[j] # 0
    /\ stage[c] = "delete" => entry[j] = "none"

\* How far the loop has come with it.
LoopProgress ==
  \A j \in Left :
    /\ j \in found => entry[j] = "due"
    /\ j = current /\ poller = "delete" => entry[j] = "none"

IInv == /\ TypeOK /\ Shape /\ Ownership /\ Alone /\ ClientProgress /\ LoopProgress
        /\ KeysAgree /\ DispatchesWhatIsDue /\ OneShotOnce

-----------------------------------------------------------------------------
USE SchedulerAssumption

\* Without jobs and with the loop asleep IInv holds.
LEMMA InitIInv == Init => IInv
<1> SUFFICES ASSUME Init PROVE IInv
  OBVIOUS
<1> USE DEF Init
<1>1. TypeOK
  <2>1. entry \in [Jobs -> {"none", "later", "due"}] /\ data \in [Jobs -> {0} \cup Versions]
    OBVIOUS
  <2>2. versions \in 0 .. MaxVersions /\ recurring \subseteq 1 .. versions /\ failures \in 0 .. MaxFailures
    OBVIOUS
  <2>3. times \in [Versions -> 0 .. 2]
    OBVIOUS
  <2>4. stage \in [Clients -> {"idle", "zadd", "delete"}] /\ job \in [Clients -> Jobs \cup {NoJob}]
    OBVIOUS
  <2>5. /\ running \in BOOLEAN /\ poller = "sleep" /\ current = NoJob
        /\ found = {} /\ batch = {} /\ disturbed = {} /\ lapsed = {}
    OBVIOUS
  <2>. QED
    BY <2>1, <2>2, <2>3, <2>4, <2>5 DEF TypeOK
<1>2. Shape /\ Ownership
  BY DEF Shape, Ownership
<1>3. Alone /\ ClientProgress /\ LoopProgress
  BY DEF Alone, ClientProgress, LoopProgress, LoopOn
<1>4. KeysAgree /\ DispatchesWhatIsDue /\ OneShotOnce
  BY DEF KeysAgree, DispatchesWhatIsDue, OneShotOnce, Left
<1>. QED
  BY <1>1, <1>2, <1>3, <1>4 DEF IInv

\* A new version is nobody else's; meeting another activity is counted.
LEMMA ScheduleStep ==
  ASSUME IInv, NEW c \in Clients, NEW j \in Jobs, NEW b \in BOOLEAN, Schedule(c, j, b)
  PROVE  IInv'
<1> USE DEF IInv, TypeOK, Versions, Schedule, Call, keys, clients, loop
<1>1. TypeOK'
  OBVIOUS
<1>2. Alone'
  BY DEF Alone, ClientOn, LoopOn
<1>3. ClientProgress'
  BY DEF ClientProgress, Shape, ClientOn, Left
<1>4. LoopProgress'
  BY DEF LoopProgress, Left
<1>5. KeysAgree'
  BY DEF KeysAgree, Shape, ClientOn, Left
<1>6. DispatchesWhatIsDue'
  BY DEF DispatchesWhatIsDue, ClientOn, LoopOn, Left
<1>7. OneShotOnce'
  BY DEF OneShotOnce, Ownership, ClientOn, LoopOn, Left
<1>8. Shape' /\ Ownership'
  BY DEF Shape, Ownership
<1>. QED
  BY <1>1, <1>2, <1>3, <1>4, <1>5, <1>6, <1>7, <1>8

\* The entry joins data that is already there.
LEMMA AddEntryStep == ASSUME IInv, NEW c \in Clients, AddEntry(c) PROVE IInv'
<1> USE DEF IInv, TypeOK, Versions, AddEntry, Return, keys, clients, loop
<1>1. TypeOK'
  BY DEF Shape
<1>2. Alone'
  BY DEF Alone, ClientOn, LoopOn
<1>3. ClientProgress'
  BY DEF ClientProgress, Alone, Shape, ClientOn, Left
<1>4. LoopProgress'
  BY DEF LoopProgress, Alone, ClientOn, LoopOn, Left
<1>5. KeysAgree'
  BY DEF KeysAgree, ClientProgress, Alone, Shape, ClientOn, Left
<1>a. job[c] \in Jobs /\ ClientOn(job[c])
  BY DEF Shape, ClientOn
<1>6. DispatchesWhatIsDue'
  BY <1>a DEF DispatchesWhatIsDue, LoopProgress, Alone, ClientOn, LoopOn, Left
<1>7. OneShotOnce'
  BY DEF OneShotOnce, Ownership, DispatchesWhatIsDue, Shape, ClientOn, LoopOn, Left
<1>8. Shape' /\ Ownership'
  BY DEF Shape, Ownership
<1>. QED
  BY <1>1, <1>2, <1>3, <1>4, <1>5, <1>6, <1>7, <1>8

\* The entry goes first; meeting another activity is counted.
LEMMA CancelStep ==
  ASSUME IInv, NEW c \in Clients, NEW j \in Jobs, Cancel(c, j)
  PROVE  IInv'
<1> USE DEF IInv, TypeOK, Versions, Cancel, Call, keys, clients, loop
<1>1. TypeOK'
  OBVIOUS
<1>2. Alone'
  <2>. USE DEF Alone, ClientOn, LoopOn
  <2>1. \A i \in Jobs \ disturbed' :
          /\ \A d, e \in Clients : job'[d] = i /\ job'[e] = i => d = e
          /\ ClientOn(i)' => ~LoopOn(i)'
    OBVIOUS
  <2>2. \A i \in Jobs \ disturbed' :
          /\ i \in found' => \A v \in Versions : <<i, v>> \notin batch'
          /\ \A v, w \in Versions : <<i, v>> \in batch' /\ <<i, w>> \in batch' => v = w
          /\ i = current' => i \notin found' /\ \A v \in Versions : <<i, v>> \notin batch'
    OBVIOUS
  <2>. QED
    BY <2>1, <2>2
<1>3. ClientProgress'
  BY DEF ClientProgress, Shape, ClientOn, Left
<1>4. LoopProgress'
  BY DEF LoopProgress, LoopOn, Left
<1>5. KeysAgree'
  BY DEF KeysAgree, Shape, ClientOn, Left
<1>6. DispatchesWhatIsDue'
  BY DEF DispatchesWhatIsDue, ClientOn, LoopOn, Left
<1>7. OneShotOnce'
  BY DEF OneShotOnce, ClientOn, LoopOn, Left
<1>8. Shape' /\ Ownership'
  BY DEF Shape, Ownership
<1>. QED
  BY <1>1, <1>2, <1>3, <1>4, <1>5, <1>6, <1>7, <1>8

\* The data follows an entry that is gone.
LEMMA DeleteDataStep == ASSUME IInv, NEW c \in Clients, DeleteData(c) PROVE IInv'
<1> USE DEF IInv, TypeOK, Versions, DeleteData, Return, keys, clients, loop
<1>1. TypeOK'
  OBVIOUS
<1>2. Alone'
  <2>. USE DEF Alone, ClientOn, LoopOn
  <2>1. \A i \in Jobs \ disturbed' :
          /\ \A d, e \in Clients : job'[d] = i /\ job'[e] = i => d = e
          /\ ClientOn(i)' => ~LoopOn(i)'
    OBVIOUS
  <2>2. \A i \in Jobs \ disturbed' :
          /\ i \in found' => \A v \in Versions : <<i, v>> \notin batch'
          /\ \A v, w \in Versions : <<i, v>> \in batch' /\ <<i, w>> \in batch' => v = w
          /\ i = current' => i \notin found' /\ \A v \in Versions : <<i, v>> \notin batch'
    OBVIOUS
  <2>. QED
    BY <2>1, <2>2
<1>3. ClientProgress'
  BY DEF ClientProgress, Alone, Shape, ClientOn, Left
<1>4. LoopProgress'
  BY DEF LoopProgress, Alone, Left
<1>5. KeysAgree'
  BY DEF KeysAgree, ClientProgress, ClientOn, Left
<1>6. DispatchesWhatIsDue'
  BY DEF DispatchesWhatIsDue, LoopProgress, Alone, ClientOn, LoopOn, Left
<1>7. OneShotOnce'
  BY DEF OneShotOnce, DispatchesWhatIsDue, Shape, ClientOn, LoopOn, Left
<1>8. Shape' /\ Ownership'
  BY DEF Shape, Ownership
<1>. QED
  BY <1>1, <1>2, <1>3, <1>4, <1>5, <1>6, <1>7, <1>8

\* A client that stops halfway is counted.
LEMMA ClientFailsStep == ASSUME IInv, NEW c \in Clients, ClientFails(c) PROVE IInv'
<1> USE DEF IInv, TypeOK, Versions, ClientFails, Return, keys, clients, loop
<1>1. TypeOK'
  BY DEF Shape
<1>2. Alone'
  BY DEF Alone, ClientOn, LoopOn
<1>3. ClientProgress'
  BY DEF ClientProgress, Shape, ClientOn, Left
<1>4. LoopProgress'
  BY DEF LoopProgress, Left
<1>5. KeysAgree'
  BY DEF KeysAgree, ClientOn, Left
<1>6. DispatchesWhatIsDue'
  BY DEF DispatchesWhatIsDue, LoopOn, Left
<1>7. OneShotOnce'
  BY DEF OneShotOnce, LoopOn, Left
<1>8. Shape' /\ Ownership'
  BY DEF Shape, Ownership
<1>. QED
  BY <1>1, <1>2, <1>3, <1>4, <1>5, <1>6, <1>7, <1>8

\* A loop that starts holds nothing.
LEMMA StartStep == ASSUME IInv, Start PROVE IInv'
<1> USE DEF IInv, TypeOK, Versions, Start, keys, clients, loop
<1>1. TypeOK'
  OBVIOUS
<1>2. Alone'
  BY DEF Alone, ClientOn, LoopOn
<1>3. ClientProgress'
  BY DEF ClientProgress, Shape, ClientOn, Left
<1>4. LoopProgress'
  BY DEF LoopProgress, Left
<1>5. KeysAgree'
  BY DEF KeysAgree, ClientOn, Left
<1>6. DispatchesWhatIsDue'
  BY DEF DispatchesWhatIsDue, LoopOn, Left
<1>7. OneShotOnce'
  BY DEF OneShotOnce, LoopOn, Left
<1>8. Shape' /\ Ownership'
  BY DEF Shape, Ownership
<1>. QED
  BY <1>1, <1>2, <1>3, <1>4, <1>5, <1>6, <1>7, <1>8

\* A stopped loop forgets its tick; a removal cut short is counted.
LEMMA StopStep == ASSUME IInv, Stop PROVE IInv'
<1> USE DEF IInv, TypeOK, Versions, Stop, Forget, keys, clients, loop
<1>1. TypeOK'
  OBVIOUS
<1>2. Alone'
  BY DEF Alone, LoopOn
<1>3. ClientProgress'
  BY DEF ClientProgress, ClientOn, Left
<1>4. LoopProgress'
  BY DEF LoopProgress, Left
<1>5. KeysAgree'
  BY DEF KeysAgree, ClientOn, Left
<1>6. DispatchesWhatIsDue'
  BY DEF DispatchesWhatIsDue, LoopOn
<1>7. OneShotOnce'
  BY DEF OneShotOnce, Left
<1>8. Shape' /\ Ownership'
  BY DEF Shape, Ownership
<1>. QED
  BY <1>1, <1>2, <1>3, <1>4, <1>5, <1>6, <1>7, <1>8

\* A crash forgets every activity, and counts those cut short.
LEMMA CrashStep == ASSUME IInv, Crash PROVE IInv'
<1> USE DEF IInv, TypeOK, Versions, Crash, Forget, keys, clients, loop
<1>1. TypeOK'
  OBVIOUS
<1>2. Alone'
  BY DEF Alone, LoopOn
<1>3. ClientProgress'
  BY DEF ClientProgress, ClientOn
<1>4. KeysAgree'
  BY DEF KeysAgree, Left
<1>5. OneShotOnce'
  BY DEF OneShotOnce, Left
<1>6. Shape' /\ Ownership' /\ LoopProgress' /\ DispatchesWhatIsDue'
  BY DEF Shape, Ownership, LoopProgress, DispatchesWhatIsDue
<1>. QED
  BY <1>1, <1>2, <1>3, <1>4, <1>5, <1>6

\* What a tick finds is due, and a client it meets there is counted.
LEMMA PollStep == ASSUME IInv, Poll PROVE IInv'
<1> USE DEF IInv, TypeOK, Versions, Poll, keys, clients, loop
<1>1. TypeOK'
  OBVIOUS
<1>2. Alone'
  BY DEF Alone, Shape, ClientOn, LoopOn
<1>3. ClientProgress'
  BY DEF ClientProgress, Alone, Shape, ClientOn, Left
<1>4. LoopProgress'
  BY DEF LoopProgress, Left
<1>5. KeysAgree'
  BY DEF KeysAgree, ClientOn, Left
<1>6. DispatchesWhatIsDue'
  BY DEF DispatchesWhatIsDue, LoopOn, Left
<1>7. OneShotOnce'
  BY DEF OneShotOnce, LoopOn, Left
<1>8. Shape' /\ Ownership'
  BY DEF Shape, Ownership
<1>. QED
  BY <1>1, <1>2, <1>3, <1>4, <1>5, <1>6, <1>7, <1>8

\* What is read into the batch is the version that stands.
LEMMA ReadJobStep == ASSUME IInv, NEW j \in Jobs, ReadJob(j) PROVE IInv'
<1> USE DEF IInv, TypeOK, Versions, ReadJob, keys, clients, loop
<1>1. TypeOK'
  OBVIOUS
<1>2. Alone'
  <2>. USE DEF Alone, ClientOn, LoopOn
  <2>1. \A i \in Jobs \ disturbed' :
          /\ \A d, e \in Clients : job'[d] = i /\ job'[e] = i => d = e
          /\ ClientOn(i)' => ~LoopOn(i)'
    OBVIOUS
  <2>2. \A i \in Jobs \ disturbed' :
          /\ i \in found' => \A v \in Versions : <<i, v>> \notin batch'
          /\ \A v, w \in Versions : <<i, v>> \in batch' /\ <<i, w>> \in batch' => v = w
          /\ i = current' => i \notin found' /\ \A v \in Versions : <<i, v>> \notin batch'
    OBVIOUS
  <2>. QED
    BY <2>1, <2>2
<1>3. ClientProgress'
  BY DEF ClientProgress, Shape, ClientOn, Left
<1>4. LoopProgress'
  BY DEF LoopProgress, Left
<1>5. KeysAgree'
  BY DEF KeysAgree, ClientOn, Left
<1>6. DispatchesWhatIsDue'
  BY DEF DispatchesWhatIsDue, LoopProgress, LoopOn, Left
<1>7. OneShotOnce'
  BY DEF OneShotOnce, Ownership, LoopOn, Left
<1>8. Shape' /\ Ownership'
  BY DEF Shape, Ownership
<1>. QED
  BY <1>1, <1>2, <1>3, <1>4, <1>5, <1>6, <1>7, <1>8

\* A one-shot job is dispatched on its way out of both keys.
LEMMA DispatchStep ==
  ASSUME IInv, NEW j \in Jobs, NEW v \in Versions, Dispatch(j, v)
  PROVE  IInv'
<1> USE DEF IInv, TypeOK, Versions, Dispatch, Resume, keys, clients, loop
<1>1. TypeOK'
  OBVIOUS
<1>2. Alone'
  BY DEF Alone, ClientOn, LoopOn
<1>3. ClientProgress'
  BY DEF ClientProgress, Shape, ClientOn, Left
<1>4. LoopProgress'
  BY DEF LoopProgress, Left
<1>5. KeysAgree'
  BY DEF KeysAgree, Shape, ClientOn, Left
<1>6. DispatchesWhatIsDue'
  BY DEF DispatchesWhatIsDue, ClientOn, LoopOn, Left
<1>7. OneShotOnce'
  BY DEF OneShotOnce, Ownership, Shape, LoopOn, Left
<1>8. Shape' /\ Ownership'
  BY DEF Shape, Ownership
<1>. QED
  BY <1>1, <1>2, <1>3, <1>4, <1>5, <1>6, <1>7, <1>8

\* The loop removes the entry of the job it just dispatched.
LEMMA RemoveEntryStep == ASSUME IInv, RemoveEntry PROVE IInv'
<1> USE DEF IInv, TypeOK, Versions, RemoveEntry, keys, clients, loop
<1>1. TypeOK'
  OBVIOUS
<1>2. Alone'
  BY DEF Alone, ClientOn, LoopOn
<1>3. ClientProgress'
  BY DEF ClientProgress, Shape, ClientOn, Left
<1>4. LoopProgress'
  BY DEF LoopProgress, Shape, Left
<1>5. KeysAgree'
  BY DEF KeysAgree, LoopProgress, ClientOn, Left
<1>6. DispatchesWhatIsDue'
  BY DEF DispatchesWhatIsDue, Alone, LoopOn, Left
<1>7. OneShotOnce'
  BY DEF OneShotOnce, DispatchesWhatIsDue, LoopOn, Left
<1>8. Shape' /\ Ownership'
  BY DEF Shape, Ownership
<1>. QED
  BY <1>1, <1>2, <1>3, <1>4, <1>5, <1>6, <1>7, <1>8

\* Then its data.
LEMMA RemoveDataStep == ASSUME IInv, RemoveData PROVE IInv'
<1> USE DEF IInv, TypeOK, Versions, RemoveData, Resume, keys, clients, loop
<1>1. TypeOK'
  OBVIOUS
<1>2. Alone'
  BY DEF Alone, ClientOn, LoopOn
<1>3. ClientProgress'
  BY DEF ClientProgress, Alone, Shape, ClientOn, LoopOn, Left
<1>4. LoopProgress'
  BY DEF LoopProgress, Alone, ClientOn, LoopOn, Left
<1>5. KeysAgree'
  BY DEF KeysAgree, LoopProgress, ClientOn, Left
<1>6. DispatchesWhatIsDue'
  BY DEF DispatchesWhatIsDue, Alone, LoopOn, Left
<1>7. OneShotOnce'
  BY DEF OneShotOnce, DispatchesWhatIsDue, LoopOn, Left
<1>8. Shape' /\ Ownership'
  BY DEF Shape, Ownership
<1>. QED
  BY <1>1, <1>2, <1>3, <1>4, <1>5, <1>6, <1>7, <1>8

\* A removal that raises is counted.
LEMMA TickFailsStep == ASSUME IInv, TickFails PROVE IInv'
<1> USE DEF IInv, TypeOK, Versions, TickFails, Forget, Resume, keys, clients, loop
<1>1. TypeOK'
  BY DEF Shape
<1>2. Alone'
  BY DEF Alone, ClientOn, LoopOn
<1>3. ClientProgress'
  BY DEF ClientProgress, Shape, ClientOn, Left
<1>4. LoopProgress'
  BY DEF LoopProgress, Left
<1>5. KeysAgree'
  BY DEF KeysAgree, Shape, ClientOn, Left
<1>6. DispatchesWhatIsDue'
  BY DEF DispatchesWhatIsDue, ClientOn, LoopOn, Left
<1>7. OneShotOnce'
  BY DEF OneShotOnce, Shape, LoopOn, Left
<1>8. Shape' /\ Ownership'
  BY DEF Shape, Ownership
<1>. QED
  BY <1>1, <1>2, <1>3, <1>4, <1>5, <1>6, <1>7, <1>8

\* Time makes a waiting entry due.
LEMMA BecomesDueStep == ASSUME IInv, NEW j \in Jobs, BecomesDue(j) PROVE IInv'
<1> USE DEF IInv, TypeOK, Versions, BecomesDue, keys, clients, loop
<1>1. TypeOK'
  OBVIOUS
<1>2. Alone'
  BY DEF Alone, ClientOn, LoopOn
<1>3. ClientProgress'
  BY DEF ClientProgress, Shape, ClientOn, Left
<1>4. LoopProgress'
  BY DEF LoopProgress, Left
<1>5. KeysAgree'
  BY DEF KeysAgree, ClientOn, Left
<1>6. DispatchesWhatIsDue'
  BY DEF DispatchesWhatIsDue, LoopOn, Left
<1>7. OneShotOnce'
  BY DEF OneShotOnce, LoopOn, Left
<1>8. Shape' /\ Ownership'
  BY DEF Shape, Ownership
<1>. QED
  BY <1>1, <1>2, <1>3, <1>4, <1>5, <1>6, <1>7, <1>8

\* Data that lapses is counted.
LEMMA DataExpiresStep == ASSUME IInv, NEW j \in Jobs, DataExpires(j) PROVE IInv'
<1> USE DEF IInv, TypeOK, Versions, DataExpires, keys, clients, loop
<1>1. TypeOK'
  OBVIOUS
<1>2. Alone'
  BY DEF Alone, ClientOn, LoopOn
<1>3. ClientProgress'
  BY DEF ClientProgress, Shape, ClientOn, Left
<1>4. LoopProgress'
  BY DEF LoopProgress, Left
<1>5. KeysAgree'
  BY DEF KeysAgree, ClientOn, Left
<1>6. DispatchesWhatIsDue'
  BY DEF DispatchesWhatIsDue, LoopOn, Left
<1>7. OneShotOnce'
  BY DEF OneShotOnce, LoopOn, Left
<1>8. Shape' /\ Ownership'
  BY DEF Shape, Ownership
<1>. QED
  BY <1>1, <1>2, <1>3, <1>4, <1>5, <1>6, <1>7, <1>8

\* Nothing changes.
LEMMA StutterStep == ASSUME IInv, UNCHANGED vars PROVE IInv'
<1> USE DEF IInv, vars, keys, clients, loop
<1>1. TypeOK' /\ Shape' /\ Ownership'
  BY DEF TypeOK, Shape, Ownership
<1>2. Alone' /\ ClientProgress' /\ LoopProgress'
  BY DEF Alone, ClientProgress, LoopProgress, ClientOn, LoopOn, Left
<1>3. KeysAgree' /\ DispatchesWhatIsDue' /\ OneShotOnce'
  BY DEF KeysAgree, DispatchesWhatIsDue, OneShotOnce, ClientOn, Left
<1>. QED
  BY <1>1, <1>2, <1>3

\* Every step preserves IInv.
LEMMA NextStep == IInv /\ [Next]_vars => IInv'
BY ScheduleStep, AddEntryStep, CancelStep, DeleteDataStep, ClientFailsStep, StartStep, StopStep,
  CrashStep, PollStep, ReadJobStep, DispatchStep, RemoveEntryStep, RemoveDataStep, TickFailsStep,
  BecomesDueStep, DataExpiresStep, StutterStep DEF Next, Tick

\* IInv holds in every reachable state, whatever the constants.
THEOREM Invariance == Spec => []IInv
BY InitIInv, NextStep, PTL DEF Spec

\* The type invariant.
THEOREM TypeCorrect == Spec => []TypeOK
BY Invariance, PTL DEF IInv

\* Between operations the sorted set and the data keys name the same jobs.
THEOREM KeysAlwaysAgree == Spec => []KeysAgree
BY Invariance, PTL DEF IInv

\* A tick dispatches current, due jobs only.
THEOREM AlwaysDispatchesWhatIsDue == Spec => []DispatchesWhatIsDue
BY Invariance, PTL DEF IInv

\* A one-shot job that was dispatched is on its way out.
THEOREM AlwaysOneShotOnce == Spec => []OneShotOnce
BY Invariance, PTL DEF IInv

-----------------------------------------------------------------------------
(* The scheduler implements JobStore *)

\* What the mapping shows of a job.
Standing(j) == IF Removing(j) THEN 0 ELSE data[j]
IsDue(j) == entry[j] = "due" /\ ~ClientOn(j) /\ j # current

Same(j) == Standing(j)' = Standing(j) /\ (IsDue(j)' <=> IsDue(j))
Kept(changed) ==
  /\ disturbed \cup lapsed \subseteq disturbed' \cup lapsed'
  /\ \A j \in Jobs \ (disturbed' \cup lapsed' \cup changed) : Same(j)

LEMMA KeepMeans ==
  ASSUME NEW changed, Kept(changed)
  PROVE  Promise!Keep(changed)
BY DEF Promise!Keep, Kept, Same, Standing, IsDue

\* Keys, clients and the loop's current job are all that the mapping looks at.
LEMMA SameWhen ==
  ASSUME NEW j \in Jobs, data'[j] = data[j], entry'[j] = entry[j], current' = current, stage' = stage, job' = job
  PROVE  Same(j)
BY DEF Same, Standing, IsDue, Removing, ClientOn

\* A step that leaves alone what is not spoiled, and counts nothing.
LEMMA Spoils ==
  ASSUME Kept({}), UNCHANGED <<versions, recurring, times>>
  PROVE  Promise!Spoil
BY KeepMeans DEF Promise!Spoil

LEMMA InitRefines == Init => Promise!Empty
BY DEF Init, Promise!Empty, Removing, ClientOn

LEMMA ScheduleRefines ==
  ASSUME IInv, NEW c \in Clients, NEW j \in Jobs, NEW b \in BOOLEAN, Schedule(c, j, b)
  PROVE  Promise!Put(j)
<1> USE DEF Schedule, Call, loop
<1>1. versions' = versions + 1 /\ versions' \in Versions
  BY DEF IInv, TypeOK, Versions
<1>2. recurring' \in {recurring, recurring \cup {versions'}} /\ times' = times
  OBVIOUS
<1>3. ASSUME j \notin disturbed' \cup lapsed'
      PROVE  Standing(j)' = versions' /\ ~IsDue(j)'
  <2>1. ~ClientOn(j) /\ ~LoopOn(j)
    BY <1>3
  <2>2. job'[c] = j /\ stage'[c] = "zadd" /\ \A d \in Clients \ {c} : job'[d] # j
    BY <2>1 DEF ClientOn, IInv, TypeOK
  <2>3. ClientOn(j)' /\ ~Removing(j)'
    BY <2>1, <2>2 DEF ClientOn, LoopOn, Removing
  <2>4. data'[j] = versions'
    BY DEF IInv, TypeOK
  <2>. QED
    BY <2>3, <2>4 DEF Standing, IsDue
<1>4. Kept({j})
  <2>1. ASSUME NEW k \in Jobs \ {j}
        PROVE  Same(k)
    <3>1. data'[k] = data[k] /\ entry'[k] = entry[k] /\ current' = current
      BY DEF IInv, TypeOK
    <3>2. \A d \in Clients : job'[d] = k <=> job[d] = k
      BY DEF IInv, TypeOK, Shape
    <3>3. \A d \in Clients : job[d] = k => stage'[d] = stage[d]
      BY DEF IInv, TypeOK, Shape
    <3>. QED
      BY <3>1, <3>2, <3>3 DEF Same, Standing, IsDue, Removing, ClientOn
  <2>. QED
    BY <2>1 DEF Kept
<1>. QED
  BY <1>1, <1>2, <1>3, <1>4, KeepMeans DEF Promise!Put, Standing, IsDue

\* The score comes when the data is there already.
LEMMA AddEntryRefines ==
  ASSUME IInv, NEW c \in Clients, NEW j \in Jobs, job[c] = j, AddEntry(c)
  PROVE  Promise!ComesDue(j) \/ Promise!Spoil
<1> USE DEF AddEntry, Return, loop
<1>1. ClientOn(j) /\ stage[c] = "zadd"
  BY DEF IInv, TypeOK, Shape, ClientOn
<1>2. Kept({j})
  <2>1. ASSUME NEW k \in Jobs \ {j}
        PROVE  Same(k)
    <3>1. data'[k] = data[k] /\ entry'[k] = entry[k] /\ current' = current
      BY DEF IInv, TypeOK
    <3>2. \A d \in Clients : job'[d] = k <=> job[d] = k
      BY DEF IInv, TypeOK
    <3>3. \A d \in Clients : job[d] = k => stage'[d] = stage[d]
      BY DEF IInv, TypeOK
    <3>. QED
      BY <3>1, <3>2, <3>3 DEF Same, Standing, IsDue, Removing, ClientOn
  <2>. QED
    BY <2>1 DEF Kept
<1>3. CASE j \in disturbed \cup lapsed
  <2>1. Kept({})
    BY <1>2, <1>3 DEF Kept
  <2>. QED
    BY <2>1, Spoils
<1>4. CASE j \notin disturbed \cup lapsed
  <2>1. j # current /\ \A d \in Clients : job[d] = j => d = c
    BY <1>1, <1>4 DEF IInv, Alone, LoopOn
  <2>2. data[j] # 0
    BY <1>1, <1>4 DEF IInv, ClientProgress, Left
  <2>3. ~Removing(j) /\ ~Removing(j)'
    BY <1>1, <2>1 DEF Removing, IInv, TypeOK
  <2>4. ~ClientOn(j)' /\ ~IsDue(j)
    BY <1>1, <2>1 DEF ClientOn, IsDue, IInv, TypeOK
  <2>5. Standing(j) # 0 /\ Standing(j)' = Standing(j)
    BY <2>2, <2>3 DEF Standing
  <2>6. CASE IsDue(j)'
    <3>1. Promise!ComesDue(j)
      BY <1>1, <1>2, <1>4, <2>5, <2>6, KeepMeans DEF Promise!ComesDue, Standing, IsDue
    <3>. QED
      BY <3>1
  <2>7. CASE ~IsDue(j)'
    <3>1. Kept({})
      BY <1>2, <2>4, <2>5, <2>7 DEF Kept, Same
    <3>. QED
      BY <3>1, Spoils
  <2>. QED
    BY <2>6, <2>7
<1>. QED
  BY <1>3, <1>4

\* A cancelled job is gone with its entry.
LEMMA CancelRefines ==
  ASSUME IInv, NEW c \in Clients, NEW j \in Jobs, Cancel(c, j)
  PROVE  Promise!Drop(j)
<1> USE DEF Cancel, Call, loop
<1>1. ~IsDue(j)'
  BY DEF IsDue, IInv, TypeOK
<1>2. Removing(j)' /\ Standing(j)' = 0
  BY DEF Removing, Standing, IInv, TypeOK
<1>3. Kept({j})
  <2>1. ASSUME NEW k \in Jobs \ {j}
        PROVE  Same(k)
    <3>1. data'[k] = data[k] /\ entry'[k] = entry[k] /\ current' = current
      BY DEF IInv, TypeOK
    <3>2. \A d \in Clients : job'[d] = k <=> job[d] = k
      BY DEF IInv, TypeOK, Shape
    <3>3. \A d \in Clients : job[d] = k => stage'[d] = stage[d]
      BY DEF IInv, TypeOK, Shape
    <3>. QED
      BY <3>1, <3>2, <3>3 DEF Same, Standing, IsDue, Removing, ClientOn
  <2>. QED
    BY <2>1 DEF Kept
<1>. QED
  BY <1>1, <1>2, <1>3, KeepMeans DEF Promise!Drop, Standing, IsDue

\* Nothing stood any more when the data goes.
LEMMA DeleteDataRefines ==
  ASSUME IInv, NEW c \in Clients, DeleteData(c)
  PROVE  Promise!Spoil
<1> USE DEF DeleteData, Return, loop
<1>1. PICK j \in Jobs : job[c] = j
  BY DEF IInv, TypeOK, Shape
<1>2. ASSUME NEW k \in Jobs \ {j}
      PROVE  Same(k)
  <2>1. data'[k] = data[k] /\ entry'[k] = entry[k] /\ current' = current
    BY <1>1 DEF IInv, TypeOK
  <2>2. \A d \in Clients : job'[d] = k <=> job[d] = k
    BY <1>1 DEF IInv, TypeOK
  <2>3. \A d \in Clients : job[d] = k => stage'[d] = stage[d]
    BY <1>1 DEF IInv, TypeOK
  <2>. QED
    BY <2>1, <2>2, <2>3 DEF Same, Standing, IsDue, Removing, ClientOn
<1>3. ASSUME j \notin disturbed \cup lapsed
      PROVE  Same(j)
  <2>1. entry[j] = "none" /\ entry' = entry
    BY <1>1, <1>3 DEF IInv, ClientProgress, Left
  <2>2. ~IsDue(j) /\ ~IsDue(j)'
    BY <2>1 DEF IsDue
  <2>3. Removing(j) /\ Standing(j) = 0
    BY <1>1 DEF Removing, Standing
  <2>4. data'[j] = 0 /\ Standing(j)' = 0
    BY <1>1 DEF Standing, IInv, TypeOK
  <2>. QED
    BY <2>2, <2>3, <2>4 DEF Same
<1>4. Kept({})
  BY <1>2, <1>3 DEF Kept
<1>. QED
  BY <1>4, Spoils

LEMMA ClientFailsRefines ==
  ASSUME IInv, NEW c \in Clients, ClientFails(c)
  PROVE  Promise!Spoil
<1> USE DEF ClientFails, Return, keys, loop
<1>1. PICK j \in Jobs : job[c] = j
  BY DEF IInv, TypeOK, Shape
<1>2. ASSUME NEW k \in Jobs \ {j}
      PROVE  Same(k)
  <2>1. \A d \in Clients : job'[d] = k <=> job[d] = k
    BY <1>1 DEF IInv, TypeOK
  <2>2. \A d \in Clients : job[d] = k => stage'[d] = stage[d]
    BY <1>1 DEF IInv, TypeOK
  <2>. QED
    BY <2>1, <2>2 DEF Same, Standing, IsDue, Removing, ClientOn
<1>3. Kept({})
  BY <1>1, <1>2 DEF Kept
<1>. QED
  BY <1>3, Spoils

\* Who stops in the middle spoils what it was at.
LEMMA StopRefines == ASSUME IInv, Stop PROVE Promise!Spoil
<1> USE DEF Stop, Forget, keys, clients
<1>1. ASSUME NEW j \in Jobs, j \notin disturbed'
      PROVE  Same(j)
  <2>1. j # current /\ j # current'
    BY <1>1, SchedulerAssumption
  <2>. QED
    BY <2>1 DEF Same, Standing, IsDue, Removing, ClientOn
<1>2. Kept({})
  BY <1>1 DEF Kept
<1>. QED
  BY <1>2, Spoils

LEMMA CrashRefines == ASSUME IInv, Crash PROVE Promise!Spoil
<1> USE DEF Crash, Forget, keys
<1>1. ASSUME NEW j \in Jobs, j \notin disturbed'
      PROVE  Same(j)
  <2>1. j # current /\ j # current' /\ ~ClientOn(j) /\ ~ClientOn(j)'
    BY <1>1, SchedulerAssumption DEF ClientOn
  <2>2. ~Removing(j) /\ ~Removing(j)'
    BY <2>1 DEF Removing, ClientOn
  <2>. QED
    BY <2>1, <2>2 DEF Same, Standing, IsDue
<1>2. Kept({})
  BY <1>1 DEF Kept
<1>. QED
  BY <1>2, Spoils

\* What the loop reads changes nothing.
LEMMA ReadingRefines ==
  ASSUME IInv, Start \/ Poll \/ \E j \in Jobs : ReadJob(j)
  PROVE  Promise!Spoil
<1>1. /\ UNCHANGED <<entry, data, current, stage, job, versions, recurring, times>>
      /\ disturbed \cup lapsed \subseteq disturbed' \cup lapsed'
  BY DEF Start, Poll, ReadJob, keys, clients
<1>2. Kept({})
  BY <1>1, SameWhen DEF Kept
<1>. QED
  BY <1>1, <1>2, Spoils

\* A one-shot job is taken out by its dispatch: the two writes that remove it
\* change nothing more.
LEMMA DispatchRefines ==
  ASSUME IInv, NEW j \in Jobs, NEW v \in Versions, Dispatch(j, v)
  PROVE  Promise!Dispatched(j, v)
<1> USE DEF Dispatch, keys, clients
<1>1. current = NoJob /\ j # current
  BY SchedulerAssumption DEF IInv, Shape
<1>2. ASSUME NEW k \in Jobs \ {j}
      PROVE  Same(k)
  <2>1. k # current /\ k # current'
    BY <1>1, SchedulerAssumption
  <2>. QED
    BY <2>1 DEF Same, Standing, IsDue, Removing, ClientOn
<1>3. Kept({j})
  BY <1>2 DEF Kept
<1>4. ASSUME j \notin disturbed \cup lapsed
      PROVE  /\ Standing(j) = v /\ IsDue(j)
             /\ v \in recurring => Same(j)
             /\ v \notin recurring => times[v] = 0 /\ Standing(j)' = 0 /\ ~IsDue(j)'
  <2>1. entry[j] = "due" /\ data[j] = v /\ v # 0
    BY <1>4 DEF IInv, DispatchesWhatIsDue, Left, Versions
  <2>2. ~ClientOn(j)
    BY <1>4 DEF IInv, Alone, LoopOn
  <2>3. Standing(j) = v /\ IsDue(j)
    BY <1>1, <2>1, <2>2 DEF Standing, IsDue, Removing, ClientOn
  <2>4. v \in recurring => current' = current
    OBVIOUS
  <2>5. v \in recurring => Same(j)
    BY <2>4, SameWhen
  <2>6. v \notin recurring => times[v] = 0
    BY <1>1, <1>4, <2>1 DEF IInv, OneShotOnce, Left
  <2>7. v \notin recurring => current' = j
    OBVIOUS
  <2>8. v \notin recurring => Standing(j)' = 0 /\ ~IsDue(j)'
    BY <2>7 DEF Standing, IsDue, Removing
  <2>. QED
    BY <2>3, <2>5, <2>6, <2>8
<1>5. \A k \in Jobs \ {j} : Standing(k) # v
  <2>1. v # 0
    BY DEF Versions
  <2>2. \A k \in Jobs : data[k] = v => j = k
    BY DEF IInv, Ownership
  <2>. QED
    BY <2>1, <2>2 DEF Standing
<1>6. j \notin disturbed \cup lapsed /\ v \in recurring => Kept({})
  BY <1>3, <1>4 DEF Kept
<1>7. times' = [times EXCEPT ![v] = IF @ < 2 THEN @ + 1 ELSE @] /\ UNCHANGED <<versions, recurring, disturbed, lapsed>>
  OBVIOUS
<1>. QED
  BY <1>3, <1>4, <1>5, <1>6, <1>7, KeepMeans DEF Promise!Dispatched, Standing, IsDue

LEMMA RemoveEntryRefines == ASSUME IInv, RemoveEntry PROVE Promise!Spoil
<1> USE DEF RemoveEntry, clients
<1>1. ASSUME NEW j \in Jobs
      PROVE  Same(j)
  <2>1. CASE j = current
    BY <2>1 DEF Same, Standing, IsDue, Removing
  <2>2. CASE j # current
    <3>1. entry'[j] = entry[j]
      BY <2>2 DEF IInv, TypeOK
    <3>. QED
      BY <3>1, SameWhen
  <2>. QED
    BY <2>1, <2>2
<1>2. Kept({})
  BY <1>1 DEF Kept
<1>. QED
  BY <1>2, Spoils

LEMMA RemoveDataRefines == ASSUME IInv, RemoveData PROVE Promise!Spoil
<1> USE DEF RemoveData, clients
<1>1. ASSUME NEW j \in Jobs \ (disturbed \cup lapsed)
      PROVE  Same(j)
  <2>1. CASE j = current
    <3>1. entry[j] = "none" /\ entry' = entry /\ data'[j] = 0
      BY <1>1, <2>1 DEF IInv, LoopProgress, Left, TypeOK
    <3>. QED
      BY <2>1, <3>1 DEF Same, Standing, IsDue, Removing
  <2>2. CASE j # current
    <3>1. entry'[j] = entry[j] /\ data'[j] = data[j] /\ j # current'
      BY <2>2, SchedulerAssumption DEF IInv, TypeOK
    <3>. QED
      BY <2>2, <3>1 DEF Same, Standing, IsDue, Removing, ClientOn
  <2>. QED
    BY <2>1, <2>2
<1>2. Kept({})
  BY <1>1 DEF Kept
<1>. QED
  BY <1>2, Spoils

LEMMA TickFailsRefines == ASSUME IInv, TickFails PROVE Promise!Spoil
<1> USE DEF TickFails, Forget, keys, clients
<1>1. ASSUME NEW j \in Jobs, j \notin disturbed'
      PROVE  Same(j)
  <2>1. j # current /\ j # current'
    BY <1>1, SchedulerAssumption DEF IInv, Shape
  <2>. QED
    BY <2>1 DEF Same, Standing, IsDue, Removing, ClientOn
<1>2. disturbed \subseteq disturbed' /\ Kept({})
  BY <1>1 DEF Kept
<1>. QED
  BY <1>2, Spoils

\* A job that nobody is at comes due when its time has come.
LEMMA BecomesDueRefines ==
  ASSUME IInv, NEW j \in Jobs, BecomesDue(j)
  PROVE  Promise!ComesDue(j) \/ Promise!Spoil
<1> USE DEF BecomesDue, clients, loop
<1>1. entry'[j] = "due" /\ \A k \in Jobs \ {j} : entry'[k] = entry[k]
  BY DEF IInv, TypeOK
<1>2. Kept({j})
  BY <1>1, SameWhen DEF Kept
<1>3. Standing(j)' = Standing(j) /\ ~IsDue(j)
  BY DEF Standing, IsDue, Removing
<1>4. CASE j \in disturbed \cup lapsed \/ ClientOn(j) \/ j = current
  <2>1. j \in disturbed \cup lapsed \/ ~IsDue(j)'
    BY <1>4 DEF IsDue, ClientOn
  <2>2. Kept({})
    BY <1>2, <1>3, <2>1 DEF Kept, Same
  <2>. QED
    BY <2>2, Spoils
<1>5. CASE ~(j \in disturbed \cup lapsed \/ ClientOn(j) \/ j = current)
  <2>1. data[j] # 0
    BY <1>5 DEF IInv, KeysAgree, Left
  <2>2. Standing(j) # 0
    BY <1>5, <2>1 DEF Standing, Removing, ClientOn
  <2>3. IsDue(j)'
    BY <1>1, <1>5 DEF IsDue, ClientOn
  <2>4. Promise!ComesDue(j)
    BY <1>2, <1>3, <1>5, <2>2, <2>3, KeepMeans DEF Promise!ComesDue, Standing, IsDue
  <2>. QED
    BY <2>4
<1>. QED
  BY <1>4, <1>5

LEMMA DataExpiresRefines ==
  ASSUME IInv, NEW j \in Jobs, DataExpires(j)
  PROVE  Promise!Spoil
<1> USE DEF DataExpires, clients, loop
<1>1. \A k \in Jobs \ {j} : data'[k] = data[k]
  BY DEF IInv, TypeOK
<1>2. Kept({})
  BY <1>1, SameWhen DEF Kept
<1>. QED
  BY <1>2, Spoils

\* Every step of the scheduler is one of JobStore's or changes nothing there.
LEMMA StepRefines == IInv /\ [Next]_vars => [Promise!Work]_(Promise!store)
<1> SUFFICES ASSUME IInv, [Next]_vars PROVE [Promise!Work]_(Promise!store)
  OBVIOUS
<1>1. CASE UNCHANGED vars
  BY <1>1 DEF vars, keys, clients, loop, Promise!store, Removing, ClientOn
<1>2. ASSUME NEW c \in Clients, NEW j \in Jobs, Cancel(c, j) \/ \E b \in BOOLEAN : Schedule(c, j, b)
      PROVE  Promise!Work
  BY <1>2, CancelRefines, ScheduleRefines DEF Promise!Work
<1>3. ASSUME NEW c \in Clients, AddEntry(c)
      PROVE  Promise!Work
  <2>1. job[c] \in Jobs
    BY <1>3 DEF AddEntry, IInv, TypeOK, Shape
  <2>. QED
    BY <1>3, <2>1, AddEntryRefines DEF Promise!Work
<1>4. ASSUME NEW c \in Clients, DeleteData(c) \/ ClientFails(c)
      PROVE  Promise!Work
  BY <1>4, DeleteDataRefines, ClientFailsRefines DEF Promise!Work
<1>5. ASSUME Start \/ Stop \/ Crash \/ TickFails
      PROVE  Promise!Work
  BY <1>5, ReadingRefines, StopRefines, CrashRefines, TickFailsRefines DEF Promise!Work
<1>6. ASSUME Tick
      PROVE  Promise!Work
  BY <1>6, ReadingRefines, DispatchRefines, RemoveEntryRefines, RemoveDataRefines DEF Tick, Promise!Work
<1>7. ASSUME NEW j \in Jobs, BecomesDue(j) \/ DataExpires(j)
      PROVE  Promise!Work
  BY <1>7, BecomesDueRefines, DataExpiresRefines DEF Promise!Work
<1>. QED
  BY <1>1, <1>2, <1>3, <1>4, <1>5, <1>6, <1>7 DEF Next

\* For any number of jobs and clients the scheduler implements JobStore: what
\* stands and is due is dispatched, a one-shot job once, whatever happens to
\* other ids.
THEOREM Refinement == Spec => JobsKept
BY InitRefines, StepRefines, Invariance, PTL DEF Spec, JobsKept, Promise!Store
=============================================================================
