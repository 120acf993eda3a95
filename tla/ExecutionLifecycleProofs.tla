---------------------- MODULE ExecutionLifecycleProofs ----------------------
(***************************************************************************)
(* What holds of ExecutionLifecycle for any number of executions, guessed  *)
(* ids and requests.  One inductive invariant, IInv, carries every result. *)
(***************************************************************************)
EXTENDS ExecutionLifecycle, TLAPS

Unannounced == {"save", "expire", "announce"}
Writing == {"command", "status"}

\* A request that is served has a target, and start writes RUNNING on a new id.
Served ==
  \A r \in Requests :
    /\ stage[r] = "idle" <=> target[r] = NoId
    /\ stage[r] \in StartStages => target[r] \in Executions
    /\ target[r] \in Executions => target[r] \in issued
    /\ stage[r] \in ControlStages => target[r] \in Nameable

\* Nothing is named before it is drawn, and what is not drawn has no trace.
Drawn ==
  /\ rows \subseteq issued
  /\ known \cap Executions \subseteq issued
  /\ \A e \in Executions \ issued : hash[e] = NoHash /\ command[e] = "NONE"

\* Until its event is out an id belongs to the one request that drew it.
Private ==
  /\ \A r \in Requests : stage[r] \in Unannounced => target[r] \notin known \cup rows
  /\ \A r, q \in Requests :
       stage[r] \in StartStages /\ stage[q] \in StartStages /\ target[r] = target[q] => r = q

\* What each step of start_workflow has already left behind.
Progress ==
  \A r \in Requests :
    /\ stage[r] = "save" => hash[target[r]] = NoHash
    /\ stage[r] = "expire" => hash[target[r]].fields = "full" /\ ~hash[target[r]].ttl
    /\ stage[r] \in {"save", "expire"} => command[target[r]] = "NONE"
    /\ stage[r] \in {"announce", "record", "commit"} =>
         hash[target[r]].fields = "full" \/ target[r] \in expired

\* Two control operations that both still write on an id have been counted.
Solo ==
  \A r, q \in Requests :
    stage[r] \in Writing /\ stage[q] \in Writing /\ target[r] = target[q] =>
      r = q \/ target[r] \in overlapped

\* What pause_workflow read is still so when it writes.
PauseHolds ==
  \A r \in Requests :
    stage[r] \in Writing /\ goal[r] = "PAUSED" =>
      hash[target[r]].status = "RUNNING" \/ target[r] \in overlapped \cup expired

\* The command agrees with the status written, or with the one being written.
InStep ==
  \A i \in Ids \ (torn \cup overlapped \cup expired) :
    /\ \/ command[i] \in {"NONE", CommandFor(hash[i].status)}
       \/ \E r \in Requests : stage[r] = "status" /\ target[r] = i
    /\ \A r \in Requests : stage[r] = "status" /\ target[r] = i =>
         command[i] \in {"NONE", CommandFor(goal[r])}

Found == Served /\ Drawn /\ Private /\ Progress /\ NamedIsFound
IInv == TypeOK /\ Found /\ ImmortalIsExplained /\ Solo /\ PauseHolds /\ InStep

-----------------------------------------------------------------------------
USE LifecycleAssumption

\* With nothing stored and nothing served IInv holds.
LEMMA InitIInv == Init => IInv
BY DEF Init, IInv, TypeOK, Found, Served, Drawn, Private, Progress, NamedIsFound,
  ImmortalIsExplained, Solo, PauseHolds, InStep, NoHash, Hash, Status, Ids, StartStages, ControlStages, Writing

\* A fresh id has no trace, and belongs to its request alone.
LEMMA StartStep ==
  ASSUME IInv, NEW r \in Requests, NEW e \in Executions, Start(r, e)
  PROVE  IInv'
<1> USE DEF IInv, TypeOK, Found, Start, Launch, Serve, Hash, NoHash, Status, StartStages,
  ControlStages, redis, memory, history, request
<1>1. TypeOK'
  BY DEF Ids
<1>2. Served'
  BY DEF Served, Nameable, Ids
<1>3. Drawn'
  BY DEF Drawn, Nameable
<1>4. Private'
  BY DEF Private, Served, Drawn
<1>5. Progress'
  BY DEF Progress, Private, Served, Drawn
<1>6. NamedIsFound'
  BY DEF NamedIsFound, Served
<1>7. Solo'
  BY DEF Solo, Served
<1>8. PauseHolds'
  BY DEF PauseHolds, Writing
<1>9. ImmortalIsExplained' /\ InStep'
  BY DEF ImmortalIsExplained, InStep
<1>. QED
  BY <1>1, <1>2, <1>3, <1>4, <1>5, <1>6, <1>7, <1>8, <1>9

\* Nobody can name the id yet, so the hash is written once.
LEMMA SaveStateStep == ASSUME IInv, NEW r \in Requests, SaveState(r) PROVE IInv'
<1> USE DEF IInv, TypeOK, Found, SaveState, Await, Hash, NoHash, Status, StartStages,
  ControlStages, redis, memory, history, request
<1>1. TypeOK'
  OBVIOUS
<1>2. Served'
  BY DEF Served, Nameable
<1>3. Drawn'
  BY DEF Drawn, Served, Nameable
<1>4. Private'
  BY DEF Private, Served, Unannounced
<1>5. Progress'
  BY DEF Progress, Private, Served, Nameable
<1>6. NamedIsFound'
  BY DEF NamedIsFound, Progress, Private
<1>7. ImmortalIsExplained'
  BY DEF ImmortalIsExplained
<1>8. Solo'
  BY DEF Solo, Writing
<1>9. PauseHolds'
  BY DEF PauseHolds, Solo, Served
<1>10. InStep'
  BY DEF InStep, Served, Progress
<1>. QED
  BY <1>1, <1>2, <1>3, <1>4, <1>5, <1>6, <1>7, <1>8, <1>9, <1>10

\* The hash is still there: what has no expiry cannot have expired.
LEMMA ExpireLaterStep == ASSUME IInv, NEW r \in Requests, ExpireLater(r) PROVE IInv'
<1> USE DEF IInv, TypeOK, Found, ExpireLater, Await, Hash, NoHash, Status, StartStages,
  ControlStages, redis, memory, history, request
<1>a. hash' = [hash EXCEPT ![target[r]] = [fields |-> "full", status |-> @.status, ttl |-> TRUE]]
  BY DEF Progress
<1>1. TypeOK'
  BY <1>a DEF Served
<1>2. Served'
  BY DEF Served, Nameable
<1>3. Drawn'
  BY DEF Drawn, Nameable
<1>4. Private'
  BY DEF Private, Unannounced
<1>5. Progress'
  BY DEF Progress, Private, Nameable
<1>6. NamedIsFound'
  BY DEF NamedIsFound, Progress
<1>7. ImmortalIsExplained'
  BY <1>a DEF ImmortalIsExplained
<1>8. Solo'
  BY DEF Solo, Writing
<1>9. PauseHolds'
  BY DEF PauseHolds, Solo, Writing
<1>10. InStep'
  BY DEF InStep, Writing
<1>. QED
  BY <1>1, <1>2, <1>3, <1>4, <1>5, <1>6, <1>7, <1>8, <1>9, <1>10

\* The first time somebody hears of the id, its hash is complete.
LEMMA AnnounceStep == ASSUME IInv, NEW r \in Requests, Announce(r) PROVE IInv'
<1> USE DEF IInv, TypeOK, Found, Announce, Await, Hash, NoHash, Status, StartStages,
  ControlStages, redis, memory, history, request
<1>1. TypeOK'
  BY DEF Served
<1>2. Served'
  BY DEF Served, Nameable
<1>3. Drawn'
  BY DEF Drawn, Served, Nameable
<1>4. Private'
  BY DEF Private, Served, Unannounced
<1>5. Progress'
  BY DEF Progress, Nameable
<1>6. NamedIsFound'
  BY DEF NamedIsFound, Progress
<1>7. ImmortalIsExplained'
  BY DEF ImmortalIsExplained, NamedIsFound
<1>8. Solo'
  BY DEF Solo, Writing
<1>9. PauseHolds'
  BY DEF PauseHolds, Solo, Writing
<1>10. InStep'
  BY DEF InStep, Writing
<1>. QED
  BY <1>1, <1>2, <1>3, <1>4, <1>5, <1>6, <1>7, <1>8, <1>9, <1>10

\* The insert is private to its transaction.
LEMMA RecordStep == ASSUME IInv, NEW r \in Requests, RecordExecutionStart(r) PROVE IInv'
<1> USE DEF IInv, TypeOK, Found, RecordExecutionStart, Await, Hash, NoHash, Status,
  StartStages, ControlStages, redis, memory, history, request
<1>1. TypeOK'
  OBVIOUS
<1>2. Served'
  BY DEF Served, Nameable
<1>3. Drawn'
  BY DEF Drawn, Nameable
<1>4. Private'
  BY DEF Private, Unannounced
<1>5. Progress'
  BY DEF Progress, Nameable
<1>6. Solo'
  BY DEF Solo, Writing
<1>7. PauseHolds'
  BY DEF PauseHolds, Solo, Writing
<1>8. InStep'
  BY DEF InStep, Writing
<1>9. NamedIsFound' /\ ImmortalIsExplained'
  BY DEF NamedIsFound, ImmortalIsExplained
<1>. QED
  BY <1>1, <1>2, <1>3, <1>4, <1>5, <1>6, <1>7, <1>8, <1>9

\* A committed row names a saved execution.
LEMMA CommitStep == ASSUME IInv, NEW r \in Requests, Commit(r) PROVE IInv'
<1> USE DEF IInv, TypeOK, Found, Commit, Finish, Hash, NoHash, Status, StartStages,
  ControlStages, redis, memory, history, request
<1>1. TypeOK'
  BY DEF Served
<1>2. Served'
  BY DEF Served, Nameable
<1>3. Drawn'
  BY DEF Drawn, Served, Nameable
<1>4. Private'
  BY DEF Private, Served, Unannounced
<1>5. Progress'
  BY DEF Progress, Nameable
<1>6. NamedIsFound'
  BY DEF NamedIsFound, Progress
<1>7. ImmortalIsExplained'
  BY DEF ImmortalIsExplained, NamedIsFound
<1>8. Solo'
  BY DEF Solo, Writing
<1>9. PauseHolds'
  BY DEF PauseHolds, Solo
<1>10. InStep'
  BY DEF InStep
<1>. QED
  BY <1>1, <1>2, <1>3, <1>4, <1>5, <1>6, <1>7, <1>8, <1>9, <1>10

\* A control operation meets the ones it overlaps, and pause its guard.
LEMMA ControlStep ==
  ASSUME IInv, NEW r \in Requests, NEW i \in Ids, Pause(r, i) \/ Resume(r, i) \/ Cancel(r, i)
  PROVE  IInv'
<1> USE DEF IInv, TypeOK, Found, Pause, Resume, Cancel, Control, Serve, Overlap, Hash,
  NoHash, Status, StartStages, ControlStages, redis, memory, history, request
<1>1. TypeOK'
  OBVIOUS
<1>2. Served'
  BY DEF Served, Drawn, Nameable, Ids
<1>3. Drawn'
  BY DEF Drawn, Served, Nameable
<1>4. Private'
  BY DEF Private, Unannounced
<1>5. Progress'
  BY DEF Progress, Nameable
<1>6. Solo'
  BY DEF Solo, Writing
<1>7. PauseHolds'
  BY DEF PauseHolds, Solo
<1>8. NamedIsFound' /\ ImmortalIsExplained' /\ InStep'
  BY SMTT(30) DEF NamedIsFound, ImmortalIsExplained, InStep
<1>. QED
  BY <1>1, <1>2, <1>3, <1>4, <1>5, <1>6, <1>7, <1>8

\* The command is set before the status it stands for.
LEMMA SetCommandStep == ASSUME IInv, NEW r \in Requests, SetCommand(r) PROVE IInv'
<1> USE DEF IInv, TypeOK, Found, SetCommand, Await, CommandFor, Hash, NoHash, Status,
  StartStages, ControlStages, redis, memory, history, request
<1>1. TypeOK'
  OBVIOUS
<1>2. Served'
  BY DEF Served, Nameable
<1>3. Drawn'
  BY DEF Drawn, Served, Nameable
<1>4. Private'
  BY DEF Private, Served, Unannounced
<1>5. Progress'
  BY DEF Progress, Private, Served, Nameable, Unannounced
<1>6. NamedIsFound'
  BY DEF NamedIsFound, Progress, Private, Drawn, Nameable
<1>7. ImmortalIsExplained'
  BY DEF ImmortalIsExplained
<1>8. Solo'
  BY DEF Solo, Writing
<1>9. PauseHolds'
  BY DEF PauseHolds, Solo, Writing
<1>10. InStep'
  BY DEF InStep, Solo, Writing
<1>. QED
  BY <1>1, <1>2, <1>3, <1>4, <1>5, <1>6, <1>7, <1>8, <1>9, <1>10

\* The status catches up with the command.
LEMMA UpdateStatusStep == ASSUME IInv, NEW r \in Requests, UpdateStatus(r) PROVE IInv'
<1> USE DEF IInv, TypeOK, Found, UpdateStatus, Await, Hash, NoHash, Status, StartStages,
  ControlStages, redis, memory, history, request
<1>1. TypeOK'
  OBVIOUS
<1>2. Served'
  BY DEF Served, Nameable
<1>3. Drawn'
  BY DEF Drawn, Served, Nameable
<1>4. Private'
  BY DEF Private, Served, Unannounced
<1>5. Progress'
  BY DEF Progress, Private, Served, Nameable, Unannounced
<1>6. NamedIsFound'
  BY DEF NamedIsFound, Progress, Private, Drawn, Nameable
<1>7. ImmortalIsExplained'
  BY DEF ImmortalIsExplained, NamedIsFound, Served, Nameable, Ids
<1>8. Solo'
  BY DEF Solo, Writing
<1>9. PauseHolds'
  BY DEF PauseHolds, Solo, Writing
<1>10. InStep'
  BY DEF InStep, Solo, Writing
<1>. QED
  BY <1>1, <1>2, <1>3, <1>4, <1>5, <1>6, <1>7, <1>8, <1>9, <1>10

\* An event names an id that was already nameable.
LEMMA NotifyStep == ASSUME IInv, NEW r \in Requests, Notify(r) PROVE IInv'
<1> USE DEF IInv, TypeOK, Found, Notify, Finish, Hash, NoHash, Status, StartStages,
  ControlStages, redis, memory, history, request
<1>1. TypeOK'
  BY DEF Served
<1>2. Served'
  BY DEF Served, Nameable
<1>3. Drawn'
  BY DEF Drawn, Served, Nameable
<1>4. Private'
  BY DEF Private, Served, Nameable, Unannounced
<1>5. Progress'
  BY DEF Progress, Private, Drawn, Nameable
<1>6. NamedIsFound'
  BY DEF NamedIsFound, Served, Nameable
<1>7. ImmortalIsExplained'
  BY DEF ImmortalIsExplained, Served, Ids
<1>8. Solo'
  BY DEF Solo, Writing
<1>9. PauseHolds'
  BY DEF PauseHolds, Solo
<1>10. InStep'
  BY DEF InStep
<1>. QED
  BY <1>1, <1>2, <1>3, <1>4, <1>5, <1>6, <1>7, <1>8, <1>9, <1>10

\* A call that raises between two writes is counted as torn.
LEMMA FailStep == ASSUME IInv, NEW r \in Requests, Fail(r) PROVE IInv'
<1> USE DEF IInv, TypeOK, Found, Fail, Finish, Halfway, Hash, NoHash, Status, StartStages,
  ControlStages, redis, memory, history, request
<1>1. TypeOK'
  BY DEF Served
<1>2. Served'
  BY DEF Served, Nameable
<1>3. Drawn'
  BY DEF Drawn, Nameable
<1>4. Private'
  BY DEF Private, Unannounced
<1>5. Progress'
  BY DEF Progress, Nameable
<1>6. Solo'
  BY DEF Solo, Writing
<1>7. PauseHolds'
  BY DEF PauseHolds, Solo
<1>8. NamedIsFound' /\ ImmortalIsExplained' /\ InStep'
  BY DEF NamedIsFound, ImmortalIsExplained, InStep
<1>. QED
  BY <1>1, <1>2, <1>3, <1>4, <1>5, <1>6, <1>7, <1>8

\* A crash tears what was halfway and leaves Redis as it is.
LEMMA CrashStep == ASSUME IInv, Crash PROVE IInv'
<1> USE DEF IInv, TypeOK, Found, Crash, Halfway, Hash, NoHash, Status, StartStages,
  ControlStages, redis, memory, history, request
<1>1. TypeOK'
  BY DEF Served
<1>2. Private'
  BY DEF Private, Unannounced
<1>3. Progress'
  BY DEF Progress, Nameable
<1>4. Solo'
  BY DEF Solo, Writing
<1>5. PauseHolds'
  BY DEF PauseHolds, Solo
<1>6. /\ Served' /\ Drawn' /\ NamedIsFound' /\ ImmortalIsExplained'
      /\ InStep'
  BY DEF Served, Drawn, NamedIsFound, ImmortalIsExplained, InStep
<1>. QED
  BY <1>1, <1>2, <1>3, <1>4, <1>5, <1>6

\* The end of a task is written nowhere.
LEMMA TaskEndsStep == ASSUME IInv, NEW e \in Executions, TaskEnds(e) PROVE IInv'
<1> USE DEF IInv, TypeOK, Found, TaskEnds, Hash, NoHash, Status, StartStages, ControlStages,
  redis, memory, history, request
<1>1. TypeOK'
  OBVIOUS
<1>2. Served'
  BY DEF Served, Nameable
<1>3. Drawn'
  BY DEF Drawn, Nameable
<1>4. /\ Private' /\ Progress' /\ NamedIsFound' /\ ImmortalIsExplained'
      /\ Solo' /\ PauseHolds' /\ InStep'
  BY DEF Private, Progress, NamedIsFound, ImmortalIsExplained, Solo, PauseHolds, InStep
<1>. QED
  BY <1>1, <1>2, <1>3, <1>4

\* Only a hash with an expiry goes, and it is counted.
LEMMA HashExpiresStep == ASSUME IInv, NEW i \in Ids, HashExpires(i) PROVE IInv'
<1> USE DEF IInv, TypeOK, Found, HashExpires, Hash, NoHash, Status, StartStages,
  ControlStages, redis, memory, history, request
<1>1. TypeOK'
  OBVIOUS
<1>2. Served'
  BY DEF Served, Nameable
<1>3. Drawn'
  BY DEF Drawn, Nameable
<1>4. /\ Private' /\ Progress' /\ NamedIsFound' /\ ImmortalIsExplained'
      /\ Solo' /\ PauseHolds' /\ InStep'
  BY DEF Private, Progress, NamedIsFound, ImmortalIsExplained, Solo, PauseHolds, InStep
<1>. QED
  BY <1>1, <1>2, <1>3, <1>4

\* A lapsed command agrees with any status.
LEMMA CommandExpiresStep == ASSUME IInv, NEW i \in Ids, CommandExpires(i) PROVE IInv'
<1> USE DEF IInv, TypeOK, Found, CommandExpires, Hash, NoHash, Status, StartStages,
  ControlStages, redis, memory, history, request
<1>1. TypeOK'
  OBVIOUS
<1>2. Served'
  BY DEF Served, Nameable
<1>3. Drawn'
  BY DEF Drawn, Nameable
<1>4. /\ Private' /\ Progress' /\ NamedIsFound' /\ ImmortalIsExplained'
      /\ Solo' /\ PauseHolds' /\ InStep'
  BY DEF Private, Progress, NamedIsFound, ImmortalIsExplained, Solo, PauseHolds, InStep
<1>. QED
  BY <1>1, <1>2, <1>3, <1>4

\* Nothing changes.
LEMMA StutterStep == ASSUME IInv, UNCHANGED vars PROVE IInv'
BY DEF vars, redis, memory, history, request, IInv, TypeOK, Found, Served, Drawn, Private,
  Progress, NamedIsFound, ImmortalIsExplained, Solo, PauseHolds, InStep, Nameable

\* Every step preserves IInv.
LEMMA NextStep == IInv /\ [Next]_vars => IInv'
BY StartStep, SaveStateStep, ExpireLaterStep, AnnounceStep, RecordStep, CommitStep,
  ControlStep, SetCommandStep, UpdateStatusStep, NotifyStep, FailStep, CrashStep,
  TaskEndsStep, HashExpiresStep, CommandExpiresStep, StutterStep DEF Next, Step

\* IInv holds in every reachable state, whatever the constants.
THEOREM Invariance == Spec => []IInv
BY InitIInv, NextStep, PTL DEF Spec

\* The type invariant.
THEOREM TypeCorrect == Spec => []TypeOK
BY Invariance, PTL DEF IInv

\* An execution somebody was told of is found until it expires.
THEOREM NamedIsAlwaysFound == Spec => []NamedIsFound
BY Invariance, PTL DEF IInv, Found

\* Keys without an expiry are the explained ones only.
THEOREM ImmortalIsAlwaysExplained == Spec => []ImmortalIsExplained
BY Invariance, PTL DEF IInv

\* Where nothing is in flight, torn or overlapped, status and command agree.
THEOREM StatusAlwaysMatchesCommand == Spec => []StatusMatchesCommand
<1>1. IInv => StatusMatchesCommand
  BY DEF IInv, InStep, StatusMatchesCommand
<1>. QED
  BY <1>1, Invariance, PTL

\* The steps that write a hash, from IInv: only update_status writes PAUSED.
LEMMA PauseStep ==
  IInv /\ [Next]_vars =>
    [\A i \in Ids : hash[i].status # "PAUSED" /\ hash'[i].status = "PAUSED" =>
       \/ hash[i].status = "RUNNING"
       \/ i \in overlapped \cup expired]_vars
<1> SUFFICES ASSUME IInv, Next, NEW i \in Ids,
                    hash[i].status # "PAUSED", hash'[i].status = "PAUSED"
             PROVE  hash[i].status = "RUNNING" \/ i \in overlapped \cup expired
  OBVIOUS
<1> USE DEF IInv, TypeOK
<1>1. \/ hash' = hash
      \/ \E r \in Requests : SaveState(r) \/ ExpireLater(r) \/ UpdateStatus(r)
      \/ \E j \in Ids : HashExpires(j)
  BY DEF Next, Step, Start, Announce, RecordExecutionStart, Commit, Pause, Resume, Cancel,
    Control, SetCommand, Notify, Fail, Crash, TaskEnds, CommandExpires, redis
<1>2. ASSUME NEW r \in Requests, SaveState(r) \/ ExpireLater(r) PROVE FALSE
  BY <1>2 DEF SaveState, ExpireLater, Hash
<1>3. ASSUME NEW j \in Ids, HashExpires(j) PROVE FALSE
  BY <1>3 DEF HashExpires, NoHash
<1>4. ASSUME NEW r \in Requests, UpdateStatus(r)
      PROVE  hash[i].status = "RUNNING" \/ i \in overlapped \cup expired
  <2>1. target[r] = i /\ goal[r] = "PAUSED" /\ stage[r] = "status"
    BY <1>4 DEF UpdateStatus, Await
  <2>. QED
    BY <2>1 DEF PauseHolds, Writing
<1>. QED
  BY <1>1, <1>2, <1>3, <1>4

\* PAUSED only ever replaces RUNNING, short of an overlap or an expiry.
THEOREM PausesRunningOnly == Spec => PausedFromRunning
BY Invariance, PauseStep, PTL DEF Spec, PausedFromRunning
=============================================================================
