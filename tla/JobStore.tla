------------------------------ MODULE JobStore ------------------------------
(***************************************************************************)
(* What the scheduler promises of its jobs, as if each call took effect at  *)
(* once: under an id stands the version that schedule put there last, until *)
(* it is dropped; its time comes; and only a version that stands and is due *)
(* is dispatched, a one-shot one in the step that takes it out, which is    *)
(* its first dispatch and its last.                                        *)
(*                                                                         *)
(* Nothing is promised of an id that is spoiled: it was changed by two      *)
(* activities at once, left half changed, or lost to time.  That never      *)
(* harms another id.                                                       *)
(***************************************************************************)
EXTENDS Naturals

CONSTANTS Jobs, Versions

VARIABLES
  standing,    \* the version that stands under each id, 0 for none
  due,         \* ids whose time has come
  made,        \* versions made so far
  recurrent,   \* those that are dispatched again and again
  dispatches,  \* how often each version was dispatched (counted up to 2)
  spoiled      \* ids of which nothing is promised any more

store == <<standing, due, made, recurrent, dispatches, spoiled>>

Empty ==
  /\ standing = [j \in Jobs |-> 0] /\ due = {}
  /\ made = 0 /\ recurrent = {} /\ dispatches = [v \in Versions |-> 0]
  /\ spoiled = {}

\* Of the ids that are not spoiled only those in changed may change.
Keep(changed) ==
  /\ spoiled \subseteq spoiled'
  /\ \A j \in Jobs \ (spoiled' \cup changed) : standing'[j] = standing[j] /\ (j \in due' <=> j \in due)

Put(j) ==
  /\ made' = made + 1 /\ made' \in Versions
  /\ recurrent' \in {recurrent, recurrent \cup {made'}}
  /\ j \notin spoiled' => standing'[j] = made' /\ j \notin due'
  /\ Keep({j})
  /\ UNCHANGED dispatches

Drop(j) ==
  /\ j \notin spoiled' => standing'[j] = 0 /\ j \notin due'
  /\ Keep({j})
  /\ UNCHANGED <<made, recurrent, dispatches>>

ComesDue(j) ==
  /\ j \notin spoiled' /\ standing[j] # 0
  /\ standing'[j] = standing[j] /\ j \in due'
  /\ Keep({j})
  /\ UNCHANGED <<made, recurrent, dispatches>>

\* A version that is spoiled may be dispatched at any time, but is nobody else's.
Dispatched(j, v) ==
  /\ j \notin spoiled =>
       /\ standing[j] = v /\ j \in due
       /\ IF v \in recurrent THEN Keep({}) ELSE dispatches[v] = 0 /\ standing'[j] = 0 /\ j \notin due'
  /\ \A k \in Jobs \ (spoiled \cup {j}) : standing[k] # v
  /\ Keep({j})
  /\ dispatches' = [dispatches EXCEPT ![v] = IF @ < 2 THEN @ + 1 ELSE @]
  /\ UNCHANGED <<made, recurrent, spoiled>>

\* More ids are spoiled, or spoiled ones change.
Spoil == Keep({}) /\ UNCHANGED <<made, recurrent, dispatches>>

Work ==
  \/ \E j \in Jobs : Put(j) \/ Drop(j) \/ ComesDue(j) \/ \E v \in Versions : Dispatched(j, v)
  \/ Spoil

Store == Empty /\ [][Work]_store
=============================================================================
