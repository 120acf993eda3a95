-------------------------- MODULE RecordLifecycle --------------------------
(***************************************************************************)
(* What the memory service promises of its records, whatever requests run  *)
(* at once: a record is created once, to be found by a search or not, and  *)
(* archiving it is final and takes it out of the search.                   *)
(***************************************************************************)
CONSTANT Records

VARIABLES status, searchable

lifecycle == <<status, searchable>>

Absent == status = [r \in Records |-> "absent"] /\ searchable = {}

Create(r) ==
  /\ status[r] = "absent"
  /\ status' = [status EXCEPT ![r] = "ACTIVE"]
  /\ searchable' \in {searchable, searchable \cup {r}}

Archive(r) ==
  /\ status[r] = "ACTIVE"
  /\ status' = [status EXCEPT ![r] = "ARCHIVED"]
  /\ searchable' = searchable \ {r}

Advance == \E r \in Records : Create(r) \/ Archive(r)

Lifecycle == Absent /\ [][Advance]_lifecycle
=============================================================================
