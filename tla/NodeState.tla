------------------------------ MODULE NodeState ------------------------------
(***************************************************************************)
(* The state that the parts of a node agent share, and what may go wrong   *)
(* with it: the `tasks' table (models/task.py), the records aria2 keeps,   *)
(* the download directory, the clock, and a budget of faults.              *)
(*                                                                         *)
(* A coroutine of the node works on a SESSION (models/database.py): rows   *)
(* it read at some moment (`snap'), the same rows with its assignments     *)
(* (`cur'), and one atomic commit, which writes only the columns in which  *)
(* cur differs from snap.  Between the two every other coroutine may run.  *)
(***************************************************************************)
EXTENDS Integers, FiniteSets, Sequences

CONSTANTS
  Tasks,            \* rows the table may hold; a smaller one has a smaller created_at
  ConcurrentLimit,  \* Settings.concurrent_limit, also aria2's own limit
  TTL,              \* Settings.ttl_minutes
  FaultKinds,       \* the kinds of fault a run allows
  MaxFaults         \* bound: how many faults a behaviour may contain

ASSUME TasksAssumption == Tasks \subseteq Nat /\ IsFiniteSet(Tasks)
ASSUME LimitAssumption == ConcurrentLimit \in Nat
ASSUME TTLAssumption == TTL \in Nat
ASSUME FaultAssumption == MaxFaults \in Nat

VARIABLES
  db,      \* the committed table
  aria2,   \* aria2[t]: what became of each addUri made for t; its index is the gid
  disk,    \* disk[t]: content of <download_dir>/<task_id>/
  now,     \* the wall clock
  faults   \* faults so far

nodeVars == <<db, aria2, disk, now, faults>>

NoGid  == 0
NoTime == -1

Status == {"none", "queued", "downloading", "completed", "failed", "expired"}
  \* "none": the row does not exist (yet)

(***************************************************************************)
(* Task.error, as far as it tells who failed the task.                     *)
(***************************************************************************)
Error == {"null", "aria2", "cancelled"}

AriaStatus == {"waiting", "active", "complete", "error", "removed", "gone", "lost"}
  \* "gone": aria2 does not know the gid any more; "lost": its session file does not
  \* either; nobody pauses a download
Live == {"waiting", "active"}

Dir == {"absent", "empty", "partial", "full"}

(***************************************************************************)
(* A row of the table.  Progress columns, tokens and file names are left   *)
(* out; `path' says whether storage_path is set.                           *)
(***************************************************************************)
Row == [status : Status, error : Error, gid : Nat,
        completedAt : Nat \cup {NoTime}, path : BOOLEAN]

NoRow == [status |-> "none", error |-> "null", gid |-> NoGid,
          completedAt |-> NoTime, path |-> FALSE]

QueuedRow == [NoRow EXCEPT !.status = "queued"]

ExpiresAt(row) == row.completedAt + TTL

InStatus(S) == {t \in Tasks : db[t].status \in S}

NodeTypeOK ==
  /\ db \in [Tasks -> Row]
  /\ aria2 \in [Tasks -> Seq(AriaStatus)]
  /\ disk \in [Tasks -> Dir]
  /\ now \in Nat
  /\ faults \in 0..MaxFaults

NodeInit ==
  /\ db = [t \in Tasks |-> NoRow]
  /\ aria2 = [t \in Tasks |-> <<>>]
  /\ disk = [t \in Tasks |-> "absent"]
  /\ now = 0
  /\ faults = 0

-----------------------------------------------------------------------------
(* Assignments to a loaded row. *)

Stamp(row) == IF row.completedAt = NoTime THEN now ELSE row.completedAt

MarkStarted(row) == [row EXCEPT !.status = "downloading"]

MarkCompleted(row) == [row EXCEPT !.status = "completed", !.completedAt = now]

MarkFailed(row, error) ==
  [row EXCEPT !.status = "failed", !.error = error, !.completedAt = Stamp(row)]

-----------------------------------------------------------------------------
(* Sessions. *)

EmptySession == [t \in Tasks |-> NoRow]

Load(S) == [t \in Tasks |-> IF t \in S THEN db[t] ELSE NoRow]

\* A column is written when the session changed it, whatever the table holds by now.
Column(stored, old, new) == IF new = old THEN stored ELSE new

FlushRow(stored, old, new) ==
  [status      |-> Column(stored.status, old.status, new.status),
   error       |-> Column(stored.error, old.error, new.error),
   gid         |-> Column(stored.gid, old.gid, new.gid),
   completedAt |-> Column(stored.completedAt, old.completedAt, new.completedAt),
   path        |-> Column(stored.path, old.path, new.path)]

Flush(snap, cur) == [t \in Tasks |-> FlushRow(db[t], snap[t], cur[t])]

-----------------------------------------------------------------------------
(* A fault of kind k, within the budget. *)
Fault(k) ==
  /\ k \in FaultKinds
  /\ faults < MaxFaults
  /\ faults' = faults + 1

\* shutil.rmtree(ignore_errors=True): an error leaves some of the files behind.
RemoveDir(t) ==
  \/ disk' = [disk EXCEPT ![t] = "absent"] /\ UNCHANGED faults
  \/ /\ Fault("fs")
     /\ \/ UNCHANGED disk
        \/ disk[t] = "full" /\ disk' = [disk EXCEPT ![t] = "partial"]

\* Mutants: a purged task stays completed, or gets the other documented status.
PurgedStaysCompleted(row) == [row EXCEPT !.path = FALSE]
PurgedByStorage(row) == [row EXCEPT !.status = "cancelled_by_storage", !.path = FALSE]

\* The row once its files are removed.
Purged(row) == [row EXCEPT !.status = "expired", !.path = FALSE]
=============================================================================
