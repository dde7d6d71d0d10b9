------------------------------- MODULE TaskApi -------------------------------
(***************************************************************************)
(* The routes of api/tasks.py that write: POST (TaskManagerAgent.enqueue)  *)
(* and DELETE (cancel_or_delete_task), each request a coroutine of its own *)
(* that interleaves with the tick and with the other requests at every     *)
(* await.                                                                  *)
(***************************************************************************)
EXTENDS Aria2

CONSTANT Handlers   \* bound: DELETE requests in progress at the same time

VARIABLE req        \* req[h]: the DELETE request of handler h: the row its session
                    \* loaded, and the same row with its assignments

NoTask == -1

NoRequest == [pc |-> "idle", task |-> NoTask, row |-> NoRow, new |-> NoRow]

RequestPc == {"idle", "loaded", "result", "commit"}

ApiTypeOK ==
  req \in [Handlers -> [pc : RequestPc, task : Tasks \cup {NoTask}, row : Row, new : Row]]

ApiInit == req = [h \in Handlers |-> NoRequest]

-----------------------------------------------------------------------------
(* POST /api/tasks, once the URL is accepted.  The rows of two requests    *)
(* may be committed in another order than their created_at.                *)

Enqueue(t) ==
  /\ db[t].status = "none"
  /\ db' = [db EXCEPT ![t] = QueuedRow]
  /\ \/ disk' = [disk EXCEPT ![t] = "empty"] /\ UNCHANGED faults
     \/ Fault("fs") /\ UNCHANGED disk      \* an OSError of mkdir is ignored
  /\ UNCHANGED <<aria2, now>>

-----------------------------------------------------------------------------
(* DELETE /api/tasks/{id} *)

\* Mutant: a cancelled task drops its gid.
DeletedDropsGid(row) ==
  IF row.status = "completed"
  THEN Purged(row)
  ELSE [MarkFailed(row, "cancelled") EXCEPT !.gid = NoGid]

\* What the request assigns to the row it loaded, before it commits.
Deleted(row) ==
  IF row.status = "completed"
  THEN Purged(row)
  ELSE MarkFailed(row, "cancelled")

AssignRow(h) ==
  req' = [req EXCEPT ![h].pc = "commit", ![h].new = Deleted(req[h].row)]

\* Unknown, failed and expired tasks are answered as they are.
DeleteLoad(h, t) ==
  /\ req[h].pc = "idle"
  /\ db[t].status \in {"queued", "downloading", "completed"}
  /\ req' = [req EXCEPT ![h] = [pc |-> "loaded", task |-> t,
                                row |-> db[t], new |-> db[t]]]
  /\ UNCHANGED nodeVars

DeleteQueued(h) ==
  /\ req[h].pc = "loaded"
  /\ req[h].row.status = "queued"
  /\ AssignRow(h)
  /\ UNCHANGED nodeVars

\* worker.remove, its first call; without a gid nothing is called
DeleteForce(h) ==
  /\ req[h].pc = "loaded"
  /\ req[h].row.status = "downloading"
  /\ \/ /\ req[h].row.gid # NoGid
        /\ ForceRemove(req[h].task, req[h].row.gid)
        /\ req' = [req EXCEPT ![h].pc = "result"]
     \/ /\ req[h].row.gid = NoGid
        /\ AssignRow(h)
        /\ UNCHANGED <<aria2, faults>>
  /\ UNCHANGED <<db, disk, now>>

\* ... and its second one; an error is logged
DeleteResult(h) ==
  /\ req[h].pc = "result"
  /\ RemoveResult(req[h].task, req[h].row.gid)
  /\ AssignRow(h)
  /\ UNCHANGED <<db, disk, now>>

\* storage._purge_task_files
DeletePurge(h) ==
  /\ req[h].pc = "loaded"
  /\ req[h].row.status = "completed"
  /\ RemoveDir(req[h].task)
  /\ AssignRow(h)
  /\ UNCHANGED <<db, aria2, now>>

DeleteCommit(h) ==
  /\ req[h].pc = "commit"
  /\ db' = [db EXCEPT ![req[h].task] = FlushRow(@, req[h].row, req[h].new)]
  /\ req' = [req EXCEPT ![h] = NoRequest]
  /\ UNCHANGED <<aria2, disk, now, faults>>

\* The commit raises: rollback and a 500.
DeleteAborts(h) ==
  /\ req[h].pc = "commit"
  /\ Fault("db")
  /\ req' = [req EXCEPT ![h] = NoRequest]
  /\ UNCHANGED <<db, aria2, disk, now>>

DeleteStep(h) ==
  \/ DeleteQueued(h)
  \/ DeleteForce(h)
  \/ DeleteResult(h)
  \/ DeletePurge(h)
  \/ DeleteCommit(h)

DeleteNext(h) ==
  \/ \E t \in Tasks : DeleteLoad(h, t)
  \/ DeleteStep(h)
  \/ DeleteAborts(h)
=============================================================================
