---------------------------- MODULE TaskLifecycle ----------------------------
(***************************************************************************)
(* The life of a task: the tick, the requests that create and delete       *)
(* tasks, aria2, and a node process that may be stopped and started again. *)
(* The storage loop, which lets completed tasks expire, is StorageAgent.   *)
(***************************************************************************)
EXTENDS TaskManager, TaskApi

vars == <<nodeVars, tickVars, req>>

Init == NodeInit /\ TickInit /\ ApiInit

\* The process stops (lifespan shutdown or crash) and starts again: what was
\* not committed is lost, the table, aria2 and the disk stay.
NodeRestart ==
  /\ Fault("restart")
  /\ pc' = "idle"
  /\ Closed
  /\ req' = [h \in Handlers |-> NoRequest]
  /\ UNCHANGED <<db, aria2, disk, now, slots>>

LifecycleStep ==
  \/ TickNext /\ UNCHANGED req
  \/ AriaNext /\ UNCHANGED <<tickVars, req>>
  \/ \E t \in Tasks : Enqueue(t) /\ UNCHANGED <<tickVars, req>>
  \/ \E h \in Handlers : DeleteNext(h) /\ UNCHANGED tickVars

Next == LifecycleStep \/ NodeRestart

Spec == Init /\ [][Next]_vars

(***************************************************************************)
(* _tm_tick_loop never ends, a request the server accepted is carried on,  *)
(* and aria2 ends what it was given.  Nothing promises that requests come  *)
(* or that faults happen.                                                  *)
(***************************************************************************)
Fairness ==
  /\ WF_vars(TickStep /\ UNCHANGED req)
  /\ \A h \in Handlers : WF_vars(DeleteStep(h) /\ UNCHANGED tickVars)
  /\ \A t \in Tasks : WF_vars(\E g \in Gids(t) : AriaStep(t, g) /\ UNCHANGED <<tickVars, req>>)

FairSpec == Spec /\ Fairness

-----------------------------------------------------------------------------

\* Every variable keeps its type; in particular the slots that _fill_queued_tasks
\* computes never leave 0..concurrent_limit.
TypeOK == NodeTypeOK /\ TickTypeOK /\ ApiTypeOK

Downloading == InStatus({"downloading"})

\* The strict limit of _fill_queued_tasks: never more than concurrent_limit rows
\* are downloading, whatever requests change between its count, its pick, its
\* addUri calls and its commit.
SlotBound == Cardinality(Downloading) <= ConcurrentLimit

\* The columns agree although sessions write them one by one over each other's
\* commits: a queued row was never handed to aria2, a downloading or completed
\* one has a gid that aria2 did issue for it, and a completed row can expire
\* (completed_at) and be served (storage_path).
RowsConsistent ==
  \A t \in Tasks :
    LET row == db[t]
    IN  /\ row.status \in {"none", "queued"} => row = [NoRow EXCEPT !.status = row.status]
        /\ row.status \in {"downloading", "completed"} => row.gid \in Gids(t)
        /\ row.status = "completed" => row.path /\ row.completedAt # NoTime

\* A task is handed to aria2 a second time only when a fault made the node forget
\* the first: retries cannot multiply on their own.
AddsBounded == \A t \in Tasks : Len(aria2[t]) <= 1 + faults

\* How one step may change a status that something was already read from.
Forward(t) ==
  LET old == db[t].status  new == db'[t].status
  IN  /\ old = "completed" => new \in {"completed", "failed", "expired"}
      /\ old = "expired" => new \in {"expired", "failed"}
      /\ old \notin {"none", "queued"} => new \notin {"none", "queued"}

\* A task that ended with a file never runs again and is never revived, and no
\* task returns to the queue, although the sync, fill and DELETE sessions all
\* overwrite a status they read before an await.
NeverBackwards == [][\A t \in Tasks : Forward(t)]_vars

-----------------------------------------------------------------------------
(***************************************************************************)
(* Why these hold: what every open session and request knows about the row *)
(* it will overwrite.  Their conjunction is inductive.                     *)
(***************************************************************************)

InSession == {t \in Tasks : snap[t].status # "none"}

\* A row the sync session loaded can only have been cancelled since.
SyncSession ==
  pc = "sync" =>
    \A t \in Tasks :
      /\ t \notin InSession => cur[t] = snap[t]
      /\ t \in todo => t \in InSession /\ cur[t] = snap[t]
      /\ t \in InSession =>
           /\ snap[t].status = "downloading"
           /\ db[t].status \in {"downloading", "failed"}
           /\ snap[t].gid \in Gids(t)
           /\ db[t].gid = snap[t].gid
           /\ cur[t].gid = snap[t].gid
           /\ db[t].path = snap[t].path
           /\ snap[t].completedAt # NoTime => db[t].completedAt # NoTime
           /\ cur[t].status \in {"downloading", "completed", "failed"}
           /\ cur[t].status = "completed" => cur[t].path /\ cur[t].completedAt # NoTime

\* The same for the fill session, whose rows fit in the slots even if all start.
FillSession ==
  pc = "fill" =>
    /\ Cardinality(Downloading \cup InSession) <= ConcurrentLimit
    /\ \A t \in Tasks :
         /\ t \notin InSession => cur[t] = snap[t]
         /\ t \in todo => t \in InSession /\ cur[t] = snap[t]
         /\ t \in InSession =>
              /\ snap[t] = QueuedRow
              /\ db[t].status \in {"queued", "failed"}
              /\ cur[t].status \in {"queued", "downloading", "failed"}
              /\ cur[t].status = "downloading" => cur[t].gid \in Gids(t)
              /\ t \notin todo => cur[t].status # "queued"

SlotsCounted == pc = "pick" => Cardinality(Downloading) + slots <= ConcurrentLimit

Request(h) ==
  LET t == req[h].task  row == req[h].row  new == req[h].new
  IN  /\ t \in Tasks
      /\ row.status \in {"queued", "downloading", "completed"}
      /\ db[t].status # "none"
      /\ row.status = "downloading" => db[t].status # "queued"
      /\ req[h].pc = "result" => row.status = "downloading"
      /\ row.status = "completed" =>
           /\ db[t].status \in {"completed", "failed", "expired"}
           /\ pc \in {"sync", "fill"} => t \notin InSession
      /\ req[h].pc = "commit" =>
           /\ new.gid = row.gid
           /\ new.completedAt # NoTime \/ new.completedAt = row.completedAt
           /\ IF row.status = "completed"
              THEN new.status = "expired"
              ELSE new.status = "failed" /\ new.path = row.path

Requests == \A h \in Handlers : req[h].pc # "idle" => Request(h)

\* What has been handed to aria2 for a task that still waits was lost by a fault.
AddsCounted ==
  \A t \in Tasks :
    /\ Len(aria2[t]) <= 1 + faults
    /\ pc = "fill" /\ t \in todo => Len(aria2[t]) <= faults
    /\ db[t].status \in {"none", "queued"} /\ ~(pc = "fill" /\ t \in InSession)
         => Len(aria2[t]) <= faults

\* What the open sessions and requests will write fits what the table holds by
\* then: the invariant the proofs of the properties above rest on.
SessionsInv ==
  TypeOK /\ RowsConsistent /\ SlotBound /\ SyncSession /\ FillSession /\ SlotsCounted
  /\ Requests /\ AddsCounted

-----------------------------------------------------------------------------

\* The documented life of a task: the committed status column, and nothing else
\* of the node, implements TaskQueue.
Documented == INSTANCE TaskQueue WITH status <- [t \in Tasks |-> db[t].status]

\* Every step of the node, seen through the status column, is a step of TaskQueue
\* or none: queued -> downloading -> completed / failed, within the slots.
ImplementsTaskQueue == Documented!Spec

-----------------------------------------------------------------------------

Purging(t) == \E h \in Handlers : req[h].pc = "commit" /\ req[h].task = t
                                  /\ req[h].row.status = "completed"

\* models/task.py: "completed: finished, the file exists and can be downloaded":
\* a completed row that no request is working on has its file.
CompletedMeansFile ==
  \A t \in Tasks : db[t].status = "completed" =>
    disk[t] = "full" \/ \E h \in Handlers : req[h].task = t

Working(t) == {g \in Gids(t) : aria2[t][g] \in Live}

\* A downloading row, or the fill session that is about to commit the gid, knows of it.
Accounted(t, g) ==
  \/ db[t].status = "downloading" /\ db[t].gid = g
  \/ pc = "fill" /\ cur[t].gid = g

\* aria2 works on a download that no row and no session knows of, under whatever gid, only
\* after a fault, and on no more of them than there were faults: no order of sync, fill,
\* restarts and lost answers leaks one.  The exception is a task that a DELETE cancelled.
OrphansCounted ==
  \A t \in Tasks : db[t].error # "cancelled" =>
    Cardinality({g \in Working(t) : ~Accounted(t, g)}) <= faults

\* README_NODE.md: DELETE of a queued or downloading task makes it failed; nothing
\* un-cancels it.
CancelSticks == \A t \in Tasks : db[t].error = "cancelled" => db[t].status = "failed"

\* Every task that was queued ends, and then stays ended: no slot is lost, no task
\* is starved by younger ones, no race of sync, fill and DELETE leaves it behind.
EventuallySettled ==
  \A t \in Tasks : db[t].status = "queued" ~>
                     [](db[t].status \in {"completed", "failed", "expired"})
=============================================================================
