----------------------------- MODULE TaskManager -----------------------------
(***************************************************************************)
(* agents/task_manager_agent.py: the tick that main.py runs every 1.5 s.   *)
(* A tick first asks aria2 about every downloading row (one session), then *)
(* hands the oldest queued rows to aria2 while there are free slots        *)
(* (a second session).  Every await is a step of its own.                  *)
(***************************************************************************)
EXTENDS Aria2

VARIABLES
  pc,     \* where the tick is
  snap,   \* the rows its session loaded
  cur,    \* the same rows with its assignments
  todo,   \* loaded rows still to be processed
  slots   \* free slots counted by _fill_queued_tasks

tickVars == <<pc, snap, cur, todo, slots>>

TickPc == {"idle", "sync", "count", "pick", "fill"}

TickTypeOK ==
  /\ pc \in TickPc
  /\ snap \in [Tasks -> Row]
  /\ cur \in [Tasks -> Row]
  /\ todo \in SUBSET Tasks
  /\ slots \in 0..ConcurrentLimit

\* No session is open.
Closed ==
  /\ snap' = EmptySession
  /\ cur' = EmptySession
  /\ todo' = {}

TickInit ==
  /\ pc = "idle"
  /\ snap = EmptySession
  /\ cur = EmptySession
  /\ todo = {}
  /\ slots = 0

Open(S) ==
  /\ snap' = Load(S)
  /\ cur' = Load(S)
  /\ todo' = S

Assign(t, row) ==
  /\ cur' = [cur EXCEPT ![t] = row]
  /\ todo' = todo \ {t}

-----------------------------------------------------------------------------
(* _sync_downloading_tasks *)

SyncLoad ==
  /\ pc = "idle"
  /\ Open({t \in InStatus({"downloading", "queued"}) : db[t].gid # NoGid})
  /\ pc' = "sync"
  /\ UNCHANGED <<nodeVars, slots>>


StatusMap == [waiting |-> "queued", active |-> "downloading", complete |-> "completed",
              error |-> "failed", removed |-> "failed"]

\* The row after aria2 answered with status st (in the node's words).
Synced(row, st) ==
  CASE st = "downloading" /\ row.status # "downloading" -> MarkStarted(row)
    [] st = "completed" -> [MarkCompleted(row) EXCEPT !.path = TRUE]
    [] st = "failed" -> MarkFailed(row, "aria2")
    [] OTHER -> row

\* Mutants: a lost gid is only logged; the task is queued again.
LostIgnored(row) == row
LostRequeued(row) == [row EXCEPT !.status = "queued", !.gid = NoGid]

\* tellStatus raised: "aria2 lost track"
Lost(row) == IF row.status = "downloading" THEN MarkFailed(row, "aria2") ELSE row

SyncAnswer(t) ==
  LET s == TellStatus(t, cur[t].gid)
  IN  /\ Assign(t, IF s = "gone" THEN Lost(cur[t]) ELSE Synced(cur[t], StatusMap[s]))
      /\ UNCHANGED faults

\* The call timed out, was refused or was answered with garbage.
SyncNoAnswer(t) ==
  /\ Fault("rpc")
  /\ Assign(t, Lost(cur[t]))

SyncStatus(t) ==
  /\ pc = "sync"
  /\ t \in todo
  /\ SyncAnswer(t) \/ SyncNoAnswer(t)
  /\ UNCHANGED <<db, aria2, disk, now, pc, snap, slots>>

SyncCommit ==
  /\ pc = "sync"
  /\ todo = {}
  /\ db' = Flush(snap, cur)
  /\ Closed
  /\ pc' = "count"
  /\ UNCHANGED <<aria2, disk, now, faults, slots>>

-----------------------------------------------------------------------------
(* _fill_queued_tasks *)

\* Mutant: one slot too many.
FillCountOffByOne ==
  /\ pc = "count"
  /\ slots' = ConcurrentLimit + 1 - Cardinality(InStatus({"downloading"}))
  /\ pc' = IF slots' = 0 THEN "idle" ELSE "pick"
  /\ UNCHANGED <<nodeVars, snap, cur, todo>>

FillCount ==
  /\ pc = "count"
  /\ LET busy == Cardinality(InStatus({"downloading"}))
     IN  slots' = IF busy < ConcurrentLimit THEN ConcurrentLimit - busy ELSE 0
  /\ pc' = IF slots' = 0 THEN "idle" ELSE "pick"
  /\ UNCHANGED <<nodeVars, snap, cur, todo>>

\* Mutant: the query has no limit.
IsOldestUnlimited(S, Q, n) == S = Q

\* order_by(created_at).limit(n) over the candidates Q
IsOldest(S, Q, n) ==
  /\ S \subseteq Q
  /\ Cardinality(S) <= n
  /\ S # Q => Cardinality(S) = n
  /\ \A t \in S, u \in Q \ S : t < u

FillPick ==
  /\ pc = "pick"
  /\ \E S \in SUBSET InStatus({"queued"}) :
       /\ IsOldest(S, InStatus({"queued"}), slots)
       /\ Open(S)
  /\ pc' = "fill"
  /\ UNCHANGED <<nodeVars, slots>>

\* Mutants: the row is not marked as started; the gid is not kept.
AddedNotStarted(t) ==
  /\ AddUri(t)
  /\ Assign(t, [cur[t] EXCEPT !.gid = Len(aria2[t]) + 1])
  /\ UNCHANGED faults
AddedNoGid(t) ==
  /\ AddUri(t)
  /\ Assign(t, MarkStarted(cur[t]))
  /\ UNCHANGED faults

Added(t) ==
  /\ AddUri(t)
  /\ Assign(t, [MarkStarted(cur[t]) EXCEPT !.gid = Len(aria2[t]) + 1])
  /\ UNCHANGED faults

\* addUri raised: aria2 refused the download, or took it and the answer was lost.
AddFailed(t) ==
  /\ Fault("rpc")
  /\ \/ UNCHANGED aria2
     \/ AddUri(t)
  /\ Assign(t, MarkFailed(cur[t], "aria2"))

FillAdd(t) ==
  /\ pc = "fill"
  /\ t \in todo
  /\ \A u \in todo : t <= u
  /\ disk' = [disk EXCEPT ![t] = IF @ = "absent" THEN "empty" ELSE @]
  /\ Added(t) \/ AddFailed(t)
  /\ UNCHANGED <<db, now, pc, snap, slots>>

FillCommit ==
  /\ pc = "fill"
  /\ todo = {}
  /\ db' = Flush(snap, cur)
  /\ Closed
  /\ pc' = "idle"
  /\ UNCHANGED <<aria2, disk, now, faults, slots>>

-----------------------------------------------------------------------------
(* An exception leaves tick_once: the session rolls back, the loop sleeps. *)

\* a query or a commit raises
TableFails ==
  /\ pc \in {"count", "pick"} \/ (pc \in {"sync", "fill"} /\ todo = {})
  /\ Fault("db")

MkdirFails == pc = "fill" /\ todo # {} /\ Fault("fs")

TickAborts ==
  /\ TableFails \/ MkdirFails
  /\ Closed
  /\ pc' = "idle"
  /\ UNCHANGED <<db, aria2, disk, now, slots>>

TickStep ==
  \/ SyncLoad
  \/ \E t \in Tasks : SyncStatus(t)
  \/ SyncCommit
  \/ FillCount
  \/ FillPick
  \/ \E t \in Tasks : FillAdd(t)
  \/ FillCommit

TickNext == TickStep \/ TickAborts
=============================================================================
