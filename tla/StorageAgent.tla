----------------------------- MODULE StorageAgent -----------------------------
(***************************************************************************)
(* agents/storage_agent.py: the loop main.py runs every minute.  It first  *)
(* removes the files of completed tasks whose time to live is over (one    *)
(* session), then, if the completed tasks need more than the quota, those  *)
(* of the ones that completed first (it lists them in one session and      *)
(* removes them in a second one, reading each row again).                  *)
(***************************************************************************)
EXTENDS NodeState, Functions

CONSTANTS
  StorageLimit,   \* Settings.storage_limit_gb
  Size            \* Size[t]: total_size of t once completed

ASSUME StorageAssumption ==
  StorageLimit \in Nat /\ Size \in [Tasks -> Nat]

VARIABLES
  spc,      \* where the loop is
  ssnap,    \* the rows its session loaded
  scur,     \* the same rows with its assignments
  stodo,    \* rows still to be processed
  listed,   \* the rows enforce_quota found completed
  freed     \* the bytes it counts as freed

storageVars == <<spc, ssnap, scur, stodo, listed, freed>>

StoragePc == {"idle", "clean", "list", "evict", "purge"}

Total(S) == SumFunctionOnSet(Size, S)

StorageTypeOK ==
  /\ spc \in StoragePc
  /\ ssnap \in [Tasks -> Row]
  /\ scur \in [Tasks -> Row]
  /\ stodo \in SUBSET Tasks
  /\ listed \in [Tasks -> Row]
  /\ freed \in 0..Total(Tasks)

StorageInit ==
  /\ spc = "idle"
  /\ ssnap = EmptySession
  /\ scur = EmptySession
  /\ stodo = {}
  /\ listed = EmptySession
  /\ freed = 0

\* The loop sleeps, with no session open.
StorageSleeps ==
  /\ spc' = "idle"
  /\ ssnap' = EmptySession
  /\ scur' = EmptySession
  /\ stodo' = {}
  /\ listed' = EmptySession
  /\ freed' = 0

-----------------------------------------------------------------------------
(* cleanup_expired *)

\* Mutants: any ended task is due; the comparison is the wrong way round; a task is due
\* at its last moment.
DueEnded(row) == row.completedAt # NoTime /\ row.completedAt + TTL < now
DueSwapped(row) ==
  row.status = "completed" /\ row.completedAt # NoTime /\ now < row.completedAt + TTL

DueEarly(row) ==
  row.status = "completed" /\ row.completedAt # NoTime /\ row.completedAt + TTL <= now

Due(row) ==
  /\ row.status = "completed"
  /\ row.completedAt # NoTime
  /\ row.completedAt + TTL < now

CleanLoad ==
  LET S == {t \in Tasks : Due(db[t])}
  IN  /\ spc = "idle"
      /\ ssnap' = Load(S)
      /\ scur' = Load(S)
      /\ stodo' = S
      /\ spc' = "clean"
      /\ UNCHANGED <<nodeVars, listed, freed>>

\* Mutant: only the row is changed.
PurgeKeepsFiles(t) ==
  /\ scur' = [scur EXCEPT ![t] = Purged(ssnap[t])]
  /\ stodo' = stodo \ {t}
  /\ UNCHANGED <<nodeVars, ssnap, listed>>

\* _purge_task_files, and the assignments that follow it
Purge(t) ==
  /\ RemoveDir(t)
  /\ scur' = [scur EXCEPT ![t] = Purged(ssnap[t])]
  /\ stodo' = stodo \ {t}
  /\ UNCHANGED <<db, aria2, now, ssnap, listed>>

CleanPurge(t) ==
  /\ spc = "clean"
  /\ t \in stodo
  /\ Purge(t)
  /\ UNCHANGED <<spc, freed>>

CleanCommit ==
  /\ spc = "clean"
  /\ stodo = {}
  /\ db' = Flush(ssnap, scur)
  /\ ssnap' = EmptySession
  /\ scur' = EmptySession
  /\ spc' = "list"
  /\ UNCHANGED <<aria2, disk, now, faults, stodo, listed, freed>>

-----------------------------------------------------------------------------
(* enforce_quota *)

Listed == {t \in Tasks : listed[t].status # "none"}

\* Mutant: one unit too few is freed.
NeedFreeOffByOne == Total(Listed) - StorageLimit - 1

NeedFree == Total(Listed) - StorageLimit

QuotaList ==
  LET S == {t \in Tasks : db[t].status = "completed" /\ db[t].path}
  IN  /\ spc = "list"
      /\ IF Total(S) <= StorageLimit
         THEN StorageSleeps
         ELSE /\ listed' = Load(S)
              /\ stodo' = S
              /\ spc' = "evict"
              /\ UNCHANGED <<ssnap, scur, freed>>
      /\ UNCHANGED nodeVars

\* Mutant: the newest first.
EarlierDescending(a, b) == a.completedAt >= b.completedAt

\* order_by(completed_at.asc().nullslast())
Earlier(a, b) ==
  \/ b.completedAt = NoTime
  \/ a.completedAt # NoTime /\ a.completedAt <= b.completedAt

\* A row that is no longer completed is skipped, and not credited.
QuotaGet(t) ==
  /\ spc = "evict"
  /\ freed < NeedFree
  /\ t \in stodo
  /\ \A u \in stodo : Earlier(listed[t], listed[u])
  /\ IF db[t].status = "completed"
     THEN /\ ssnap' = [ssnap EXCEPT ![t] = db[t]]
          /\ scur' = [scur EXCEPT ![t] = db[t]]
          /\ spc' = "purge"
          /\ UNCHANGED stodo
     ELSE /\ stodo' = stodo \ {t}
          /\ UNCHANGED <<spc, ssnap, scur>>
  /\ UNCHANGED <<nodeVars, listed, freed>>

\* A directory that is already gone is not credited.
QuotaPurge(t) ==
  /\ spc = "purge"
  /\ t \in stodo
  /\ ssnap[t].status # "none"
  /\ Purge(t)
  /\ freed' = IF disk[t] = "absent" THEN freed ELSE freed + Size[t]
  /\ spc' = "evict"

QuotaDone == spc = "evict" /\ (stodo = {} \/ freed >= NeedFree)

QuotaCommit ==
  /\ QuotaDone
  /\ db' = Flush(ssnap, scur)
  /\ StorageSleeps
  /\ UNCHANGED <<aria2, disk, now, faults>>

-----------------------------------------------------------------------------
\* A query or a commit raises: rollback, and the loop sleeps.
StorageAborts ==
  /\ spc \in {"list", "evict"} \/ (spc = "clean" /\ stodo = {})
  /\ Fault("db")
  /\ StorageSleeps
  /\ UNCHANGED <<db, aria2, disk, now>>

StorageStep ==
  \/ CleanLoad
  \/ \E t \in Tasks : CleanPurge(t)
  \/ CleanCommit
  \/ QuotaList
  \/ \E t \in Tasks : QuotaGet(t)
  \/ \E t \in Tasks : QuotaPurge(t)
  \/ QuotaCommit

StorageNext == StorageStep \/ StorageAborts
=============================================================================
